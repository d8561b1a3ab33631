--------------------------- MODULE MCConfigDraft ---------------------------
EXTENDS ConfigDraft
=============================================================================
