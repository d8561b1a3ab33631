--------------------------- MODULE MCVoiceSession ---------------------------
(* Small instances of VoiceSession for TLC. *)
EXTENDS VoiceSessionProps, TLC

MCTools == {"get_kb_answer", "lookup_subscriber"}
=============================================================================
