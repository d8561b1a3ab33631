--------------------------- MODULE MCVoiceGateway ---------------------------
EXTENDS VoiceGateway

CONSTANTS shopA, shopB

(* The number moves from one shop to another.                                *)
MCHolder == [v \in 0..MaxVersion |-> IF v = 0 THEN shopA ELSE shopB]
=============================================================================
