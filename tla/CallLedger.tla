----------------------------- MODULE CallLedger -----------------------------
(***************************************************************************)
(* What an inbound call's stored record promises, whatever the handlers do *)
(* in between: a session is opened once, tools and conversation are worked *)
(* and audio is captured only for a session whose caller has been told     *)
(* about the AI and the recording, and an ended session stays ended.       *)
(* These are GUARDRAIL #3 (disclosure and consent) and #7 (trace) as       *)
(* apps/voice/src/session/session-handler.ts states them in its header.    *)
(***************************************************************************)
CONSTANTS Sessions,
          CallOf      \* the call a session was opened for

VARIABLES opened, consented, worked, captured, closed

ledger == <<opened, consented, worked, captured, closed>>

Init ==
  /\ opened = {}
  /\ consented = {}
  /\ worked = {}
  /\ captured = {}
  /\ closed = {}

Open(s) ==
  /\ s \notin opened
  /\ opened' = opened \cup {s}
  /\ UNCHANGED <<consented, worked, captured, closed>>

Consent(s) ==
  /\ s \in opened
  /\ consented' = consented \cup {s}
  /\ UNCHANGED <<opened, worked, captured, closed>>

Work(s) ==
  /\ s \in consented
  /\ worked' = worked \cup {s}
  /\ UNCHANGED <<opened, consented, captured, closed>>

\* What is captured of a call is filed with a session of it: the one that holds
\* the caller's consent, unless the call was opened twice.
SameCall(s) == {u \in opened : CallOf[u] = CallOf[s]}

Capture(s) ==
  /\ s \in opened /\ SameCall(s) \cap consented # {}
  /\ SameCall(s) = {s} => s \in consented
  /\ captured' = captured \cup {s}
  /\ UNCHANGED <<opened, consented, worked, closed>>

\* A call may end before its disclosure was played, so closing needs no consent.
Close(s) ==
  /\ s \in opened
  /\ closed' = closed \cup {s}
  /\ UNCHANGED <<opened, consented, worked, captured>>

Next == \E s \in Sessions :
  Open(s) \/ Consent(s) \/ Work(s) \/ Capture(s) \/ Close(s)

Spec == Init /\ [][Next]_ledger
=============================================================================
