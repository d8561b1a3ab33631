----------------------------- MODULE CallRecord -----------------------------
(***************************************************************************)
(* What the console reads of a call (GET /tenants/:id/calls): a record that *)
(* belongs to one tenant from the moment it exists, whose lines only grow   *)
(* and which is closed once.  Lines may still arrive after the closing:     *)
(* ingest.controller.ts never compares the two.                             *)
(***************************************************************************)
EXTENDS Naturals

CONSTANTS Calls, Utterances, Tenants, None

VARIABLES owner,    \* Calls -> the tenant the call is filed under, or None
          lines,    \* Calls -> the utterances stored
          closed    \* the calls with an end and a duration

vars == <<owner, lines, closed>>

Init == /\ owner = [c \in Calls |-> None]
        /\ lines = [c \in Calls |-> {}]
        /\ closed = {}

Open(c, t) == /\ owner[c] = None
              /\ owner' = [owner EXCEPT ![c] = t]
              /\ UNCHANGED <<lines, closed>>

Append(c, u) == /\ owner[c] # None
                /\ lines' = [lines EXCEPT ![c] = @ \cup {u}]
                /\ UNCHANGED <<owner, closed>>

Close(c) == /\ owner[c] # None
            /\ c \notin closed
            /\ closed' = closed \cup {c}
            /\ UNCHANGED <<owner, lines>>

Next == \E c \in Calls : \/ \E t \in Tenants : Open(c, t)
                         \/ \E u \in Utterances : Append(c, u)
                         \/ Close(c)

Spec == Init /\ [][Next]_vars
=============================================================================
