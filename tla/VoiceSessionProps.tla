-------------------------- MODULE VoiceSessionProps --------------------------
(***************************************************************************)
(* What SessionHandler must keep to, over the model of VoiceSession.       *)
(***************************************************************************)
EXTENDS VoiceSession

\* Handlers, LiveCall objects, stored rows and lines have their types.
StateOK ==
  /\ posts \subseteq Posts
  /\ line \in [Calls -> {"idle", "ringing", "accepted", "up", "down"}]
  /\ recording \subseteq Calls /\ transferred \subseteq Calls
  /\ pc \in [Posts -> {"idle"} \cup Running \cup Finished]
  /\ at \in [Posts -> Sessions \cup {None}]
  /\ turn \in [Posts -> 0 .. MaxTurns]
  /\ tool \in [Posts -> Tools \cup {None}]
  /\ live \in [Calls -> Sessions \cup {None}]
  /\ unknown \subseteq Calls
  /\ lastTool \in [Calls -> Tools \cup {None}]
  /\ outcome \in [Sessions -> Outcomes \cup {None}]
  /\ agent \in [Sessions -> {"none", "open", "closed"}]
  /\ created \in [Calls -> 0 .. MaxCopies]
  /\ stored \in [Sessions -> Outcomes \cup {None}]
  /\ ended \subseteq Sessions /\ failed \subseteq Sessions
  /\ identified \subseteq Sessions /\ saved \subseteq Sessions
  /\ consents \subseteq Sessions \X ConsentKinds
  /\ transcripts \subseteq Sessions \X Roles
  /\ traces \subseteq Sessions \X Tools

\* Every variable has its type.
TypeOK == StateOK /\ late \subseteq Calls

SessionsOf(c) == {c} \X Copies

Disclosed(s) == \A k \in ConsentKinds : <<s, k>> \in consents

Traced(s) == \E t \in Tools : <<s, t>> \in traces

\* The agent has done something in session s.
Worked(s) == \/ Traced(s) \/ s \in identified
             \/ outcome[s] # None \/ <<s, "agent">> \in transcripts

-----------------------------------------------------------------------------
(* Where the handlers stand: the inductive part of the safety properties.  *)

InTool    == {"invoking", "succeeded", "erred", "identified"}
InAgent   == {"noted", "taping", "next", "transferring"} \cup InTool
Disclosing == {"disclosing", "consenting", "consented"}
InAnswered == {"apologising", "dropping"} \cup Disclosing \cup InAgent
InEnded   == {"closing", "forgetting"}
InCall    == {"resolving", "refusing", "answering", "locating", "saving"}
               \cup InEnded \cup Disclosing \cup InAgent

\* A handler runs for a post that was sent, at awaits of its own kind, on a
\* session of its own call and, inside a tool, on a tool.
HandlersOK ==
  /\ \A c \in Calls : live[c] \in SessionsOf(c) \cup {None}
  /\ \A p \in Posts :
       /\ pc[p] # "idle" => p \in posts
       /\ pc[p] \in InAnswered => p.type = "answered"
       /\ pc[p] \in InEnded => p.type = "ended"
       /\ pc[p] \in InCall => at[p] \in SessionsOf(p.call)
       /\ pc[p] \in InTool => tool[p] \in Tools

\* How far the disclosure is filed when a handler has come to a given await.
DisclosureProgress ==
  \A p \in Posts :
    /\ pc[p] = "consenting" => <<at[p], "ai_disclosure">> \in consents
    /\ pc[p] \in {"consented"} \cup InAgent => Disclosed(at[p])
    /\ pc[p] \in InAgent => <<at[p], "system">> \in transcripts

-----------------------------------------------------------------------------
(* Safety. *)

\* GUARDRAIL #3: ClawOps is told to record a call only after the AI and the
\* recording consent of a session of that call are both stored, whichever of
\* the interleaved handlers of the call ran when (session-handler.ts:201-224).
RecordingAfterConsent ==
  \A c \in Calls : c \in recording => \E s \in SessionsOf(c) : Disclosed(s)

\* A session the agent worked on (a traced tool, an agent turn, a tool outcome,
\* a verified subscriber) was disclosed first, both consents and the disclosure
\* segment of the transcript, even when a copy of a webhook started a second
\* session or a second driver for the call.
NothingBeforeDisclosure ==
  \A s \in Sessions :
    Worked(s) => Disclosed(s) /\ <<s, "system">> \in transcripts

\* The recording and the caller's words are filed for a caller who agreed to
\* them, and, as long as the call has one session, with the session of that
\* consent.  (A repeated call.initiated opens a second session; the recording is
\* then filed with the first one, findByClawopsCallId, whichever of the two the
\* caller was heard in: session-handler.ts:368.)
RecordingFiledWithConsent ==
  \A s \in Sessions : s \in saved \/ <<s, "caller">> \in transcripts =>
    /\ \E u \in SessionsOf(s[1]) : Disclosed(u)
    /\ created[s[1]] = 1 => Disclosed(s)

EndHandled(c) == \E p \in posts :
  p.type = "ended" /\ p.call = c /\ pc[p] \in Finished

Taken(c) == \E p \in posts :
  p.type = "answered" /\ p.call = c /\ pc[p] \notin {"idle", "ignored"}

\* An answered call is never left in silence: the answered handler misses the
\* call (neither live nor unknown) only when call.ended was handled before, or
\* another copy of the post took the call up.  It needs the registration of the
\* call to come before clawops.answer (session-handler.ts:148, 175, 183).
AnswerNotDropped ==
  \A p \in Posts :
    p.type = "answered" /\ pc[p] = "ignored"
    => EndHandled(p.call) \/ Taken(p.call)

\* The stored outcome never lags behind the outcome in memory: the call's end, a
\* repeated end, and a tool that finishes at the same time cannot overwrite each
\* other.  The one value set in memory alone is the transfer of a call without
\* tools (session-handler.ts:340).  Until the call's end is filed nothing is
\* stored for it; if the end was filed while warmTransfer was awaited, "other"
\* was stored and stays.
StoredOutcomeCurrent ==
  \A s \in Sessions :
    outcome[s] \notin {None, stored[s]} =>
      /\ outcome[s] = "transferred"
      /\ stored[s] = IF s \in ended THEN "other" ELSE None

\* What AnswerNotDropped rests on: a call is findable from the moment the answer
\* is ordered until its answered post is taken up or its end is handled.
Findable(c) == live[c] # None \/ c \in unknown \/ EndHandled(c) \/ Taken(c)

AnsweredIsFindable ==
  /\ \A c \in Calls : line[c] = "accepted" => Findable(c)
  /\ \A p \in posts : p.type = "answered" => Findable(p.call)
  /\ \A p \in Posts : pc[p] = "refusing" => Findable(p.call)

IInv == /\ TypeOK
        /\ HandlersOK
        /\ DisclosureProgress /\ NothingBeforeDisclosure /\ RecordingAfterConsent
        /\ AnsweredIsFindable /\ AnswerNotDropped

-----------------------------------------------------------------------------
(* What filing rests on: whose sessions the handlers have in hand.         *)

Opened(s) == s[2] <= created[s[1]]

Holding == {"resolving"} \cup Disclosing \cup InAgent
Engaged == Disclosing \cup InAgent \cup InEnded

\* A handler works on a stored session, and nothing but the handler that opened a
\* session works on it before the LiveCall is registered.
SessionsApart ==
  /\ \A p \in Posts : pc[p] \in InCall => Opened(at[p])
  /\ \A c \in Calls : live[c] # None => Opened(live[c])
  /\ \A s \in Sessions : ~ Opened(s) =>
       outcome[s] = None /\ stored[s] = None /\ agent[s] = "none"
  /\ \A p \in Posts : pc[p] = "resolving" =>
       /\ outcome[at[p]] = None /\ stored[at[p]] = None /\ agent[at[p]] = "none"
       /\ live[p.call] # at[p]
       /\ \A q \in Posts : q # p /\ pc[q] \in Holding => at[q] # at[p]

\* A session that was never registered is worked on by nobody, and one without an
\* outcome has "other" stored exactly if its end was filed.
Unregistered == \A s \in Sessions : agent[s] = "none" =>
  /\ live[s[1]] # s /\ outcome[s] = None /\ s \notin ended
  /\ \A p \in Posts : at[p] = s => pc[p] \notin Engaged

BlankUntilTold == \A s \in Sessions : outcome[s] = None /\ agent[s] # "none" =>
  stored[s] = IF s \in ended THEN "other" ELSE None

OutcomeInv == SessionsApart /\ Unregistered /\ BlankUntilTold /\ StoredOutcomeCurrent

\* A recording is of a call whose caller agreed in one of its sessions.
RecordedCalls ==
  /\ \A p \in posts : p.type = "recording" => p.call \in recording
  /\ \A p \in Posts : pc[p] \in {"locating", "saving"} => p.type = "recording"
  /\ \A s \in Sessions : s \in saved \/ <<s, "caller">> \in transcripts =>
       Opened(s) /\ \E u \in SessionsOf(s[1]) : Disclosed(u)
  /\ \A s \in Sessions : Disclosed(s) => Opened(s)

FilingInv == SessionsApart /\ RecordedCalls

Ended(c) == line[c] = "down"

EndReturned(c) == \E p \in posts :
  p.type = "ended" /\ p.call = c /\ pc[p] \in {"done", "ignored"}

\* Once a handler of call.ended returned, nothing of the call is left in memory,
\* whatever its other handlers still do, fail at, or repeat; and unless a second
\* session took the place of the first, its agent session is closed.  The calls
\* that are registered after call.ended had looked for them are the exception
\* (the webhook overtook call.initiated during the tenant lookup,
\* session-handler.ts:143): nobody removes those.
TornDown ==
  \A c \in Calls : EndReturned(c) /\ c \notin late =>
    /\ live[c] = None /\ c \notin unknown
    /\ created[c] <= 1 => \A s \in SessionsOf(c) : agent[s] # "open"

\* What TornDown rests on: an agent session that is open is the live one or was
\* replaced by it, and after the end was looked up nothing comes to be live.
TearDownInv ==
  /\ \A p \in Posts : pc[p] \in {"resolving", "refusing", "answering"} =>
       p.type = "initiated"
  /\ \A p \in Posts : p.type = "ended" /\ pc[p] # "idle" /\ p.call \notin late =>
       /\ p.call \notin unknown
       /\ pc[p] \in {"done", "ignored"} => live[p.call] = None
       /\ pc[p] \in InEnded => live[p.call] \in {at[p], None}
  /\ \A p \in Posts : pc[p] = "forgetting" => agent[at[p]] # "open"
  /\ \A c \in Calls : created[c] <= 1 =>
       \A s \in SessionsOf(c) : agent[s] = "open" => live[c] = s

Ledger == INSTANCE CallLedger WITH
  CallOf    <- [s \in Sessions |-> s[1]],
  opened    <- {s \in Sessions : s[2] <= created[s[1]]},
  consented <- {s \in Sessions : Disclosed(s)},
  worked    <- {s \in Sessions : Traced(s)},
  captured  <- saved,
  closed    <- ended

\* Every step of the handlers is a step of the ledger or leaves it alone.
ImplementsLedger == Ledger!Spec

\* Fairness: the event loop runs every handler whose await has returned, and
\* ClawOps delivers what it posted.  The caller and the line owe nothing.
FairSpec == Spec /\ \A p \in Posts : WF_vars(Handle(p) /\ Note)

\* Once the line is down, the end of the call is filed for good: a session of it
\* with endedAt and an outcome, or with the reason a number without tenant was
\* refused for, even if adapter calls are rejected or webhooks come twice.  Only
\* a call that is registered after call.ended looked for it stays open.
EndIsFiled ==
  \A c \in Calls :
    Ended(c) ~> [](\/ c \in late
                   \/ \E s \in SessionsOf(c) : \/ s \in ended
                                               \/ s \in failed /\ agent[s] = "none")

\* A caller who reached a number without tenant is not kept waiting: once the
\* call was answered, and no copy of call.initiated found a tenant for it, the
\* line goes down, or the handler failed at a rejected adapter call.
UnknownTenantIsReleased ==
  \A c \in Calls :
    line[c] = "up" /\ c \in unknown /\ live[c] = None ~>
      \/ Ended(c)
      \/ \E p \in posts : p.call = c /\ p.type = "answered" /\ pc[p] = "failed"
=============================================================================
