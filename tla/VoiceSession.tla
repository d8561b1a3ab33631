---------------------------- MODULE VoiceSession ----------------------------
(***************************************************************************)
(* SessionHandler (apps/voice): the orchestration of inbound calls.        *)
(*                                                                         *)
(* ClawOps posts one webhook per call event.  Each post runs one async     *)
(* handler; a handler gives up control at every await, so the handlers of  *)
(* one call interleave there.  pc[p] names the call that the handler of    *)
(* post p awaits.  A step runs from the return of that call to  *)
(* the next await; the store is the in-memory repository, which applies an *)
(* update before its promise is returned, so an update belongs to the step *)
(* that issues it.  Awaits between which nothing is read or written are    *)
(* one label.  Texts, phone numbers, timestamps and prompts are left out.  *)
(***************************************************************************)
EXTENDS Naturals, FiniteSets

CONSTANTS
  Calls,            \* ClawOps call ids
  MaxCopies,        \* times a webhook of one kind may be posted for a call
  Redelivered,      \* the kinds of webhook that may be posted more than once
  MaxTurns,         \* agent events one driveAgent loop consumes (32 in the code)
  Tools,            \* the tools the agent calls in this instance
  CanRecord,        \* clawops.capabilities.recording
  CanTransfer,      \* clawops.capabilities.warmTransfer
  MayThrow,         \* the ClawOps or voice-agent adapter may reject a call
  None

ToolNames == {"lookup_subscriber", "get_usage", "get_kb_answer",
              "create_ticket", "route_to_sales", "escalate_to_human",
              "request_callback", "send_selfservice_link"}

ASSUME CopiesAssumption == MaxCopies \in Nat \ {0}
ASSUME TurnsAssumption  == MaxTurns \in Nat \ {0}
ASSUME ToolsAssumption  == Tools \subseteq ToolNames
ASSUME FlagsAssumption  == {CanRecord, CanTransfer, MayThrow} \subseteq BOOLEAN

EventTypes == {"initiated", "answered", "ended", "recording"}
Copies     == 1 .. MaxCopies
Posts      == [type : EventTypes, call : Calls, copy : Copies]
Sessions   == Calls \X Copies

Post(e, c) == [type |-> e, call |-> c, copy |-> 1]

ConsentKinds == {"ai_disclosure", "recording"}
Roles        == {"system", "agent", "caller"}
Outcomes     == {"kb_answered", "ticket_created", "transferred",
                 "callback_queued", "selfservice_sent", "other"}

ASSUME NoneAssumption == None \notin Sessions \cup Outcomes

Running  == {"resolving", "refusing", "answering", "apologising", "dropping",
             "disclosing", "consenting", "consented", "noted", "taping", "next",
             "invoking", "succeeded", "erred", "identified", "transferring",
             "closing", "forgetting", "locating", "saving"}
\* "ignored" is an early return that found no call; "failed" a rejected handler.
Finished == {"done", "ignored", "failed"}

VARIABLES
  \* ClawOps and the caller
  posts,        \* the webhook posts ClawOps has sent
  line,         \* line[c]: the state of the telephone line of call c
  recording,    \* the calls ClawOps was told to record
  transferred,  \* the calls ClawOps was told to hand to a person
  \* one handler per post: the await, the session in hand, the loop's guard, the tool
  pc, at, turn, tool,
  \* the memory of SessionHandler
  live,         \* call id -> the session of its LiveCall
  unknown,      \* unknownTenantCalls
  lastTool,     \* lastToolCall
  outcome,      \* outcome[s]: LiveCall.outcome of session s
  agent,        \* agent[s]: LiveCall.agentSession of session s
  \* the repository: columns of the session table, then the tables beside it
  created,      \* the number of sessions stored for a call
  stored,       \* stored[s]: outcome
  ended,        \* the sessions with endedAt
  failed,       \* the sessions with failureReason
  identified,   \* the sessions with subscriberId
  saved,        \* the sessions with recordingUrl
  consents, transcripts, traces,
  late          \* history: calls registered after call.ended had looked for them

telephone == <<posts, line, recording, transferred>>
memory    == <<live, unknown, lastTool, outcome, agent>>
flags     == <<ended, failed, identified, saved>>
tables    == <<consents, transcripts, traces>>
store     == <<created, stored, flags, tables>>
vars      == <<telephone, pc, at, turn, tool, memory, store, late>>

Init ==
  /\ posts = {} /\ recording = {} /\ transferred = {}
  /\ line = [c \in Calls |-> "idle"]
  /\ pc = [p \in Posts |-> "idle"]
  /\ at = [p \in Posts |-> None]
  /\ turn = [p \in Posts |-> 0]
  /\ tool = [p \in Posts |-> None]
  /\ live = [c \in Calls |-> None]
  /\ unknown = {}
  /\ lastTool = [c \in Calls |-> None]
  /\ outcome = [s \in Sessions |-> None]
  /\ agent = [s \in Sessions |-> "none"]
  /\ created = [c \in Calls |-> 0]
  /\ stored = [s \in Sessions |-> None]
  /\ ended = {} /\ failed = {} /\ identified = {} /\ saved = {}
  /\ consents = {} /\ transcripts = {} /\ traces = {}
  /\ late = {}

----------------------------------------------------------------------------
(* The telephone side (ClawOps and the caller), as src/ relies on it.      *)

handlers == <<pc, at, turn, tool>>

Arrive(c) ==
  /\ line[c] = "idle"
  /\ line' = [line EXCEPT ![c] = "ringing"]
  /\ posts' = posts \cup {Post("initiated", c)}
  /\ UNCHANGED <<recording, transferred, handlers, memory, store>>

Connect(c) ==
  /\ line[c] = "accepted"
  /\ line' = [line EXCEPT ![c] = "up"]
  /\ posts' = posts \cup {Post("answered", c)}
  /\ UNCHANGED <<recording, transferred, handlers, memory, store>>

CallerHangsUp(c) ==
  /\ line[c] \in {"ringing", "accepted", "up"}
  /\ line' = [line EXCEPT ![c] = "down"]
  /\ posts' = posts \cup {Post("ended", c)}
  /\ UNCHANGED <<recording, transferred, handlers, memory, store>>

RecordingReady(c) ==
  /\ line[c] = "down" /\ c \in recording
  /\ Post("recording", c) \notin posts
  /\ posts' = posts \cup {Post("recording", c)}
  /\ UNCHANGED <<line, recording, transferred, handlers, memory, store>>

\* A webhook is posted again when its reply was an error or was lost.
NextCopy(p) == [type |-> p.type, call |-> p.call, copy |-> p.copy + 1]

Redeliver(p) ==
  /\ p \in posts /\ p.copy < MaxCopies /\ p.type \in Redelivered
  /\ NextCopy(p) \notin posts
  /\ posts' = posts \cup {NextCopy(p)}
  /\ UNCHANGED <<line, recording, transferred, handlers, memory, store>>

\* The commands of the adapter: what they do to the line of call c.
Answer(c) ==
  /\ line' = [line EXCEPT ![c] = IF @ = "ringing" THEN "accepted" ELSE @]
  /\ UNCHANGED <<posts, recording, transferred>>

HangUp(c) ==
  /\ line' = [line EXCEPT ![c] = "down"]
  /\ posts' = posts \cup {Post("ended", c)}
  /\ UNCHANGED <<recording, transferred>>

----------------------------------------------------------------------------
(* Handlers.                                                               *)

\* The post p of kind e reaches the server and its handler starts.
Starts(p, e) ==
  /\ p \in posts /\ p.type = e
  /\ pc[p] = "idle"

Goto(p, label) ==
  /\ pc' = [pc EXCEPT ![p] = label]
  /\ UNCHANGED <<at, turn, tool>>

GotoAt(p, label, s) ==
  /\ pc' = [pc EXCEPT ![p] = label]
  /\ at' = [at EXCEPT ![p] = s]
  /\ UNCHANGED <<turn, tool>>

Return(p, label) == Goto(p, label) /\ UNCHANGED <<telephone, memory, store>>

\* while (guard++ < 32): back to next(), or out of the loop.
NextTurn(p) ==
  /\ \/ /\ turn[p] < MaxTurns
        /\ pc' = [pc EXCEPT ![p] = "next"]
        /\ turn' = [turn EXCEPT ![p] = @ + 1]
     \/ /\ turn[p] >= MaxTurns
        /\ pc' = [pc EXCEPT ![p] = "done"]
        /\ UNCHANGED turn
  /\ UNCHANGED <<at, tool>>

OutcomeForTool(t) ==
  CASE t = "get_kb_answer"                            -> "kb_answered"
    [] t = "create_ticket"                            -> "ticket_created"
    [] t \in {"route_to_sales", "escalate_to_human"}  -> "transferred"
    [] t = "request_callback"                         -> "callback_queued"
    [] t = "send_selfservice_link"                    -> "selfservice_sent"
    [] OTHER                                          -> "other"

(* call.initiated *)

OnInitiated(p) ==
  /\ Starts(p, "initiated")
  /\ created[p.call] < MaxCopies    \* holds: one session per post
  /\ created' = [created EXCEPT ![p.call] = @ + 1]
  /\ GotoAt(p, "resolving", <<p.call, created[p.call] + 1>>)
  /\ UNCHANGED <<telephone, memory, stored, flags, tables>>

ResolveUnknown(p) ==
  /\ pc[p] = "resolving"
  /\ unknown' = unknown \cup {p.call}
  /\ stored' = [stored EXCEPT ![at[p]] = "other"]
  /\ failed' = failed \cup {at[p]}
  /\ Goto(p, "refusing")
  /\ UNCHANGED <<telephone, live, lastTool, outcome, agent,
                 created, ended, identified, saved, tables>>

AnswerUnknown(p) ==
  /\ pc[p] = "refusing"
  /\ Answer(p.call)
  /\ Goto(p, "answering")
  /\ UNCHANGED <<memory, store>>

Register(p) ==
  /\ live' = [live EXCEPT ![p.call] = at[p]]
  /\ outcome' = [outcome EXCEPT ![at[p]] = None]
  /\ agent' = [agent EXCEPT ![at[p]] = "open"]
  /\ Goto(p, "answering")
  /\ UNCHANGED <<unknown, lastTool, store>>

\* Mutant of ResolveKnown: the call is answered before it is registered.
AnswerThenRegister(p) ==
  /\ pc[p] = "resolving"
  /\ \/ /\ line[p.call] = "ringing"
        /\ Answer(p.call)
        /\ UNCHANGED <<handlers, memory, store>>
     \/ /\ line[p.call] # "ringing"
        /\ Register(p)
        /\ UNCHANGED telephone

\* The LiveCall is registered before the call is answered.
ResolveKnown(p) ==
  /\ pc[p] = "resolving"
  /\ Register(p)
  /\ Answer(p.call)

Replied(p) == pc[p] = "answering" /\ Return(p, "done")

(* call.answered *)

OnAnsweredUnknown(p) ==
  /\ Starts(p, "answered")
  /\ p.call \in unknown
  /\ Return(p, "apologising")

\* Mutant of Drop: the notice is played and the line left open.
DropNothing(p) == pc[p] = "apologising" /\ Return(p, "dropping")

Drop(p) ==
  /\ pc[p] = "apologising"
  /\ HangUp(p.call)
  /\ Goto(p, "dropping")
  /\ UNCHANGED <<memory, store>>

Dropped(p) ==
  /\ pc[p] = "dropping"
  /\ unknown' = unknown \ {p.call}
  /\ Goto(p, "done")
  /\ UNCHANGED <<telephone, live, lastTool, outcome, agent, store>>

OnAnsweredMissing(p) ==
  /\ Starts(p, "answered")
  /\ p.call \notin unknown /\ live[p.call] = None
  /\ Return(p, "ignored")

\* Mutant of OnAnswered: the agent takes over before the disclosure.
GreetFirst(p) ==
  /\ Starts(p, "answered")
  /\ p.call \notin unknown /\ live[p.call] # None
  /\ GotoAt(p, "noted", live[p.call])
  /\ UNCHANGED <<telephone, memory, store>>

OnAnswered(p) ==
  /\ Starts(p, "answered")
  /\ p.call \notin unknown /\ live[p.call] # None
  /\ GotoAt(p, "disclosing", live[p.call])
  /\ UNCHANGED <<telephone, memory, store>>

RecordConsent(p, from, kind, to) ==
  /\ pc[p] = from
  /\ consents' = consents \cup {<<at[p], kind>>}
  /\ Goto(p, to)
  /\ UNCHANGED <<telephone, memory, created, stored, flags, transcripts, traces>>

ConsentToAI(p) == RecordConsent(p, "disclosing", "ai_disclosure", "consenting")

\* Mutant of ConsentToRecording: the first kind is stored twice.
ConsentToAITwice(p) == RecordConsent(p, "consenting", "ai_disclosure", "consented")

ConsentToRecording(p) == RecordConsent(p, "consenting", "recording", "consented")

AppendTranscript(p, role) ==
  /\ transcripts' = transcripts \cup {<<at[p], role>>}
  /\ UNCHANGED <<telephone, memory, created, stored, flags, consents, traces>>

NoteDisclosure(p) ==
  /\ pc[p] = "consented"
  /\ AppendTranscript(p, "system")
  /\ Goto(p, "noted")

StartRecording(p) ==
  /\ pc[p] = "noted" /\ CanRecord
  /\ recording' = recording \cup {p.call}
  /\ Goto(p, "taping")
  /\ UNCHANGED <<posts, line, transferred, memory, store>>

StartAgent(p) ==
  /\ pc[p] = IF CanRecord THEN "taping" ELSE "noted"
  /\ NextTurn(p)
  /\ UNCHANGED <<telephone, memory, store>>

(* driveAgent: the step taken for each event next() may return *)

AgentDone(p) == pc[p] = "next" /\ Return(p, "done")

\* "speech" stores an agent segment, "user_utterance" a caller segment.
Converse(p) ==
  /\ pc[p] = "next"
  /\ \E role \in {"agent", "caller"} : AppendTranscript(p, role)
  /\ NextTurn(p)

BargeIn(p) ==
  /\ pc[p] = "next"
  /\ NextTurn(p)
  /\ UNCHANGED <<telephone, memory, store>>

InvokeTool(p) ==
  /\ pc[p] = "next"
  /\ \E t \in Tools :
       /\ lastTool' = [lastTool EXCEPT ![p.call] = t]
       /\ tool' = [tool EXCEPT ![p] = t]
  /\ pc' = [pc EXCEPT ![p] = "invoking"]
  /\ UNCHANGED <<telephone, at, turn, live, unknown, outcome, agent, store>>

TraceTool(p) ==
  /\ pc[p] = "invoking"
  /\ traces' = traces \cup {<<at[p], tool[p]>>}
  /\ \E result \in {"succeeded", "erred"} : Goto(p, result)
  /\ UNCHANGED <<telephone, memory, created, stored, flags, consents, transcripts>>

IdentifySubscriber(p) ==
  /\ pc[p] = "succeeded" /\ tool[p] = "lookup_subscriber"
  /\ identified' = identified \cup {at[p]}
  /\ Goto(p, "identified")
  /\ UNCHANGED <<telephone, memory, created, stored, ended, failed, saved, tables>>

\* In memory and, in the same step, in the store.
SetOutcome(p, o) ==
  /\ outcome' = [outcome EXCEPT ![at[p]] = o]
  /\ stored' = [stored EXCEPT ![at[p]] = o]
  /\ NextTurn(p)
  /\ UNCHANGED <<telephone, live, unknown, lastTool, agent,
                 created, ended, identified, saved, tables>>

\* A lookup that finds nobody skips IdentifySubscriber.
ToolSucceeded(p) ==
  /\ pc[p] \in {"succeeded", "identified"}
  /\ SetOutcome(p, OutcomeForTool(tool[p]))
  /\ UNCHANGED failed

ToolErred(p) ==
  /\ pc[p] = "erred"
  /\ SetOutcome(p, "other")
  /\ failed' = failed \cup {at[p]}

\* After "final" next() returns null (voice-agent-mock.ts:71-75): the loop ends.
FinalHangUp(p) ==
  /\ pc[p] = "next"
  /\ HangUp(p.call)
  /\ Goto(p, "done")
  /\ UNCHANGED <<memory, store>>

\* A transfer ordered after the line went down hands over nobody.
FinalTransfer(p) ==
  /\ pc[p] = "next" /\ CanTransfer
  /\ transferred' = transferred \cup {c \in {p.call} : line[c] = "up"}
  /\ Goto(p, "transferring")
  /\ UNCHANGED <<posts, line, recording, memory, store>>

\* if (call.outcome === null) call.outcome = "transferred": in memory only.
Transferred(p) ==
  /\ pc[p] = IF CanTransfer THEN "transferring" ELSE "next"
  /\ outcome' = [outcome EXCEPT ![at[p]] = IF @ = None THEN "transferred" ELSE @]
  /\ Goto(p, "done")
  /\ UNCHANGED <<telephone, live, unknown, lastTool, agent, store>>

(* call.ended *)

OnEndedMissing(p) ==
  /\ Starts(p, "ended")
  /\ live[p.call] = None
  /\ unknown' = unknown \ {p.call}
  /\ Goto(p, "ignored")
  /\ UNCHANGED <<telephone, live, lastTool, outcome, agent, store>>

\* Mutant of OutcomeOrOther: the outcome in memory is ignored.
AlwaysOther(s) == "other"

OutcomeOrOther(s) == IF outcome[s] = None THEN "other" ELSE outcome[s]

\* Mutant of OnEnded: a call without an outcome is not filed.
EndOnlyWithOutcome(p) ==
  /\ Starts(p, "ended")
  /\ live[p.call] # None
  /\ unknown' = unknown \ {p.call}
  /\ IF outcome[live[p.call]] = None THEN UNCHANGED <<ended, stored>>
     ELSE /\ ended' = ended \cup {live[p.call]}
          /\ stored' = [stored EXCEPT ![live[p.call]] = outcome[live[p.call]]]
  /\ GotoAt(p, "closing", live[p.call])
  /\ UNCHANGED <<telephone, live, lastTool, outcome, agent,
                 created, failed, identified, saved, tables>>

OnEnded(p) ==
  /\ Starts(p, "ended")
  /\ live[p.call] # None
  /\ unknown' = unknown \ {p.call}
  /\ ended' = ended \cup {live[p.call]}
  /\ stored' = [stored EXCEPT ![live[p.call]] = OutcomeOrOther(live[p.call])]
  /\ GotoAt(p, "closing", live[p.call])
  /\ UNCHANGED <<telephone, live, lastTool, outcome, agent,
                 created, failed, identified, saved, tables>>

CloseAgent(p) ==
  /\ pc[p] = "closing"
  /\ agent' = [agent EXCEPT ![at[p]] = "closed"]
  /\ Goto(p, "forgetting")
  /\ UNCHANGED <<telephone, live, unknown, lastTool, outcome, store>>

\* Mutant of Forget: live.delete is missing.
ForgetNothing(p) == pc[p] = "forgetting" /\ Return(p, "done")

Forget(p) ==
  /\ pc[p] = "forgetting"
  /\ live' = [live EXCEPT ![p.call] = None]
  /\ Goto(p, "done")
  /\ UNCHANGED <<telephone, unknown, lastTool, outcome, agent, store>>

(* recording.completed *)

\* findByClawopsCallId returns the first session stored for the call.  There is
\* one: only an answered call is recorded, and its session came first (line 369).
OnRecording(p) ==
  /\ Starts(p, "recording")
  /\ created[p.call] > 0
  /\ GotoAt(p, "locating", <<p.call, 1>>)
  /\ UNCHANGED <<telephone, memory, store>>

SaveRecording(p) ==
  /\ pc[p] = "locating"
  /\ saved' = saved \cup {at[p]}
  /\ Goto(p, "saving")
  /\ UNCHANGED <<telephone, memory, created, stored, ended, failed, identified, tables>>

SaveTranscript(p) ==
  /\ pc[p] = "saving"
  /\ AppendTranscript(p, "caller") \/ UNCHANGED <<telephone, memory, store>>
  /\ Goto(p, "done")

\* A rejected adapter call ends the handler (voice-router replies 500).
Throw(p) ==
  /\ MayThrow
  /\ pc[p] \in {"answering", "apologising", "dropping", "disclosing", "noted",
                  "taping", "next", "transferring", "forgetting"}
  /\ Return(p, "failed")

----------------------------------------------------------------------------
Handle(p) ==
  \/ OnInitiated(p) \/ ResolveUnknown(p) \/ AnswerUnknown(p) \/ ResolveKnown(p)
  \/ Replied(p)
  \/ OnAnsweredUnknown(p) \/ Drop(p) \/ Dropped(p)
  \/ OnAnsweredMissing(p) \/ OnAnswered(p)
  \/ ConsentToAI(p) \/ ConsentToRecording(p) \/ NoteDisclosure(p)
  \/ StartRecording(p) \/ StartAgent(p)
  \/ AgentDone(p) \/ Converse(p) \/ BargeIn(p)
  \/ InvokeTool(p) \/ TraceTool(p) \/ IdentifySubscriber(p)
  \/ ToolSucceeded(p) \/ ToolErred(p)
  \/ FinalHangUp(p) \/ FinalTransfer(p) \/ Transferred(p)
  \/ OnEndedMissing(p) \/ OnEnded(p) \/ CloseAgent(p) \/ Forget(p)
  \/ OnRecording(p) \/ SaveRecording(p) \/ SaveTranscript(p)

Telephony(c) ==
  Arrive(c) \/ Connect(c) \/ CallerHangsUp(c) \/ RecordingReady(c)

Step ==
  \/ \E c \in Calls : Telephony(c)
  \/ \E p \in Posts : Redeliver(p) \/ Handle(p) \/ Throw(p)

\* History, kept by every step.
EndLookedUp(c) == \E q \in posts : q.type = "ended" /\ q.call = c /\ pc[q] # "idle"

Note == late' = late \cup
  {c \in Calls : /\ EndLookedUp(c)
                 /\ live'[c] \notin {live[c], None} \/ c \in unknown' \ unknown}

Next == Step /\ Note

Spec == Init /\ [][Next]_vars
=============================================================================
