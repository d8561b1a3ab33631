---------------------------- MODULE VoiceGateway ----------------------------
(***************************************************************************)
(* services/voice-gateway: the Python process that answers the 070 number,  *)
(* over the /ingest/* routes of CallIngest.  One asyncio loop runs the SDK's *)
(* call_start, transcript and call_end handlers; a handler runs alone until *)
(* an await, and every HTTP call is awaited in a thread with a timeout, so   *)
(* the server may serve a request whose caller has given up.                *)
(*                                                                          *)
(* The line carries one call at a time (GatewayState: at most one call in    *)
(* progress), but the handlers of a call that is over may still be waiting  *)
(* when the next call rings.                                                *)
(***************************************************************************)
EXTENDS CallIngest

CONSTANT MaxEvents  \* bound: edits, repeated requests and utterances together

ASSUME EventAssumption == MaxEvents \in Nat

VARIABLES
  ctx,        \* state.context: version of the configuration held, or None
  prompt,     \* realtime._config.system_prompt: version it was built from
  current,    \* state.current_call_id
  known,      \* keys of state.calls
  line,       \* the SDK's call: ringing / talking / over
  start,      \* on_call_start
  ending,     \* on_call_end
  task,       \* register_task of a call
  ingestId,   \* rec["ingest_id"]
  say,        \* on_transcript, one handler per utterance
  refresh,    \* refresh_context runs: at call_start and after the call
  answered,   \* version of the prompt the open session was given
  rang,       \* history: version when the call rang, kept while its refetch can be
              \* or was answered and the call is on the line
  overlapped, \* history: calls on the line that rang while an earlier call_start waited
  early,      \* history: calls whose call_end ran before their call_start was done
  failed      \* history: calls that lost a request

bookVars == <<ctx, prompt, current, known>>
callVars == <<line, start, ending, task, ingestId, say, answered>>
histVars == <<rang, overlapped, early, failed>>
gwVars == <<bookVars, callVars, refresh, histVars>>
vars == <<apiVars, gwVars>>

Version == 0..MaxVersion \cup {None}
Reasons == {"call_start", "post_call"}

Events == version + Cardinality({r \in Requests : r[2] # 1 /\ post[r].at # "idle"})
                  + Cardinality({q \in Calls \X Utterances : say[q] # "unsaid"})

TypeOK ==
  /\ ApiTypeOK
  /\ ctx \in Version /\ prompt \in Version
  /\ current \in Calls \cup {None}
  /\ known \subseteq Calls
  /\ line \in [Calls -> {"idle", "ringing", "talking", "over"}]
  /\ start \in [Calls -> {"idle", "refreshing", "done"}]
  /\ ending \in [Calls -> {"idle", "joining", "completing", "done"}]
  /\ task \in [Calls -> {"none", "running", "done"}]
  /\ ingestId \in [Calls -> Requests \cup {None}]
  /\ say \in [Calls \X Utterances -> {"unsaid", "joining", "posting", "done"}]
  /\ refresh \in [Calls \X Reasons -> [at : {"idle", "asked", "answered", "done"}, got : Version]]
  /\ answered \in [Calls -> Version]
  /\ rang \in [Calls -> Version]
  /\ overlapped \subseteq Calls /\ early \subseteq Calls /\ failed \subseteq Calls

(* main_serve: the boot refresh, whose failure leaves SAFE_BOOT_PROMPT, then *)
(* build_agent with the prompt of that moment.                              *)
Init ==
  /\ ApiInit
  /\ ctx \in IF Holder[0] = None THEN {None} ELSE {None, 0}
  /\ prompt = ctx
  /\ current = None
  /\ known = {}
  /\ line = [c \in Calls |-> "idle"]
  /\ start = [c \in Calls |-> "idle"]
  /\ ending = [c \in Calls |-> "idle"]
  /\ task = [c \in Calls |-> "none"]
  /\ ingestId = [c \in Calls |-> None]
  /\ say = [q \in Calls \X Utterances |-> "unsaid"]
  /\ refresh = [k \in Calls \X Reasons |-> [at |-> "idle", got |-> None]]
  /\ answered = [c \in Calls |-> None]
  /\ rang = [c \in Calls |-> None]
  /\ overlapped = {} /\ early = {} /\ failed = {}

-----------------------------------------------------------------------------
(* refresh_context: GET /tenants/resolve in a thread, under wait_for.        *)

Ask(c, why) == refresh' = [refresh EXCEPT ![<<c, why>>].at = "asked"]

(* The API resolves the number with the configuration of this moment.        *)
ResolveTenant(k) ==
  /\ refresh[k].at = "asked"
  /\ Holder[version] # None
  /\ refresh' = [refresh EXCEPT ![k] = [at |-> "answered", got |-> version]]
  /\ UNCHANGED <<apiVars, bookVars, callVars, histVars>>

Refreshed(k) == /\ refresh[k].at = "answered"
                /\ refresh' = [refresh EXCEPT ![k] = [at |-> "done", got |-> None]]
                /\ ctx' = refresh[k].got

(* Timeout, connection error or ok:false: the held context stays.            *)
NotRefreshed(k) == /\ refresh[k].at = "asked"
                   /\ refresh' = [refresh EXCEPT ![k].at = "done"]
                   /\ UNCHANGED ctx

PostCallRefresh(c) ==
  /\ Refreshed(<<c, "post_call">>) \/ NotRefreshed(<<c, "post_call">>)
  /\ UNCHANGED <<apiVars, prompt, current, known, callVars, histVars>>

-----------------------------------------------------------------------------
(* The SDK emits call_start and awaits it before it opens the session.       *)
Ring(c) ==
  /\ line[c] = "idle"
  /\ \A d \in Calls : line[d] \in {"idle", "over"}
  /\ line' = [line EXCEPT ![c] = "ringing"]
  /\ start' = [start EXCEPT ![c] = "refreshing"]
  /\ rang' = [rang EXCEPT ![c] = version]
  /\ overlapped' = IF \E d \in Calls : start[d] = "refreshing"
                     THEN overlapped \cup {c} ELSE overlapped
  /\ Ask(c, "call_start")
  /\ UNCHANGED <<apiVars, bookVars, ending, task, ingestId, say, answered,
                 early, failed>>

(* The prompt is written before the refetch comes back.                     *)
Mut_OnCallStart(c) ==
  /\ start[c] = "refreshing"
  /\ \/ Refreshed(<<c, "call_start">>) /\ UNCHANGED rang
     \/ NotRefreshed(<<c, "call_start">>) /\ rang' = [rang EXCEPT ![c] = None]
  /\ prompt' = ctx
  /\ known' = known \cup {c}
  /\ current' = c
  /\ task' = [task EXCEPT ![c] = "running"]
  /\ Arrive(<<c, 1>>)
  /\ start' = [start EXCEPT ![c] = "done"]
  /\ UNCHANGED <<version, tables, append, finish, line, ending, ingestId, say,
                 answered, overlapped, early, failed>>

(* The rest of on_call_start: no await after refresh_context returns.        *)
OnCallStart(c) ==
  /\ start[c] = "refreshing"
  /\ \/ Refreshed(<<c, "call_start">>) /\ UNCHANGED rang
     \/ NotRefreshed(<<c, "call_start">>) /\ rang' = [rang EXCEPT ![c] = None]
  /\ prompt' = ctx'
  /\ known' = known \cup {c}
  /\ current' = c
  /\ task' = [task EXCEPT ![c] = "running"]
  /\ Arrive(<<c, 1>>)
  /\ start' = [start EXCEPT ![c] = "done"]
  /\ UNCHANGED <<version, tables, append, finish, line, ending, ingestId, say,
                 answered, overlapped, early, failed>>

(* session.start(): the instructions are read from _config now.              *)
SessionStart(c) ==
  /\ line[c] = "ringing"
  /\ start[c] = "done"
  /\ line' = [line EXCEPT ![c] = "talking"]
  /\ answered' = [answered EXCEPT ![c] = prompt]
  /\ UNCHANGED <<apiVars, bookVars, start, ending, task, ingestId, say, refresh, histVars>>

HangUp(c) == /\ line[c] \in {"ringing", "talking"}
             /\ line' = [line EXCEPT ![c] = "over"]
             /\ answered' = [answered EXCEPT ![c] = None]
             /\ rang' = [rang EXCEPT ![c] = None]
             /\ overlapped' = overlapped \ {c}
             /\ UNCHANGED <<apiVars, bookVars, start, ending, task, ingestId, say,
                            refresh, early, failed>>

-----------------------------------------------------------------------------
(* _register_call, a task of its own.                                        *)
Registered(c) ==
  /\ task[c] = "running"
  /\ post[<<c, 1>>].at = "ok"
  /\ task' = [task EXCEPT ![c] = "done"]
  /\ ingestId' = [ingestId EXCEPT ![c] = post[<<c, 1>>].id]
  /\ UNCHANGED <<apiVars, bookVars, line, start, ending, say, answered, refresh, histVars>>

(* Any exception of the client: HTTP error, timeout, ok:false.               *)
NotRegistered(c) ==
  /\ task[c] = "running"
  /\ task' = [task EXCEPT ![c] = "done"]
  /\ failed' = failed \cup {c}
  /\ UNCHANGED <<apiVars, bookVars, line, start, ending, ingestId, say, answered,
                 refresh, rang, overlapped, early>>

(* The network delivers POST /ingest/calls again.                            *)
Repeat(r) ==
  /\ post[r].at = "idle"
  /\ Events < MaxEvents
  /\ post[<<r[1], 1>>].at # "idle"
  /\ Arrive(r)
  /\ UNCHANGED <<version, tables, append, finish, gwVars>>

-----------------------------------------------------------------------------
(* on_transcript: a call that is not in state.calls has nowhere to write.    *)
OnTranscript(c, u) ==
  /\ line[c] = "talking"
  /\ say[<<c, u>>] = "unsaid"
  /\ Events < MaxEvents
  /\ c \in known
  /\ say' = [say EXCEPT ![<<c, u>>] = "joining"]
  /\ UNCHANGED <<apiVars, bookVars, line, start, ending, task, ingestId, answered,
                 refresh, histVars>>

(* The handler reads ingest_id at once, without the registration's await.    *)
Mut_PostTranscript(c, u) ==
  /\ say[<<c, u>>] = "joining"
  /\ IF ingestId[c] = None
       THEN /\ say' = [say EXCEPT ![<<c, u>>] = "done"]
            /\ UNCHANGED append
       ELSE /\ say' = [say EXCEPT ![<<c, u>>] = "posting"]
            /\ append' = [append EXCEPT ![<<c, u>>] = [at |-> "sent", session |-> ingestId[c]]]
  /\ UNCHANGED <<version, tables, post, finish, bookVars, line, start, ending, task,
                 ingestId, answered, refresh, histVars>>

(* _await_registration, then the POST unless the registration failed.        *)
PostTranscript(c, u) ==
  /\ say[<<c, u>>] = "joining"
  /\ task[c] = "done"
  /\ IF ingestId[c] = None
       THEN /\ say' = [say EXCEPT ![<<c, u>>] = "done"]
            /\ UNCHANGED append
       ELSE /\ say' = [say EXCEPT ![<<c, u>>] = "posting"]
            /\ append' = [append EXCEPT ![<<c, u>>] = [at |-> "sent", session |-> ingestId[c]]]
  /\ UNCHANGED <<version, tables, post, finish, bookVars, line, start, ending, task,
                 ingestId, answered, refresh, histVars>>

TranscriptPosted(c, u) ==
  /\ say[<<c, u>>] = "posting"
  /\ append[<<c, u>>].at = "ok"
  /\ say' = [say EXCEPT ![<<c, u>>] = "done"]
  /\ UNCHANGED <<apiVars, bookVars, line, start, ending, task, ingestId, answered,
                 refresh, histVars>>

TranscriptLost(c, u) ==
  /\ say[<<c, u>>] = "posting"
  /\ say' = [say EXCEPT ![<<c, u>>] = "done"]
  /\ failed' = failed \cup {c}
  /\ UNCHANGED <<apiVars, bookVars, line, start, ending, task, ingestId, answered,
                 refresh, rang, overlapped, early>>

(* What get_kb_answer sends as x-call-session-id and x-tenant-id: the call and *)
(* the context held when the model asks, whichever session asks.             *)
LookupHeaders == [session |-> current, tenant |-> ctx]

-----------------------------------------------------------------------------
(* on_call_end up to its first await.                                        *)
OnCallEnd(c) ==
  /\ line[c] = "over"
  /\ ending[c] = "idle"
  /\ known' = known \ {c}
  /\ current' = IF current = c THEN None ELSE current
  /\ IF c \in known
       THEN /\ ending' = [ending EXCEPT ![c] = "joining"]
            /\ UNCHANGED refresh
       ELSE /\ ending' = [ending EXCEPT ![c] = "done"]
            /\ Ask(c, "post_call")
  /\ early' = IF start[c] = "refreshing" THEN early \cup {c} ELSE early
  /\ UNCHANGED <<apiVars, ctx, prompt, line, start, task, ingestId, say, answered,
                 rang, overlapped, failed>>

(* The completion waits for a registered id that a failure never brings.     *)
Mut_Complete(c) ==
  /\ ending[c] = "joining"
  /\ ingestId[c] # None
  /\ ending' = [ending EXCEPT ![c] = "completing"]
  /\ finish' = [finish EXCEPT ![c] = [at |-> "sent", session |-> ingestId[c]]]
  /\ UNCHANGED <<version, tables, post, append, bookVars, line, start, task, ingestId,
                 say, answered, refresh, histVars>>

Complete(c) ==
  /\ ending[c] = "joining"
  /\ task[c] = "done"
  /\ IF ingestId[c] = None
       THEN /\ ending' = [ending EXCEPT ![c] = "done"]
            /\ Ask(c, "post_call")
            /\ UNCHANGED finish
       ELSE /\ ending' = [ending EXCEPT ![c] = "completing"]
            /\ finish' = [finish EXCEPT ![c] = [at |-> "sent", session |-> ingestId[c]]]
            /\ UNCHANGED refresh
  /\ UNCHANGED <<version, tables, post, append, bookVars, line, start, task, ingestId,
                 say, answered, histVars>>

Completed(c) ==
  /\ ending[c] = "completing"
  /\ finish[c].at = "ok"
  /\ ending' = [ending EXCEPT ![c] = "done"]
  /\ Ask(c, "post_call")
  /\ UNCHANGED <<apiVars, bookVars, line, start, task, ingestId, say, answered, histVars>>

NotCompleted(c) ==
  /\ ending[c] = "completing"
  /\ ending' = [ending EXCEPT ![c] = "done"]
  /\ failed' = failed \cup {c}
  /\ Ask(c, "post_call")
  /\ UNCHANGED <<apiVars, bookVars, line, start, task, ingestId, say, answered,
                 rang, overlapped, early>>

-----------------------------------------------------------------------------
(* The awaits of a call: each of them returns or times out.                  *)
Handlers(c) == \/ OnCallStart(c)
               \/ Registered(c) \/ NotRegistered(c)
               \/ OnCallEnd(c) \/ Complete(c) \/ Completed(c) \/ NotCompleted(c)

Next == \/ Events < MaxEvents /\ Edit /\ UNCHANGED gwVars
        \/ Api /\ UNCHANGED gwVars
        \/ \E k \in Calls \X Reasons : ResolveTenant(k)
        \/ \E r \in Requests : Repeat(r)
        \/ \E c \in Calls :
             \/ Ring(c) \/ SessionStart(c) \/ HangUp(c)
             \/ Handlers(c) \/ PostCallRefresh(c)
             \/ \E u \in Utterances : \/ OnTranscript(c, u) \/ PostTranscript(c, u)
                                      \/ TranscriptPosted(c, u) \/ TranscriptLost(c, u)

(* The event loop runs every handler, and every await in a handler has a     *)
(* timeout (wait_for, urlopen).  Nothing makes a caller hang up.             *)
Fairness == \A c \in Calls : WF_vars(Handlers(c))

Spec == Init /\ [][Next]_vars /\ Fairness

-----------------------------------------------------------------------------
(* However often and however interleaved POST /ingest/calls arrives for one  *)
(* call, there is one CallSession and every reply names it                   *)
(* (ingest.controller.ts: idempotent by clawopsCallId).                      *)
OneSession ==
  /\ \A s, t \in sessions : s.call = t.call => s = t
  /\ \A r \in Requests : post[r].at = "ok" => \E s \in SessionsOf(r[1]) : s.id = post[r].id

(* A call whose refetch came back is answered with a configuration no older  *)
(* than the one in force when it rang: no refresh of another call gets in    *)
(* between.  A call that rings while an abandoned call_start still waits is  *)
(* excepted: that handler writes the shared prompt last.                     *)
FreshPrompt ==
  \A c \in Calls :
    line[c] = "talking" /\ rang[c] # None /\ c \notin overlapped
      => answered[c] # None /\ answered[c] >= rang[c]

(* When a call's handlers are through and none of its requests was lost, the *)
(* console's record of it holds every utterance that was heard, in whatever  *)
(* order the posts ran, and is closed.  One kind of record stays open: that  *)
(* of a call whose caller hung up while call_start awaited its refetch       *)
(* (gateway.py:239).  Its call_end found nothing to complete (line 275), and *)
(* call_start registers it afterwards (lines 243 to 246): of such a call     *)
(* nothing was heard.                                                        *)
Settled(c) == /\ ending[c] = "done"
              /\ \A u \in Utterances : say[<<c, u>>] \in {"unsaid", "done"}
Silent(c) == \A u \in Utterances : say[<<c, u>>] = "unsaid"
RecordComplete(c) == \E s \in SessionsOf(c) :
                  /\ s.id \in completed
                  /\ \A u \in Utterances : say[<<c, u>>] = "done" => <<s.id, u>> \in transcripts
NothingLost ==
  \A c \in Calls : Settled(c) /\ c \notin failed =>
    RecordComplete(c) \/ (c \in early /\ Silent(c))

(* What GatewayState still holds of a call whose end was handled is of a     *)
(* call that ended while its call_start awaited the refetch: call_start      *)
(* enters it afterwards, and nobody removes it (gateway.py:239-246 and 275). *)
(* Of every other call nothing stays behind, though its end may be handled   *)
(* while the next call is already ringing.                                   *)
CallsForgotten ==
  \A c \in Calls : ending[c] # "idle" /\ (c \in known \/ current = c) =>
    c \in early /\ start[c] = "done"

(* A knowledge-base lookup made during a call carries that call's id, also   *)
(* when the previous call's end is handled after this one was answered.  A   *)
(* call that rang while an earlier call_start still awaited its refetch is   *)
(* excepted: that call_start makes its own call the current one (line 245)   *)
(* whenever it returns.                                                      *)
LookupOfOwnCall ==
  \A c \in Calls : line[c] = "talking" /\ c \notin overlapped => LookupHeaders.session = c

(* The three together, with the types: calls that overlap on the line share   *)
(* one process and keep apart all the same (app.py's GatewayState).           *)
CallsKeepApart == TypeOK /\ OneSession /\ CallsForgotten /\ LookupOfOwnCall

-----------------------------------------------------------------------------
(* What the properties rest on: the inductive parts of CallsKeepApart,       *)
(* FreshPrompt, NothingLost and ImplementsCallRecord.                        *)

OnLine(c) == line[c] \in {"ringing", "talking"}

(* Where a call stands on the line, in its call_start and in its call_end.   *)
LineInv == \A c \in Calls :
  /\ line[c] = "idle" <=> start[c] = "idle"
  /\ line[c] = "talking" => start[c] = "done"
  /\ ending[c] # "idle" => line[c] = "over" /\ (start[c] = "refreshing" => c \in early)
  /\ start[c] = "done" /\ ending[c] = "idle" => c \in known
  /\ OnLine(c) => \A d \in Calls \ {c} : ~ OnLine(d) /\ (start[d] = "refreshing" => c \in overlapped)
  /\ OnLine(c) /\ start[c] = "done" /\ c \notin overlapped => current = c

(* The version a call is going to be answered with.                          *)
AtLeast(v, c) == rang[c] # None => v # None /\ v >= rang[c]
PromptInv == \A c \in Calls :
  /\ rang[c] # None => rang[c] <= version
  /\ line[c] = "ringing" /\ start[c] = "refreshing" /\ refresh[<<c, "call_start">>].at = "answered"
       => AtLeast(refresh[<<c, "call_start">>].got, c)
  /\ line[c] = "ringing" /\ start[c] = "done" /\ c \notin overlapped => AtLeast(prompt, c)

(* The rows of CallIngest and the requests under way.                        *)
RequestsInv == /\ \A s \in sessions : s.id[1] = s.call
               /\ \A r \in Requests : post[r].at = "create" => post[r].tenant # None

(* What a request was answered with is in the tables.                        *)
AnswersInv ==
  /\ \A id \in completed : Exists(id)
  /\ \A id \in Requests, u \in Utterances : <<id, u>> \in transcripts => Exists(id)
  /\ \A c \in Calls : finish[c].at = "ok" => finish[c].session \in completed
  /\ \A c \in Calls, u \in Utterances :
       append[<<c, u>>].at = "ok" => <<append[<<c, u>>].session, u>> \in transcripts

(* What a call's handlers hold: its session, and what they wrote with it.    *)
SessionHeld == \A c \in Calls :
  /\ task[c] # "none" => start[c] = "done"
  /\ task[c] = "done" /\ c \notin failed => \E s \in SessionsOf(c) : s.id = ingestId[c]

EndHeld == \A c \in Calls :
  /\ ending[c] = "completing" => task[c] = "done" /\ finish[c].session = ingestId[c]
  /\ ending[c] = "done" /\ c \notin failed \cup early =>
       task[c] = "done" /\ ingestId[c] \in completed

SayHeld == \A c \in Calls, u \in Utterances :
  /\ say[<<c, u>>] = "posting" => task[c] = "done" /\ append[<<c, u>>].session = ingestId[c]
  /\ say[<<c, u>>] = "done" /\ c \notin failed =>
       task[c] = "done" /\ <<ingestId[c], u>> \in transcripts

(* What was said was said after the call's start and before its end.         *)
QuietInv == \A c \in Calls :
  /\ c \in early => line[c] = "over"
  /\ (start[c] # "done" \/ c \in early) => Silent(c)

IInv == /\ TypeOK /\ OneSession /\ RequestsInv /\ AnswersInv
        /\ LineInv /\ CallsForgotten /\ PromptInv /\ FreshPrompt
        /\ SessionHeld /\ EndHeld /\ SayHeld /\ QuietInv

(* A hung-up call's handlers end, whichever requests get lost.               *)
EndSettles == \A c \in Calls : line[c] = "over" ~> ending[c] = "done"

-----------------------------------------------------------------------------
(* The tables implement the record the console shows.                        *)
Owner(c) == IF SessionsOf(c) = {} THEN None
            ELSE (CHOOSE s \in SessionsOf(c) : TRUE).tenant
Stored(c) == {u \in Utterances : \E s \in SessionsOf(c) : <<s.id, u>> \in transcripts}
Closed == {c \in Calls : \E s \in SessionsOf(c) : s.id \in completed}

Record == INSTANCE CallRecord WITH owner <- [c \in Calls |-> Owner(c)],
                                   lines <- [c \in Calls |-> Stored(c)],
                                   closed <- Closed

(* A call is filed under one tenant for good, whatever the number does later, *)
(* and its record only grows.                                                *)
ImplementsCallRecord == Record!Spec
=============================================================================
