--------------------------- MODULE ToolExecution ---------------------------
(***************************************************************************)
(* POST /tools/:name of apps/api: the eight system tools of ToolsService,   *)
(* the tenant's webhook tools of CustomToolExecutor, and the HttpToolClient *)
(* of the voice worker that calls them.  A request awaits its gate, its      *)
(* effect and its trace one after the other, so requests of one call        *)
(* interleave, and the owner edits a webhook tool in between.               *)
(*                                                                          *)
(* Every effect row (ticket, callback, message, webhook call) keeps the      *)
(* request that made it.                                                     *)
(***************************************************************************)
EXTENDS Naturals, FiniteSets

CONSTANTS Requests,
          Sessions,     \* values of the x-call-session-id header
          Rows,         \* those that name a CallSession row
          Subscribers,
          Profiles,     \* the subscribers BoBi knows
          None,
          Stored,       \* DATA_ADAPTER=prisma: traces are rows with a foreign key
          MaxEdits      \* bound: edits of the webhook tool

ASSUME ToolsAssumption ==
  /\ Rows \subseteq Sessions /\ None \notin Sessions
  /\ Profiles \subseteq Subscribers /\ None \notin Subscribers
  /\ Stored \in BOOLEAN /\ MaxEdits \in Nat /\ None \notin 0..MaxEdits

VARIABLES
  req,       \* the request as received: tool, who, session
  at,        \* where its handler is
  out,       \* what the tool returned or threw
  store,     \* SessionStore: the state of a call, or None
  tickets, callbacks, messages, webhooks,   \* effects
  traces,    \* ToolInvocation rows
  tool,      \* the tenant's webhook tool, or None
  edits,
  held,      \* the definition findByName returned to the request
  seal,      \* the secret getWebhookSecret returned to it
  seen,      \* what HttpToolClient returned to the voice worker
  matched,   \* history: <<session, subscriber>> lookups that found a profile
  unguarded, \* history: requests whose gate found no session state
  untraced,  \* history: requests that had a trace refused
  touched    \* history: requests under way when the webhook tool was edited

effects == <<tickets, callbacks, messages, webhooks>>
history == <<matched, unguarded, untraced, touched>>
vars == <<req, at, out, store, effects, traces, tool, edits, held, seal, seen, history>>

SystemTools == {"lookup_subscriber", "get_kb_answer", "create_ticket", "route_to_sales",
                "send_selfservice_link", "request_callback", "escalate_to_human",
                "send_kakao_alimtalk"}
Gated == {"create_ticket", "send_selfservice_link"}
Call == [tool : SystemTools \cup {"custom"}, who : Subscribers \cup {None},
         session : Sessions \cup {None}]
State == [verified : Subscribers \cup {None}, escalated : BOOLEAN]
Fresh == [verified |-> None, escalated |-> FALSE]
Definition == [id : 0..MaxEdits, secret : 0..MaxEdits \cup {None}, enabled : BOOLEAN]
Failures == {"invalid_params", "not_verified", "tool_not_found", "refused", "internal_error"}

TypeOK ==
  /\ req \in [Requests -> Call \cup {None}]
  /\ at \in [Requests -> {"idle", "gate", "effect", "find", "secret", "webhook",
                          "trace", "ok", "error"}]
  /\ out \in [Requests -> {"ok", "none"} \cup Failures]
  /\ store \in [Sessions -> State \cup {None}]
  /\ tickets \subseteq Requests /\ callbacks \subseteq Requests
  /\ messages \subseteq Requests /\ webhooks \subseteq Requests
  /\ traces \subseteq Requests \X BOOLEAN
  /\ tool \in Definition \cup {None}
  /\ edits \in 0..MaxEdits
  /\ held \in [Requests -> Definition \cup {None}]
  /\ seal \in [Requests -> 0..MaxEdits \cup {None}]
  /\ seen \in [Requests -> {"none", "ok", "error"}]
  /\ matched \subseteq Sessions \X Subscribers
  /\ unguarded \subseteq Requests /\ untraced \subseteq Requests /\ touched \subseteq Requests

Init ==
  /\ req = [r \in Requests |-> None]
  /\ at = [r \in Requests |-> "idle"]
  /\ out = [r \in Requests |-> "none"]
  /\ store = [s \in Sessions |-> None]
  /\ tickets = {} /\ callbacks = {} /\ messages = {} /\ webhooks = {}
  /\ traces = {}
  /\ tool = [id |-> 0, secret |-> 0, enabled |-> TRUE]
  /\ edits = 0
  /\ held = [r \in Requests |-> None]
  /\ seal = [r \in Requests |-> None]
  /\ seen = [r \in Requests |-> "none"]
  /\ matched = {} /\ unguarded = {} /\ untraced = {} /\ touched = {}

-----------------------------------------------------------------------------
Goto(r, stage) == at' = [at EXCEPT ![r] = stage]

(* fn() returns or throws; either way the trace comes next.                  *)
Yield(r, result) == /\ Goto(r, "trace")
                    /\ out' = [out EXCEPT ![r] = result]

(* The first step of a handler: a blank required parameter throws at once.   *)
(* A phone is never blank here; one that matches nobody is who = None.       *)
Receive(r, call) ==
  /\ at[r] = "idle"
  /\ req' = [req EXCEPT ![r] = call]
  /\ IF call.tool = "custom" THEN Goto(r, "find") /\ UNCHANGED out
     ELSE IF call.who = None /\ call.tool # "lookup_subscriber" THEN Yield(r, "invalid_params")
     ELSE Goto(r, IF call.tool \in Gated THEN "gate" ELSE "effect") /\ UNCHANGED out
  /\ UNCHANGED <<store, effects, traces, tool, edits, held, seal, seen, history>>

(* assertVerified: without a header or a session state nothing is checked.   *)
Unguarded(call) == IF call.session = None THEN TRUE ELSE store[call.session] = None
Mut_Verified(call) == Unguarded(call) \/ store[call.session].verified # None
Verified(call) == Unguarded(call) \/ store[call.session].verified = call.who

AssertVerified(r) ==
  /\ at[r] = "gate"
  /\ req[r].tool = "create_ticket"
  /\ IF Verified(req[r]) THEN Goto(r, "effect") /\ UNCHANGED out
                         ELSE Yield(r, "not_verified")
  /\ unguarded' = IF Unguarded(req[r]) THEN unguarded \cup {r} ELSE unguarded
  /\ UNCHANGED <<req, store, effects, traces, tool, edits, held, seal, seen,
                 matched, untraced, touched>>

(* requireSubscriber asks BoBi, not the session.                             *)
RequireSubscriber(r) ==
  /\ at[r] = "gate"
  /\ req[r].tool = "send_selfservice_link"
  /\ IF req[r].who \in Profiles THEN Goto(r, "effect") /\ UNCHANGED out
                                ELSE Yield(r, "not_verified")
  /\ UNCHANGED <<req, store, effects, traces, tool, edits, held, seal, seen, history>>

(* SessionStore.patch: read, merge and write without an await in between.    *)
Patch(s, field, value) ==
  LET cur == IF store[s] = None THEN Fresh ELSE store[s]
  IN store' = [store EXCEPT ![s] = [cur EXCEPT ![field] = value]]

(* The match is recorded in the session, if the request names one.           *)
LookupSubscriber(r) ==
  /\ at[r] = "effect"
  /\ req[r].tool = "lookup_subscriber"
  /\ IF req[r].who \in Profiles /\ req[r].session # None
       THEN /\ Patch(req[r].session, "verified", req[r].who)
            /\ matched' = matched \cup {<<req[r].session, req[r].who>>}
       ELSE UNCHANGED <<store, matched>>
  /\ Yield(r, "ok")
  /\ UNCHANGED <<req, effects, traces, tool, edits, held, seal, seen,
                 unguarded, untraced, touched>>

EscalateToHuman(r) ==
  /\ at[r] = "effect"
  /\ req[r].tool = "escalate_to_human"
  /\ IF req[r].session # None THEN Patch(req[r].session, "escalated", TRUE)
                              ELSE UNCHANGED store
  /\ Yield(r, "ok")
  /\ UNCHANGED <<req, effects, traces, tool, edits, held, seal, seen, history>>

GetKbAnswer(r) ==
  /\ at[r] = "effect"
  /\ req[r].tool = "get_kb_answer"
  /\ Yield(r, "ok")
  /\ UNCHANGED <<req, store, effects, traces, tool, edits, held, seal, seen, history>>

CreateTicket(r) ==
  /\ at[r] = "effect"
  /\ req[r].tool = "create_ticket"
  /\ tickets' = tickets \cup {r}
  /\ Yield(r, "ok")
  /\ UNCHANGED <<req, store, callbacks, messages, webhooks, traces, tool, edits, held, seal,
                 seen, history>>

(* A reason other than churn queues a callback; churn is a warm transfer.    *)
RouteToSales(r) ==
  /\ at[r] = "effect"
  /\ req[r].tool = "route_to_sales"
  /\ callbacks' \in {callbacks, callbacks \cup {r}}
  /\ Yield(r, "ok")
  /\ UNCHANGED <<req, store, tickets, messages, webhooks, traces, tool, edits, held, seal,
                 seen, history>>

RequestCallback(r) ==
  /\ at[r] = "effect"
  /\ req[r].tool = "request_callback"
  /\ callbacks' = callbacks \cup {r}
  /\ Yield(r, "ok")
  /\ UNCHANGED <<req, store, tickets, messages, webhooks, traces, tool, edits, held, seal,
                 seen, history>>

SendMessage(r) ==
  /\ messages' = messages \cup {r}
  /\ Yield(r, "ok")
  /\ UNCHANGED <<req, store, tickets, callbacks, webhooks, traces, tool, edits, held, seal,
                 seen, history>>

SendSelfserviceLink(r) ==
  at[r] = "effect" /\ req[r].tool = "send_selfservice_link" /\ SendMessage(r)

SendKakaoAlimtalk(r) ==
  at[r] = "effect" /\ req[r].tool = "send_kakao_alimtalk" /\ SendMessage(r)

(* A query of the handler is rejected - of the gate, of the effect, of the     *)
(* webhook tool's definition or of its secret -, and nothing was written.    *)
StepFails(r) ==
  /\ at[r] \in {"gate", "effect", "find", "secret"}
  /\ Yield(r, "internal_error")
  /\ UNCHANGED <<req, store, effects, traces, tool, edits, held, seal, seen, history>>

-----------------------------------------------------------------------------
(* CustomToolExecutor: findByName, the parameters' schema ...                *)
FindTool(r) ==
  /\ at[r] = "find"
  /\ IF tool = None THEN Yield(r, "tool_not_found") /\ UNCHANGED held
     ELSE IF ~tool.enabled THEN Yield(r, "tool_not_found") /\ UNCHANGED held
     ELSE IF req[r].who = None THEN Yield(r, "invalid_params") /\ UNCHANGED held
     ELSE Goto(r, "secret") /\ held' = [held EXCEPT ![r] = tool] /\ UNCHANGED out
  /\ UNCHANGED <<req, store, effects, traces, tool, edits, seal, seen, history>>

(* ... getWebhookSecret by id, null when the tool has gone meanwhile ...      *)
Mut_ReadSecret(r) ==
  /\ at[r] = "secret"
  /\ Goto(r, "webhook")
  /\ UNCHANGED <<req, out, store, effects, traces, tool, edits, held, seal, seen, history>>

ReadSecret(r) ==
  /\ at[r] = "secret"
  /\ seal' = [seal EXCEPT ![r] = IF tool = None THEN None
                                 ELSE IF tool.id = held[r].id THEN tool.secret ELSE None]
  /\ Goto(r, "webhook")
  /\ UNCHANGED <<req, out, store, effects, traces, tool, edits, held, seen, history>>

(* ... and the webhook, which answers, refuses or times out.                 *)
InvokeWebhook(r) ==
  /\ at[r] = "webhook"
  /\ webhooks' = webhooks \cup {r}
  /\ \E result \in {"ok", "refused"} : Yield(r, result)
  /\ UNCHANGED <<req, store, tickets, callbacks, messages, traces, tool, edits, held, seal,
                 seen, history>>

-----------------------------------------------------------------------------
Traceable(r) == ~Stored \/ req[r].session \in Rows
Finished(r) == Goto(r, IF out[r] = "ok" THEN "ok" ELSE "error")

(* PrismaTrace.record writes nothing without a session id.                   *)
Trace(r) ==
  /\ at[r] = "trace"
  /\ \/ Traceable(r) /\ traces' = traces \cup {<<r, out[r] = "ok">>}
     \/ Stored /\ req[r].session = None /\ UNCHANGED traces
  /\ Finished(r)
  /\ UNCHANGED <<req, out, store, effects, tool, edits, held, seal, seen, history>>

(* The failure of a trace is swallowed.                                      *)
Mut_TraceFails(r) ==
  /\ at[r] = "trace"
  /\ Stored
  /\ req[r].session # None
  /\ untraced' = untraced \cup {r}
  /\ Finished(r)
  /\ UNCHANGED <<req, out, store, effects, traces, tool, edits, held, seal, seen,
                 matched, unguarded, touched>>

(* An id that names no CallSession breaks the foreign key; any write may     *)
(* fail.  The catch traces again, as an error; when that fails too, or when  *)
(* it was the catch already, the failure is what the caller gets.            *)
TraceFails(r) ==
  /\ at[r] = "trace"
  /\ Stored
  /\ req[r].session # None
  /\ untraced' = untraced \cup {r}
  /\ IF out[r] \in {"ok", "refused"}
       THEN out' = [out EXCEPT ![r] = "internal_error"] /\ UNCHANGED at
       ELSE Goto(r, "error") /\ UNCHANGED out
  /\ UNCHANGED <<req, store, effects, traces, tool, edits, held, seal, seen,
                 matched, unguarded, touched>>

-----------------------------------------------------------------------------
(* HttpToolClient.invoke turns the envelope, or the lack of one, into a      *)
(* result; it neither retries nor sends x-call-session-id.                   *)
Answer(r) == /\ at[r] \in {"ok", "error"}
             /\ seen[r] = "none"
             /\ seen' = [seen EXCEPT ![r] = at[r]]
             /\ UNCHANGED <<req, at, out, store, effects, traces, tool, edits, held, seal, history>>

AnswerLost(r) == /\ at[r] \in {"ok", "error"}
                 /\ seen[r] = "none"
                 /\ seen' = [seen EXCEPT ![r] = "error"]
                 /\ UNCHANGED <<req, at, out, store, effects, traces, tool, edits, held, seal,
                                history>>

(* The owner replaces, rotates, disables or deletes the webhook tool.        *)
EditTool ==
  /\ edits < MaxEdits
  /\ edits' = edits + 1
  /\ \/ tool = None /\ tool' = [id |-> edits', secret |-> edits', enabled |-> TRUE]
     \/ tool # None /\ tool' \in {None, [tool EXCEPT !.secret = edits'], [tool EXCEPT !.secret = None],
                                  [tool EXCEPT !.enabled = ~@]}
  /\ touched' = touched \cup {r \in Requests : at[r] \in {"find", "secret", "webhook"}}
  /\ UNCHANGED <<req, at, out, store, effects, traces, held, seal, seen,
                 matched, unguarded, untraced>>

Work(r) == \/ AssertVerified(r) \/ RequireSubscriber(r)
           \/ LookupSubscriber(r) \/ EscalateToHuman(r) \/ GetKbAnswer(r)
           \/ CreateTicket(r) \/ RouteToSales(r) \/ RequestCallback(r)
           \/ SendSelfserviceLink(r) \/ SendKakaoAlimtalk(r) \/ StepFails(r)
           \/ FindTool(r) \/ ReadSecret(r) \/ InvokeWebhook(r)
           \/ Trace(r) \/ TraceFails(r)
           \/ Answer(r)

Next == \/ \E r \in Requests : \/ \E call \in Call : Receive(r, call)
                               \/ Work(r) \/ AnswerLost(r)
        \/ EditTool

Spec == Init /\ [][Next]_vars

-----------------------------------------------------------------------------
(* A ticket of a call is for a subscriber a lookup of that call matched,      *)
(* however lookups, escalations and tickets of the call interleave.  The      *)
(* gate is open while the call has no session state: those are excepted.     *)
TicketAfterLookup ==
  \A r \in tickets : r \in unguarded \/ <<req[r].session, req[r].who>> \in matched

(* What the voice worker is told succeeded did happen, and only once the     *)
(* trace was written if the call has a row.                                  *)
Effect(r) == CASE req[r].tool = "create_ticket" -> r \in tickets
               [] req[r].tool = "request_callback" -> r \in callbacks
               [] req[r].tool \in {"send_selfservice_link", "send_kakao_alimtalk"} -> r \in messages
               [] req[r].tool = "custom" -> r \in webhooks
               [] OTHER -> TRUE
OkIsDone == \A r \in Requests : seen[r] = "ok" =>
              /\ Effect(r)
              /\ req[r].session \in Rows => <<r, TRUE>> \in traces

(* A tool that failed left nothing behind, unless it was its trace that       *)
(* failed (or a webhook that said no).                                       *)
ErrorIsNothing == \A r \in Requests : at[r] = "error" /\ r \notin untraced =>
                    /\ r \notin tickets \cup callbacks \cup messages
                    /\ r \in webhooks => out[r] = "refused"

(* The trace of a request says what became of it: one row, and a success     *)
(* only for a request that was answered with one.                            *)
TraceIsTrue == \A r \in Requests :
                 /\ ~ (<<r, TRUE>> \in traces /\ <<r, FALSE>> \in traces)
                 /\ <<r, TRUE>> \in traces => at[r] = "ok" /\ Effect(r)
                 /\ at[r] \in {"ok", "error"} /\ r \notin untraced /\ req[r].session \in Rows
                      => \E ok \in BOOLEAN : <<r, ok>> \in traces

(* The three together, with the types: the answer, the effect and the trace   *)
(* of a request tell the same, whichever write fails (execute's catch).       *)
ToldIsTrue == TypeOK /\ OkIsDone /\ ErrorIsNothing /\ TraceIsTrue

(* A webhook call carries the secret of the definition it was made from,      *)
(* unless the tool was edited while the request was under way: the two are   *)
(* read apart.                                                               *)
SealedAsDefined == \A r \in webhooks : r \notin touched => seal[r] = held[r].secret

=============================================================================
