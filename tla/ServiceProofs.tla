---------------------------- MODULE ServiceProofs ----------------------------
(***************************************************************************)
(* Theorems about two services behind a call, which share no state: the    *)
(* execution of tools (ToolExecution), for any requests, sessions and      *)
(* subscribers, and the sending of messages (Notifications), for any       *)
(* messages and any RetryPolicy.maxAttempts, zero included, with or        *)
(* without rejections.                                                     *)
(***************************************************************************)
EXTENDS MCServices, TLAPS

-----------------------------------------------------------------------------
(* The execution of tools.                                                 *)

Stages == {"idle", "gate", "effect", "find", "secret", "webhook", "trace", "ok", "error"}
Outcomes == {"ok", "none"} \cup Failures
\* A request before its trace has done nothing that anybody could see.
EarlyStages == {"idle", "gate", "effect", "find", "secret", "webhook"}

EarlyIsClean == \A q \in Requests : at[q] \in EarlyStages =>
  /\ q \notin tickets /\ q \notin callbacks /\ q \notin messages /\ q \notin webhooks
  /\ q \notin untraced /\ seen[q] = "none" /\ out[q] = "none"

\* A handler is where its tool takes it, and a ticket is never asked for by nobody.
StageOfTool == \A q \in Requests :
  /\ at[q] # "idle" => req[q] \in Call
  /\ at[q] = "gate" => req[q].who # None /\ req[q].tool \in Gated
  /\ at[q] = "effect" => /\ req[q].tool # "custom"
                         /\ req[q].tool = "create_ticket" => req[q].who # None
  /\ at[q] \in {"find", "secret", "webhook"} => req[q].tool = "custom"

\* What a handler came to is known from the trace on, and answered as it is.
OutcomeOfStage == \A q \in Requests :
  /\ at[q] \in {"trace", "ok", "error"} => out[q] # "none"
  /\ at[q] = "ok" => out[q] = "ok"
  /\ at[q] = "error" => out[q] # "ok"
  /\ seen[q] = "ok" => at[q] = "ok"
  /\ seen[q] # "none" => at[q] \in {"ok", "error"}

\* A success stands for its effect and has had no trace refused.
OkHasItsEffect == \A q \in Requests : out[q] = "ok" => Effect(q) /\ q \notin untraced

\* Anything else has no effect, unless its trace was refused.
FailureHasNone == \A q \in Requests : out[q] # "ok" /\ q \notin untraced =>
  /\ q \notin tickets /\ q \notin callbacks /\ q \notin messages
  /\ q \in webhooks => out[q] = "refused"

\* A trace row is of an answered request and says how it came out ...
TraceSaysOutcome == \A q \in Requests, ok \in BOOLEAN :
  <<q, ok>> \in traces => at[q] \in {"ok", "error"} /\ ok = (out[q] = "ok")

\* ... and a request of a call with a row has one, unless it was refused.
AnsweredIsTraced == \A q \in Requests :
  at[q] \in {"ok", "error"} /\ q \notin untraced /\ req[q].session \in Rows
    => <<q, out[q] = "ok">> \in traces

\* Who a session holds as verified was matched in it ...
StoreIsMatched == \A s \in Sessions :
  store[s] # None => (store[s].verified = None \/ <<s, store[s].verified>> \in matched)

\* ... so a ticket that has passed its gate, made yet or not, is for such a one.
TicketIsMatched == \A q \in Requests :
  q \in tickets \/ (at[q] = "effect" /\ req[q].tool = "create_ticket")
    => q \in unguarded \/ <<req[q].session, req[q].who>> \in matched

\* The definition a webhook call is made from is the stored one until it is edited,
\* and so is its secret.
HeldIsStored == \A q \in Requests : q \notin touched =>
  /\ at[q] \in {"secret", "webhook"} => held[q] \in Definition
  /\ at[q] = "secret" => tool # None /\ held[q] = tool
  /\ at[q] = "webhook" => seal[q] = held[q].secret
  /\ q \in webhooks => seal[q] = held[q].secret

\* Webhook calls belong to the webhook tool's requests, tickets to the others.
IInv ==
  /\ TypeOK /\ EarlyIsClean /\ StageOfTool /\ OutcomeOfStage
  /\ OkHasItsEffect /\ FailureHasNone /\ TraceSaysOutcome /\ AnsweredIsTraced
  /\ StoreIsMatched /\ TicketIsMatched /\ HeldIsStored

-----------------------------------------------------------------------------
\* SessionStore.patch changes one field of one session's state, made fresh if need be.
LEMMA PatchVerified ==
  ASSUME TypeOK, NEW s \in Sessions, NEW who \in Subscribers \cup {None},
         Patch(s, "verified", who)
  PROVE  /\ store' \in [Sessions -> State \cup {None}]
         /\ store'[s] # None => store'[s].verified = who
         /\ \A x \in Sessions \ {s} : store'[x] = store[x]
<1>. DEFINE cur == IF store[s] = None THEN Fresh ELSE store[s]
<1>1. cur \in State
  BY ToolsAssumption DEF TypeOK, State, Fresh
<1>2. [cur EXCEPT !["verified"] = who] \in State /\ [cur EXCEPT !["verified"] = who].verified = who
  BY <1>1 DEF State
<1>3. store' = [store EXCEPT ![s] = [cur EXCEPT !["verified"] = who]]
  BY DEF Patch
<1>. HIDE DEF cur
<1>. QED  BY <1>2, <1>3 DEF TypeOK

LEMMA PatchEscalated ==
  ASSUME TypeOK, NEW s \in Sessions, Patch(s, "escalated", TRUE)
  PROVE  /\ store' \in [Sessions -> State \cup {None}]
         /\ store[s] = None => store'[s].verified = None
         /\ store[s] # None => store'[s].verified = store[s].verified
         /\ \A x \in Sessions \ {s} : store'[x] = store[x]
<1>. DEFINE cur == IF store[s] = None THEN Fresh ELSE store[s]
<1>1. cur \in State /\ cur.verified = IF store[s] = None THEN None ELSE store[s].verified
  BY ToolsAssumption DEF TypeOK, State, Fresh
<1>2. /\ [cur EXCEPT !["escalated"] = TRUE] \in State
      /\ [cur EXCEPT !["escalated"] = TRUE].verified = cur.verified
  BY <1>1 DEF State
<1>3. store' = [store EXCEPT ![s] = [cur EXCEPT !["escalated"] = TRUE]]
  BY DEF Patch
<1>. HIDE DEF cur
<1>. QED  BY <1>1, <1>2, <1>3 DEF TypeOK

\* The types are kept.
LEMMA TypeStep ==
  ASSUME TypeOK, StageOfTool, [Next]_vars
  PROVE  TypeOK'
<1>. USE DEF TypeOK, Stages, Outcomes, effects, history
<1>1. ASSUME NEW r \in Requests, NEW call \in Call, Receive(r, call)
      PROVE  TypeOK'
  <2>1. at' \in [Requests -> Stages]
    BY <1>1 DEF Receive, Goto, Yield, Failures
  <2>2. out' \in [Requests -> Outcomes]
    BY <1>1 DEF Receive, Goto, Yield, Failures
  <2>3. req' \in [Requests -> Call \cup {None}]
    BY <1>1 DEF Receive, Goto, Yield, Failures
  <2>. QED  BY <1>1, <2>1, <2>2, <2>3 DEF Receive
<1>2. ASSUME NEW r \in Requests, AssertVerified(r)
      PROVE  TypeOK'
  <2>1. at' \in [Requests -> Stages]
    BY <1>2 DEF AssertVerified, Goto, Yield, Failures
  <2>2. out' \in [Requests -> Outcomes]
    BY <1>2 DEF AssertVerified, Goto, Yield, Failures
  <2>. QED  BY <1>2, <2>1, <2>2 DEF AssertVerified
<1>3. ASSUME NEW r \in Requests, RequireSubscriber(r)
      PROVE  TypeOK'
  <2>1. at' \in [Requests -> Stages]
    BY <1>3 DEF RequireSubscriber, Goto, Yield, Failures
  <2>2. out' \in [Requests -> Outcomes]
    BY <1>3 DEF RequireSubscriber, Goto, Yield, Failures
  <2>. QED  BY <1>3, <2>1, <2>2 DEF RequireSubscriber
<1>4. ASSUME NEW r \in Requests, LookupSubscriber(r)
      PROVE  TypeOK'
  <2>0. req[r] \in Call /\ req[r].session \in Sessions \cup {None} /\ req[r].who \in Subscribers \cup {None}
    BY <1>4 DEF LookupSubscriber, StageOfTool, Call
  <2>1. at' \in [Requests -> Stages]
    BY <1>4 DEF LookupSubscriber, Goto, Yield, Failures
  <2>2. out' \in [Requests -> Outcomes]
    BY <1>4 DEF LookupSubscriber, Goto, Yield, Failures
  <2>3. store' \in [Sessions -> State \cup {None}]
    BY <1>4, <2>0, PatchVerified DEF LookupSubscriber
  <2>4. matched' \subseteq Sessions \X Subscribers
    BY <1>4, <2>0, ToolsAssumption DEF LookupSubscriber
  <2>. QED  BY <1>4, <2>1, <2>2, <2>3, <2>4 DEF LookupSubscriber
<1>5. ASSUME NEW r \in Requests, EscalateToHuman(r)
      PROVE  TypeOK'
  <2>0. req[r] \in Call /\ req[r].session \in Sessions \cup {None} /\ req[r].who \in Subscribers \cup {None}
    BY <1>5 DEF EscalateToHuman, StageOfTool, Call
  <2>1. at' \in [Requests -> Stages]
    BY <1>5 DEF EscalateToHuman, Goto, Yield, Failures
  <2>2. out' \in [Requests -> Outcomes]
    BY <1>5 DEF EscalateToHuman, Goto, Yield, Failures
  <2>3. store' \in [Sessions -> State \cup {None}]
    BY <1>5, <2>0, PatchEscalated DEF EscalateToHuman
  <2>. QED  BY <1>5, <2>1, <2>2, <2>3 DEF EscalateToHuman
<1>6. ASSUME NEW r \in Requests, GetKbAnswer(r)
      PROVE  TypeOK'
  BY <1>6 DEF GetKbAnswer, Goto, Yield
<1>7. ASSUME NEW r \in Requests, CreateTicket(r)
      PROVE  TypeOK'
  BY <1>7 DEF CreateTicket, Goto, Yield
<1>8. ASSUME NEW r \in Requests, RouteToSales(r)
      PROVE  TypeOK'
  BY <1>8 DEF RouteToSales, Goto, Yield
<1>9. ASSUME NEW r \in Requests, RequestCallback(r)
      PROVE  TypeOK'
  BY <1>9 DEF RequestCallback, Goto, Yield
<1>10. ASSUME NEW r \in Requests, SendSelfserviceLink(r)
      PROVE  TypeOK'
  BY <1>10 DEF SendSelfserviceLink, SendMessage, Goto, Yield
<1>11. ASSUME NEW r \in Requests, SendKakaoAlimtalk(r)
      PROVE  TypeOK'
  BY <1>11 DEF SendKakaoAlimtalk, SendMessage, Goto, Yield
<1>12. ASSUME NEW r \in Requests, StepFails(r)
      PROVE  TypeOK'
  <2>1. at' \in [Requests -> Stages]
    BY <1>12 DEF StepFails, Goto, Yield, Failures
  <2>2. out' \in [Requests -> Outcomes]
    BY <1>12 DEF StepFails, Goto, Yield, Failures
  <2>. QED  BY <1>12, <2>1, <2>2 DEF StepFails
<1>13. ASSUME NEW r \in Requests, FindTool(r)
      PROVE  TypeOK'
  <2>1. at' \in [Requests -> Stages]
    BY <1>13 DEF FindTool, Goto, Yield, Failures
  <2>2. out' \in [Requests -> Outcomes]
    BY <1>13 DEF FindTool, Goto, Yield, Failures
  <2>3. held' \in [Requests -> Definition \cup {None}]
    BY <1>13 DEF FindTool, Goto, Yield, Failures
  <2>. QED  BY <1>13, <2>1, <2>2, <2>3 DEF FindTool
<1>14. ASSUME NEW r \in Requests, ReadSecret(r)
      PROVE  TypeOK'
  <2>1. at' \in [Requests -> Stages]
    BY <1>14 DEF ReadSecret, Goto, Failures
  <2>2. tool # None => tool.secret \in 0..MaxEdits \cup {None}
    BY ToolsAssumption DEF Definition
  <2>3. seal' \in [Requests -> 0..MaxEdits \cup {None}]
    BY <1>14, <2>2 DEF ReadSecret, Goto
  <2>. QED  BY <1>14, <2>1, <2>2, <2>3 DEF ReadSecret
<1>15. ASSUME NEW r \in Requests, InvokeWebhook(r)
      PROVE  TypeOK'
  <2>1. at' \in [Requests -> Stages]
    BY <1>15 DEF InvokeWebhook, Goto, Yield, Failures
  <2>2. out' \in [Requests -> Outcomes]
    BY <1>15 DEF InvokeWebhook, Goto, Yield, Failures
  <2>3. webhooks' \subseteq Requests
    BY <1>15 DEF InvokeWebhook, Goto, Yield, Failures
  <2>. QED  BY <1>15, <2>1, <2>2, <2>3 DEF InvokeWebhook
<1>16. ASSUME NEW r \in Requests, Trace(r)
      PROVE  TypeOK'
  <2>0. at' = [at EXCEPT ![r] = IF out[r] = "ok" THEN "ok" ELSE "error"]
    BY <1>16 DEF Trace, Finished, Goto
  <2>1. at' \in [Requests -> Stages]
    <3>1. (IF out[r] = "ok" THEN "ok" ELSE "error") \in Stages
      OBVIOUS
    <3>. QED  BY <2>0, <3>1
  <2>2. traces' \subseteq Requests \X BOOLEAN
    <3>1. (out[r] = "ok") \in BOOLEAN
      OBVIOUS
    <3>2. traces' = traces \cup {<<r, out[r] = "ok">>} \/ traces' = traces
      BY <1>16 DEF Trace
    <3>3. \A ok \in BOOLEAN : <<r, ok>> \in Requests \X BOOLEAN
      OBVIOUS
    <3>4. <<r, out[r] = "ok">> \in Requests \X BOOLEAN
      BY <3>1, <3>3, Zenon
    <3>. QED  BY <3>2, <3>4, Zenon
  <2>. QED  BY <1>16, <2>1, <2>2 DEF Trace
<1>17. ASSUME NEW r \in Requests, TraceFails(r)
      PROVE  TypeOK'
  <2>1. at' \in [Requests -> Stages]
    BY <1>17 DEF TraceFails, Goto, Failures
  <2>2. out' \in [Requests -> Outcomes]
    BY <1>17 DEF TraceFails, Goto, Failures
  <2>3. untraced' \subseteq Requests
    BY <1>17 DEF TraceFails, Goto, Failures
  <2>. QED  BY <1>17, <2>1, <2>2, <2>3 DEF TraceFails
<1>18. ASSUME NEW r \in Requests, Answer(r)
      PROVE  TypeOK'
  BY <1>18 DEF Answer
<1>19. ASSUME NEW r \in Requests, AnswerLost(r)
      PROVE  TypeOK'
  BY <1>19 DEF AnswerLost
<1>20. CASE EditTool
  <2>1. edits' \in 0..MaxEdits
    BY <1>20, ToolsAssumption DEF EditTool
  <2>2. [id |-> edits', secret |-> edits', enabled |-> TRUE] \in Definition
    BY <2>1 DEF Definition
  <2>. DEFINE rotated == [tool EXCEPT !.secret = edits']
             unset == [tool EXCEPT !.secret = None]
             switched == [tool EXCEPT !.enabled = ~@]
  <2>0. touched' \subseteq Requests
    BY <1>20 DEF EditTool
  <2>3. CASE tool = None
    <3>1. tool' \in Definition
      BY <1>20, <2>2, <2>3 DEF EditTool
    <3>. QED  BY <1>20, <2>0, <2>1, <3>1 DEF EditTool
  <2>4. CASE tool # None
    <3>1. tool \in Definition
      BY <2>4
    <3>2. rotated \in Definition /\ unset \in Definition /\ switched \in Definition
      BY <2>1, <3>1 DEF Definition
    <3>3. tool' \in {None, rotated, unset, switched}
      BY <1>20, <2>4, Zenon DEF EditTool
    <3>. HIDE DEF rotated, unset, switched
    <3>4. tool' \in Definition \cup {None}
      BY <3>2, <3>3
    <3>. QED  BY <1>20, <2>0, <2>1, <3>4 DEF EditTool
  <2>. QED  BY <2>3, <2>4
<1>21. CASE UNCHANGED vars
  BY <1>21 DEF vars
<1>. QED
  BY <1>1, <1>2, <1>3, <1>4, <1>5, <1>6, <1>7, <1>8, <1>9, <1>10, <1>11, <1>12, <1>13, <1>14, <1>15, <1>16, <1>17, <1>18, <1>19, <1>20, <1>21
     DEF Next, Work

\* A step of a request does something only as it leaves the early stages.
LEMMA CleanStep ==
  ASSUME TypeOK, EarlyIsClean, [Next]_vars
  PROVE  EarlyIsClean'
<1>. USE DEF TypeOK, EarlyIsClean, EarlyStages, effects, history
<1>1. ASSUME NEW r \in Requests, NEW call \in Call, Receive(r, call)
      PROVE  EarlyIsClean'
  BY <1>1 DEF Receive, Goto, Yield
<1>2. ASSUME NEW r \in Requests, AssertVerified(r)
      PROVE  EarlyIsClean'
  BY <1>2 DEF AssertVerified, Goto, Yield
<1>3. ASSUME NEW r \in Requests, RequireSubscriber(r)
      PROVE  EarlyIsClean'
  BY <1>3 DEF RequireSubscriber, Goto, Yield
<1>4. ASSUME NEW r \in Requests, LookupSubscriber(r)
      PROVE  EarlyIsClean'
  BY <1>4 DEF LookupSubscriber, Goto, Yield
<1>5. ASSUME NEW r \in Requests, EscalateToHuman(r)
      PROVE  EarlyIsClean'
  BY <1>5 DEF EscalateToHuman, Goto, Yield
<1>6. ASSUME NEW r \in Requests, GetKbAnswer(r)
      PROVE  EarlyIsClean'
  BY <1>6 DEF GetKbAnswer, Goto, Yield
<1>7. ASSUME NEW r \in Requests, CreateTicket(r)
      PROVE  EarlyIsClean'
  BY <1>7 DEF CreateTicket, Goto, Yield
<1>8. ASSUME NEW r \in Requests, RouteToSales(r)
      PROVE  EarlyIsClean'
  BY <1>8 DEF RouteToSales, Goto, Yield
<1>9. ASSUME NEW r \in Requests, RequestCallback(r)
      PROVE  EarlyIsClean'
  BY <1>9 DEF RequestCallback, Goto, Yield
<1>10. ASSUME NEW r \in Requests, SendSelfserviceLink(r)
      PROVE  EarlyIsClean'
  BY <1>10 DEF SendSelfserviceLink, SendMessage, Goto, Yield
<1>11. ASSUME NEW r \in Requests, SendKakaoAlimtalk(r)
      PROVE  EarlyIsClean'
  BY <1>11 DEF SendKakaoAlimtalk, SendMessage, Goto, Yield
<1>12. ASSUME NEW r \in Requests, StepFails(r)
      PROVE  EarlyIsClean'
  BY <1>12 DEF StepFails, Goto, Yield
<1>13. ASSUME NEW r \in Requests, FindTool(r)
      PROVE  EarlyIsClean'
  BY <1>13 DEF FindTool, Goto, Yield
<1>14. ASSUME NEW r \in Requests, ReadSecret(r)
      PROVE  EarlyIsClean'
  BY <1>14 DEF ReadSecret, Goto
<1>15. ASSUME NEW r \in Requests, InvokeWebhook(r)
      PROVE  EarlyIsClean'
  BY <1>15 DEF InvokeWebhook, Goto, Yield
<1>16. ASSUME NEW r \in Requests, Trace(r)
      PROVE  EarlyIsClean'
  BY <1>16 DEF Trace, Finished, Goto
<1>17. ASSUME NEW r \in Requests, TraceFails(r)
      PROVE  EarlyIsClean'
  BY <1>17 DEF TraceFails, Goto
<1>18. ASSUME NEW r \in Requests, Answer(r)
      PROVE  EarlyIsClean'
  BY <1>18 DEF Answer
<1>19. ASSUME NEW r \in Requests, AnswerLost(r)
      PROVE  EarlyIsClean'
  BY <1>19 DEF AnswerLost
<1>20. CASE EditTool
  BY <1>20 DEF EditTool
<1>21. CASE UNCHANGED vars
  BY <1>21 DEF vars
<1>. QED
  BY <1>1, <1>2, <1>3, <1>4, <1>5, <1>6, <1>7, <1>8, <1>9, <1>10, <1>11, <1>12, <1>13, <1>14, <1>15, <1>16, <1>17, <1>18, <1>19, <1>20, <1>21
     DEF Next, Work

\* Handlers stay on the way of their tool.
LEMMA StageStep ==
  ASSUME TypeOK, StageOfTool, [Next]_vars
  PROVE  StageOfTool'
<1>. USE DEF TypeOK, StageOfTool, effects, history
<1>1. ASSUME NEW r \in Requests, NEW call \in Call, Receive(r, call)
      PROVE  StageOfTool'
  <2>1. call.tool # "lookup_subscriber" /\ call.who = None /\ call.tool # "custom" => at'[r] = "trace"
    BY <1>1 DEF Receive, Goto, Yield
  <2>2. /\ req' = [req EXCEPT ![r] = call]
        /\ at'[r] \in {"find", "trace", "gate", "effect"}
        /\ at'[r] = "find" <=> call.tool = "custom"
        /\ at'[r] = "gate" => call.tool \in Gated
        /\ \A q \in Requests \ {r} : at'[q] = at[q]
    BY <1>1 DEF Receive, Goto, Yield, Gated
  <2>3. call.tool = "create_ticket" => call.tool # "lookup_subscriber" /\ call.tool # "custom"
    OBVIOUS
  <2>4. call.tool \in Gated => call.tool # "lookup_subscriber" /\ call.tool # "custom"
    BY DEF Gated
  <2>. QED  BY <1>1, <2>1, <2>2, <2>3, <2>4 DEF Call
<1>2. ASSUME NEW r \in Requests, AssertVerified(r)
      PROVE  StageOfTool'
  BY <1>2 DEF AssertVerified, Goto, Yield
<1>3. ASSUME NEW r \in Requests, RequireSubscriber(r)
      PROVE  StageOfTool'
  BY <1>3 DEF RequireSubscriber, Goto, Yield
<1>4. ASSUME NEW r \in Requests, LookupSubscriber(r)
      PROVE  StageOfTool'
  BY <1>4 DEF LookupSubscriber, Goto, Yield
<1>5. ASSUME NEW r \in Requests, EscalateToHuman(r)
      PROVE  StageOfTool'
  BY <1>5 DEF EscalateToHuman, Goto, Yield
<1>6. ASSUME NEW r \in Requests, GetKbAnswer(r)
      PROVE  StageOfTool'
  BY <1>6 DEF GetKbAnswer, Goto, Yield
<1>7. ASSUME NEW r \in Requests, CreateTicket(r)
      PROVE  StageOfTool'
  BY <1>7 DEF CreateTicket, Goto, Yield
<1>8. ASSUME NEW r \in Requests, RouteToSales(r)
      PROVE  StageOfTool'
  BY <1>8 DEF RouteToSales, Goto, Yield
<1>9. ASSUME NEW r \in Requests, RequestCallback(r)
      PROVE  StageOfTool'
  BY <1>9 DEF RequestCallback, Goto, Yield
<1>10. ASSUME NEW r \in Requests, SendSelfserviceLink(r)
      PROVE  StageOfTool'
  BY <1>10 DEF SendSelfserviceLink, SendMessage, Goto, Yield
<1>11. ASSUME NEW r \in Requests, SendKakaoAlimtalk(r)
      PROVE  StageOfTool'
  BY <1>11 DEF SendKakaoAlimtalk, SendMessage, Goto, Yield
<1>12. ASSUME NEW r \in Requests, StepFails(r)
      PROVE  StageOfTool'
  BY <1>12 DEF StepFails, Goto, Yield
<1>13. ASSUME NEW r \in Requests, FindTool(r)
      PROVE  StageOfTool'
  BY <1>13 DEF FindTool, Goto, Yield
<1>14. ASSUME NEW r \in Requests, ReadSecret(r)
      PROVE  StageOfTool'
  BY <1>14 DEF ReadSecret, Goto
<1>15. ASSUME NEW r \in Requests, InvokeWebhook(r)
      PROVE  StageOfTool'
  BY <1>15 DEF InvokeWebhook, Goto, Yield
<1>16. ASSUME NEW r \in Requests, Trace(r)
      PROVE  StageOfTool'
  BY <1>16 DEF Trace, Finished, Goto
<1>17. ASSUME NEW r \in Requests, TraceFails(r)
      PROVE  StageOfTool'
  BY <1>17 DEF TraceFails, Goto
<1>18. ASSUME NEW r \in Requests, Answer(r)
      PROVE  StageOfTool'
  BY <1>18 DEF Answer
<1>19. ASSUME NEW r \in Requests, AnswerLost(r)
      PROVE  StageOfTool'
  BY <1>19 DEF AnswerLost
<1>20. CASE EditTool
  BY <1>20 DEF EditTool
<1>21. CASE UNCHANGED vars
  BY <1>21 DEF vars
<1>. QED
  BY <1>1, <1>2, <1>3, <1>4, <1>5, <1>6, <1>7, <1>8, <1>9, <1>10, <1>11, <1>12, <1>13, <1>14, <1>15, <1>16, <1>17, <1>18, <1>19, <1>20, <1>21
     DEF Next, Work

\* Outcomes and answers fit.
LEMMA OutcomeStep ==
  ASSUME TypeOK, EarlyIsClean, OutcomeOfStage, [Next]_vars
  PROVE  OutcomeOfStage'
<1>. USE DEF TypeOK, EarlyIsClean, EarlyStages, OutcomeOfStage, effects, history
<1>1. ASSUME NEW r \in Requests, NEW call \in Call, Receive(r, call)
      PROVE  OutcomeOfStage'
  BY <1>1 DEF Receive, Goto, Yield
<1>2. ASSUME NEW r \in Requests, AssertVerified(r)
      PROVE  OutcomeOfStage'
  BY <1>2 DEF AssertVerified, Goto, Yield
<1>3. ASSUME NEW r \in Requests, RequireSubscriber(r)
      PROVE  OutcomeOfStage'
  BY <1>3 DEF RequireSubscriber, Goto, Yield
<1>4. ASSUME NEW r \in Requests, LookupSubscriber(r)
      PROVE  OutcomeOfStage'
  BY <1>4 DEF LookupSubscriber, Goto, Yield
<1>5. ASSUME NEW r \in Requests, EscalateToHuman(r)
      PROVE  OutcomeOfStage'
  BY <1>5 DEF EscalateToHuman, Goto, Yield
<1>6. ASSUME NEW r \in Requests, GetKbAnswer(r)
      PROVE  OutcomeOfStage'
  BY <1>6 DEF GetKbAnswer, Goto, Yield
<1>7. ASSUME NEW r \in Requests, CreateTicket(r)
      PROVE  OutcomeOfStage'
  BY <1>7 DEF CreateTicket, Goto, Yield
<1>8. ASSUME NEW r \in Requests, RouteToSales(r)
      PROVE  OutcomeOfStage'
  BY <1>8 DEF RouteToSales, Goto, Yield
<1>9. ASSUME NEW r \in Requests, RequestCallback(r)
      PROVE  OutcomeOfStage'
  BY <1>9 DEF RequestCallback, Goto, Yield
<1>10. ASSUME NEW r \in Requests, SendSelfserviceLink(r)
      PROVE  OutcomeOfStage'
  BY <1>10 DEF SendSelfserviceLink, SendMessage, Goto, Yield
<1>11. ASSUME NEW r \in Requests, SendKakaoAlimtalk(r)
      PROVE  OutcomeOfStage'
  BY <1>11 DEF SendKakaoAlimtalk, SendMessage, Goto, Yield
<1>12. ASSUME NEW r \in Requests, StepFails(r)
      PROVE  OutcomeOfStage'
  BY <1>12 DEF StepFails, Goto, Yield
<1>13. ASSUME NEW r \in Requests, FindTool(r)
      PROVE  OutcomeOfStage'
  BY <1>13 DEF FindTool, Goto, Yield
<1>14. ASSUME NEW r \in Requests, ReadSecret(r)
      PROVE  OutcomeOfStage'
  BY <1>14 DEF ReadSecret, Goto
<1>15. ASSUME NEW r \in Requests, InvokeWebhook(r)
      PROVE  OutcomeOfStage'
  BY <1>15 DEF InvokeWebhook, Goto, Yield
<1>16. ASSUME NEW r \in Requests, Trace(r)
      PROVE  OutcomeOfStage'
  BY <1>16 DEF Trace, Finished, Goto
<1>17. ASSUME NEW r \in Requests, TraceFails(r)
      PROVE  OutcomeOfStage'
  BY <1>17 DEF TraceFails, Goto
<1>18. ASSUME NEW r \in Requests, Answer(r)
      PROVE  OutcomeOfStage'
  BY <1>18 DEF Answer
<1>19. ASSUME NEW r \in Requests, AnswerLost(r)
      PROVE  OutcomeOfStage'
  BY <1>19 DEF AnswerLost
<1>20. CASE EditTool
  BY <1>20 DEF EditTool
<1>21. CASE UNCHANGED vars
  BY <1>21 DEF vars
<1>. QED
  BY <1>1, <1>2, <1>3, <1>4, <1>5, <1>6, <1>7, <1>8, <1>9, <1>10, <1>11, <1>12, <1>13, <1>14, <1>15, <1>16, <1>17, <1>18, <1>19, <1>20, <1>21
     DEF Next, Work

\* A success has its effect.
LEMMA OkStep ==
  ASSUME TypeOK, EarlyIsClean, StageOfTool, OkHasItsEffect, [Next]_vars
  PROVE  OkHasItsEffect'
<1>. USE DEF TypeOK, EarlyIsClean, EarlyStages, StageOfTool, OkHasItsEffect, Effect, effects, history
<1>1. ASSUME NEW r \in Requests, NEW call \in Call, Receive(r, call)
      PROVE  OkHasItsEffect'
  BY <1>1 DEF Receive, Goto, Yield
<1>2. ASSUME NEW r \in Requests, AssertVerified(r)
      PROVE  OkHasItsEffect'
  BY <1>2 DEF AssertVerified, Goto, Yield
<1>3. ASSUME NEW r \in Requests, RequireSubscriber(r)
      PROVE  OkHasItsEffect'
  BY <1>3 DEF RequireSubscriber, Goto, Yield
<1>4. ASSUME NEW r \in Requests, LookupSubscriber(r)
      PROVE  OkHasItsEffect'
  BY <1>4 DEF LookupSubscriber, Goto, Yield
<1>5. ASSUME NEW r \in Requests, EscalateToHuman(r)
      PROVE  OkHasItsEffect'
  BY <1>5 DEF EscalateToHuman, Goto, Yield
<1>6. ASSUME NEW r \in Requests, GetKbAnswer(r)
      PROVE  OkHasItsEffect'
  BY <1>6 DEF GetKbAnswer, Goto, Yield
<1>7. ASSUME NEW r \in Requests, CreateTicket(r)
      PROVE  OkHasItsEffect'
  BY <1>7 DEF CreateTicket, Goto, Yield
<1>8. ASSUME NEW r \in Requests, RouteToSales(r)
      PROVE  OkHasItsEffect'
  BY <1>8 DEF RouteToSales, Goto, Yield
<1>9. ASSUME NEW r \in Requests, RequestCallback(r)
      PROVE  OkHasItsEffect'
  BY <1>9 DEF RequestCallback, Goto, Yield
<1>10. ASSUME NEW r \in Requests, SendSelfserviceLink(r)
      PROVE  OkHasItsEffect'
  BY <1>10 DEF SendSelfserviceLink, SendMessage, Goto, Yield
<1>11. ASSUME NEW r \in Requests, SendKakaoAlimtalk(r)
      PROVE  OkHasItsEffect'
  BY <1>11 DEF SendKakaoAlimtalk, SendMessage, Goto, Yield
<1>12. ASSUME NEW r \in Requests, StepFails(r)
      PROVE  OkHasItsEffect'
  BY <1>12 DEF StepFails, Goto, Yield
<1>13. ASSUME NEW r \in Requests, FindTool(r)
      PROVE  OkHasItsEffect'
  BY <1>13 DEF FindTool, Goto, Yield
<1>14. ASSUME NEW r \in Requests, ReadSecret(r)
      PROVE  OkHasItsEffect'
  BY <1>14 DEF ReadSecret, Goto
<1>15. ASSUME NEW r \in Requests, InvokeWebhook(r)
      PROVE  OkHasItsEffect'
  BY <1>15 DEF InvokeWebhook, Goto, Yield
<1>16. ASSUME NEW r \in Requests, Trace(r)
      PROVE  OkHasItsEffect'
  BY <1>16 DEF Trace, Finished, Goto
<1>17. ASSUME NEW r \in Requests, TraceFails(r)
      PROVE  OkHasItsEffect'
  BY <1>17 DEF TraceFails, Goto
<1>18. ASSUME NEW r \in Requests, Answer(r)
      PROVE  OkHasItsEffect'
  BY <1>18 DEF Answer
<1>19. ASSUME NEW r \in Requests, AnswerLost(r)
      PROVE  OkHasItsEffect'
  BY <1>19 DEF AnswerLost
<1>20. CASE EditTool
  BY <1>20 DEF EditTool
<1>21. CASE UNCHANGED vars
  BY <1>21 DEF vars
<1>. QED
  BY <1>1, <1>2, <1>3, <1>4, <1>5, <1>6, <1>7, <1>8, <1>9, <1>10, <1>11, <1>12, <1>13, <1>14, <1>15, <1>16, <1>17, <1>18, <1>19, <1>20, <1>21
     DEF Next, Work

\* A failure has none.
LEMMA FailureStep ==
  ASSUME TypeOK, EarlyIsClean, FailureHasNone, [Next]_vars
  PROVE  FailureHasNone'
<1>. USE DEF TypeOK, EarlyIsClean, EarlyStages, FailureHasNone, effects, history
<1>1. ASSUME NEW r \in Requests, NEW call \in Call, Receive(r, call)
      PROVE  FailureHasNone'
  BY <1>1 DEF Receive, Goto, Yield
<1>2. ASSUME NEW r \in Requests, AssertVerified(r)
      PROVE  FailureHasNone'
  BY <1>2 DEF AssertVerified, Goto, Yield
<1>3. ASSUME NEW r \in Requests, RequireSubscriber(r)
      PROVE  FailureHasNone'
  BY <1>3 DEF RequireSubscriber, Goto, Yield
<1>4. ASSUME NEW r \in Requests, LookupSubscriber(r)
      PROVE  FailureHasNone'
  BY <1>4 DEF LookupSubscriber, Goto, Yield
<1>5. ASSUME NEW r \in Requests, EscalateToHuman(r)
      PROVE  FailureHasNone'
  BY <1>5 DEF EscalateToHuman, Goto, Yield
<1>6. ASSUME NEW r \in Requests, GetKbAnswer(r)
      PROVE  FailureHasNone'
  BY <1>6 DEF GetKbAnswer, Goto, Yield
<1>7. ASSUME NEW r \in Requests, CreateTicket(r)
      PROVE  FailureHasNone'
  BY <1>7 DEF CreateTicket, Goto, Yield
<1>8. ASSUME NEW r \in Requests, RouteToSales(r)
      PROVE  FailureHasNone'
  BY <1>8 DEF RouteToSales, Goto, Yield
<1>9. ASSUME NEW r \in Requests, RequestCallback(r)
      PROVE  FailureHasNone'
  BY <1>9 DEF RequestCallback, Goto, Yield
<1>10. ASSUME NEW r \in Requests, SendSelfserviceLink(r)
      PROVE  FailureHasNone'
  BY <1>10 DEF SendSelfserviceLink, SendMessage, Goto, Yield
<1>11. ASSUME NEW r \in Requests, SendKakaoAlimtalk(r)
      PROVE  FailureHasNone'
  BY <1>11 DEF SendKakaoAlimtalk, SendMessage, Goto, Yield
<1>12. ASSUME NEW r \in Requests, StepFails(r)
      PROVE  FailureHasNone'
  BY <1>12 DEF StepFails, Goto, Yield
<1>13. ASSUME NEW r \in Requests, FindTool(r)
      PROVE  FailureHasNone'
  BY <1>13 DEF FindTool, Goto, Yield
<1>14. ASSUME NEW r \in Requests, ReadSecret(r)
      PROVE  FailureHasNone'
  BY <1>14 DEF ReadSecret, Goto
<1>15. ASSUME NEW r \in Requests, InvokeWebhook(r)
      PROVE  FailureHasNone'
  BY <1>15 DEF InvokeWebhook, Goto, Yield
<1>16. ASSUME NEW r \in Requests, Trace(r)
      PROVE  FailureHasNone'
  BY <1>16 DEF Trace, Finished, Goto
<1>17. ASSUME NEW r \in Requests, TraceFails(r)
      PROVE  FailureHasNone'
  BY <1>17 DEF TraceFails, Goto
<1>18. ASSUME NEW r \in Requests, Answer(r)
      PROVE  FailureHasNone'
  BY <1>18 DEF Answer
<1>19. ASSUME NEW r \in Requests, AnswerLost(r)
      PROVE  FailureHasNone'
  BY <1>19 DEF AnswerLost
<1>20. CASE EditTool
  BY <1>20 DEF EditTool
<1>21. CASE UNCHANGED vars
  BY <1>21 DEF vars
<1>. QED
  BY <1>1, <1>2, <1>3, <1>4, <1>5, <1>6, <1>7, <1>8, <1>9, <1>10, <1>11, <1>12, <1>13, <1>14, <1>15, <1>16, <1>17, <1>18, <1>19, <1>20, <1>21
     DEF Next, Work

\* A row of the trace is written once and of an answered request alone.
LEMMA TraceSaysStep ==
  ASSUME TypeOK, EarlyIsClean, TraceSaysOutcome, [Next]_vars
  PROVE  TraceSaysOutcome'
<1>. USE DEF TypeOK, TraceSaysOutcome, effects, history
<1>1. ASSUME NEW r \in Requests, NEW call \in Call, Receive(r, call)
      PROVE  TraceSaysOutcome'
  BY <1>1 DEF Receive, Goto, Yield
<1>2. ASSUME NEW r \in Requests, AssertVerified(r)
      PROVE  TraceSaysOutcome'
  BY <1>2 DEF AssertVerified, Goto, Yield
<1>3. ASSUME NEW r \in Requests, RequireSubscriber(r)
      PROVE  TraceSaysOutcome'
  BY <1>3 DEF RequireSubscriber, Goto, Yield
<1>4. ASSUME NEW r \in Requests, LookupSubscriber(r)
      PROVE  TraceSaysOutcome'
  BY <1>4 DEF LookupSubscriber, Goto, Yield
<1>5. ASSUME NEW r \in Requests, EscalateToHuman(r)
      PROVE  TraceSaysOutcome'
  BY <1>5 DEF EscalateToHuman, Goto, Yield
<1>6. ASSUME NEW r \in Requests, GetKbAnswer(r)
      PROVE  TraceSaysOutcome'
  BY <1>6 DEF GetKbAnswer, Goto, Yield
<1>7. ASSUME NEW r \in Requests, CreateTicket(r)
      PROVE  TraceSaysOutcome'
  BY <1>7 DEF CreateTicket, Goto, Yield
<1>8. ASSUME NEW r \in Requests, RouteToSales(r)
      PROVE  TraceSaysOutcome'
  BY <1>8 DEF RouteToSales, Goto, Yield
<1>9. ASSUME NEW r \in Requests, RequestCallback(r)
      PROVE  TraceSaysOutcome'
  BY <1>9 DEF RequestCallback, Goto, Yield
<1>10. ASSUME NEW r \in Requests, SendSelfserviceLink(r)
      PROVE  TraceSaysOutcome'
  BY <1>10 DEF SendSelfserviceLink, SendMessage, Goto, Yield
<1>11. ASSUME NEW r \in Requests, SendKakaoAlimtalk(r)
      PROVE  TraceSaysOutcome'
  BY <1>11 DEF SendKakaoAlimtalk, SendMessage, Goto, Yield
<1>12. ASSUME NEW r \in Requests, StepFails(r)
      PROVE  TraceSaysOutcome'
  BY <1>12 DEF StepFails, Goto, Yield
<1>13. ASSUME NEW r \in Requests, FindTool(r)
      PROVE  TraceSaysOutcome'
  BY <1>13 DEF FindTool, Goto, Yield
<1>14. ASSUME NEW r \in Requests, ReadSecret(r)
      PROVE  TraceSaysOutcome'
  BY <1>14 DEF ReadSecret, Goto
<1>15. ASSUME NEW r \in Requests, InvokeWebhook(r)
      PROVE  TraceSaysOutcome'
  BY <1>15 DEF InvokeWebhook, Goto, Yield
<1>16. ASSUME NEW r \in Requests, Trace(r)
      PROVE  TraceSaysOutcome'
  BY <1>16 DEF Trace, Finished, Goto
<1>17. ASSUME NEW r \in Requests, TraceFails(r)
      PROVE  TraceSaysOutcome'
  BY <1>17 DEF TraceFails, Goto
<1>18. ASSUME NEW r \in Requests, Answer(r)
      PROVE  TraceSaysOutcome'
  BY <1>18 DEF Answer
<1>19. ASSUME NEW r \in Requests, AnswerLost(r)
      PROVE  TraceSaysOutcome'
  BY <1>19 DEF AnswerLost
<1>20. CASE EditTool
  BY <1>20 DEF EditTool
<1>21. CASE UNCHANGED vars
  BY <1>21 DEF vars
<1>. QED
  BY <1>1, <1>2, <1>3, <1>4, <1>5, <1>6, <1>7, <1>8, <1>9, <1>10, <1>11, <1>12, <1>13, <1>14, <1>15, <1>16, <1>17, <1>18, <1>19, <1>20, <1>21
     DEF Next, Work

\* A request that has come to its answer has a row, or had it refused.
LEMMA TracedStep ==
  ASSUME TypeOK, StageOfTool, AnsweredIsTraced, [Next]_vars
  PROVE  AnsweredIsTraced'
<1>. USE ToolsAssumption DEF TypeOK, AnsweredIsTraced, effects, history
<1>1. ASSUME NEW r \in Requests, NEW call \in Call, Receive(r, call)
      PROVE  AnsweredIsTraced'
  BY <1>1 DEF Receive, Goto, Yield
<1>2. ASSUME NEW r \in Requests, AssertVerified(r)
      PROVE  AnsweredIsTraced'
  BY <1>2 DEF AssertVerified, Goto, Yield
<1>3. ASSUME NEW r \in Requests, RequireSubscriber(r)
      PROVE  AnsweredIsTraced'
  BY <1>3 DEF RequireSubscriber, Goto, Yield
<1>4. ASSUME NEW r \in Requests, LookupSubscriber(r)
      PROVE  AnsweredIsTraced'
  BY <1>4 DEF LookupSubscriber, Goto, Yield
<1>5. ASSUME NEW r \in Requests, EscalateToHuman(r)
      PROVE  AnsweredIsTraced'
  BY <1>5 DEF EscalateToHuman, Goto, Yield
<1>6. ASSUME NEW r \in Requests, GetKbAnswer(r)
      PROVE  AnsweredIsTraced'
  BY <1>6 DEF GetKbAnswer, Goto, Yield
<1>7. ASSUME NEW r \in Requests, CreateTicket(r)
      PROVE  AnsweredIsTraced'
  BY <1>7 DEF CreateTicket, Goto, Yield
<1>8. ASSUME NEW r \in Requests, RouteToSales(r)
      PROVE  AnsweredIsTraced'
  BY <1>8 DEF RouteToSales, Goto, Yield
<1>9. ASSUME NEW r \in Requests, RequestCallback(r)
      PROVE  AnsweredIsTraced'
  BY <1>9 DEF RequestCallback, Goto, Yield
<1>10. ASSUME NEW r \in Requests, SendSelfserviceLink(r)
      PROVE  AnsweredIsTraced'
  BY <1>10 DEF SendSelfserviceLink, SendMessage, Goto, Yield
<1>11. ASSUME NEW r \in Requests, SendKakaoAlimtalk(r)
      PROVE  AnsweredIsTraced'
  BY <1>11 DEF SendKakaoAlimtalk, SendMessage, Goto, Yield
<1>12. ASSUME NEW r \in Requests, StepFails(r)
      PROVE  AnsweredIsTraced'
  BY <1>12 DEF StepFails, Goto, Yield
<1>13. ASSUME NEW r \in Requests, FindTool(r)
      PROVE  AnsweredIsTraced'
  BY <1>13 DEF FindTool, Goto, Yield
<1>14. ASSUME NEW r \in Requests, ReadSecret(r)
      PROVE  AnsweredIsTraced'
  BY <1>14 DEF ReadSecret, Goto
<1>15. ASSUME NEW r \in Requests, InvokeWebhook(r)
      PROVE  AnsweredIsTraced'
  BY <1>15 DEF InvokeWebhook, Goto, Yield
<1>16. ASSUME NEW r \in Requests, Trace(r)
      PROVE  AnsweredIsTraced'
  BY <1>16 DEF Trace, Finished, Goto
<1>17. ASSUME NEW r \in Requests, TraceFails(r)
      PROVE  AnsweredIsTraced'
  BY <1>17 DEF TraceFails, Goto
<1>18. ASSUME NEW r \in Requests, Answer(r)
      PROVE  AnsweredIsTraced'
  BY <1>18 DEF Answer
<1>19. ASSUME NEW r \in Requests, AnswerLost(r)
      PROVE  AnsweredIsTraced'
  BY <1>19 DEF AnswerLost
<1>20. CASE EditTool
  BY <1>20 DEF EditTool
<1>21. CASE UNCHANGED vars
  BY <1>21 DEF vars
<1>. QED
  BY <1>1, <1>2, <1>3, <1>4, <1>5, <1>6, <1>7, <1>8, <1>9, <1>10, <1>11, <1>12, <1>13, <1>14, <1>15, <1>16, <1>17, <1>18, <1>19, <1>20, <1>21
     DEF Next, Work

\* A session's state is changed by the lookups and escalations of its own call.
LEMMA StoreStep ==
  ASSUME TypeOK, StageOfTool, StoreIsMatched, [Next]_vars
  PROVE  StoreIsMatched'
<1>. USE DEF TypeOK, StoreIsMatched, effects, history
<1>1. ASSUME NEW r \in Requests, NEW call \in Call, Receive(r, call)
      PROVE  StoreIsMatched'
  BY <1>1 DEF Receive, Goto, Yield
<1>2. ASSUME NEW r \in Requests, AssertVerified(r)
      PROVE  StoreIsMatched'
  BY <1>2 DEF AssertVerified, Goto, Yield
<1>3. ASSUME NEW r \in Requests, RequireSubscriber(r)
      PROVE  StoreIsMatched'
  BY <1>3 DEF RequireSubscriber, Goto, Yield
<1>4. ASSUME NEW r \in Requests, LookupSubscriber(r)
      PROVE  StoreIsMatched'
  <2>1. req[r].session \in Sessions \cup {None} /\ req[r].who \in Subscribers \cup {None}
    BY <1>4 DEF LookupSubscriber, StageOfTool, Call
  <2>2. matched \subseteq matched'
    BY <1>4 DEF LookupSubscriber
  <2>3. CASE req[r].who \in Profiles /\ req[r].session # None
    BY <1>4, <2>1, <2>2, <2>3, PatchVerified DEF LookupSubscriber
  <2>4. CASE ~ (req[r].who \in Profiles /\ req[r].session # None)
    BY <1>4, <2>4 DEF LookupSubscriber
  <2>. QED  BY <2>3, <2>4
<1>5. ASSUME NEW r \in Requests, EscalateToHuman(r)
      PROVE  StoreIsMatched'
  <2>1. req[r].session \in Sessions \cup {None} /\ req[r].who \in Subscribers \cup {None}
    BY <1>5 DEF EscalateToHuman, StageOfTool, Call
  <2>2. matched' = matched
    BY <1>5 DEF EscalateToHuman
  <2>3. CASE req[r].session # None
    BY <1>5, <2>1, <2>2, <2>3, PatchEscalated DEF EscalateToHuman
  <2>4. CASE req[r].session = None
    BY <1>5, <2>4 DEF EscalateToHuman
  <2>. QED  BY <2>3, <2>4
<1>6. ASSUME NEW r \in Requests, GetKbAnswer(r)
      PROVE  StoreIsMatched'
  BY <1>6 DEF GetKbAnswer, Goto, Yield
<1>7. ASSUME NEW r \in Requests, CreateTicket(r)
      PROVE  StoreIsMatched'
  BY <1>7 DEF CreateTicket, Goto, Yield
<1>8. ASSUME NEW r \in Requests, RouteToSales(r)
      PROVE  StoreIsMatched'
  BY <1>8 DEF RouteToSales, Goto, Yield
<1>9. ASSUME NEW r \in Requests, RequestCallback(r)
      PROVE  StoreIsMatched'
  BY <1>9 DEF RequestCallback, Goto, Yield
<1>10. ASSUME NEW r \in Requests, SendSelfserviceLink(r)
      PROVE  StoreIsMatched'
  BY <1>10 DEF SendSelfserviceLink, SendMessage, Goto, Yield
<1>11. ASSUME NEW r \in Requests, SendKakaoAlimtalk(r)
      PROVE  StoreIsMatched'
  BY <1>11 DEF SendKakaoAlimtalk, SendMessage, Goto, Yield
<1>12. ASSUME NEW r \in Requests, StepFails(r)
      PROVE  StoreIsMatched'
  BY <1>12 DEF StepFails, Goto, Yield
<1>13. ASSUME NEW r \in Requests, FindTool(r)
      PROVE  StoreIsMatched'
  BY <1>13 DEF FindTool, Goto, Yield
<1>14. ASSUME NEW r \in Requests, ReadSecret(r)
      PROVE  StoreIsMatched'
  BY <1>14 DEF ReadSecret, Goto
<1>15. ASSUME NEW r \in Requests, InvokeWebhook(r)
      PROVE  StoreIsMatched'
  BY <1>15 DEF InvokeWebhook, Goto, Yield
<1>16. ASSUME NEW r \in Requests, Trace(r)
      PROVE  StoreIsMatched'
  BY <1>16 DEF Trace, Finished, Goto
<1>17. ASSUME NEW r \in Requests, TraceFails(r)
      PROVE  StoreIsMatched'
  BY <1>17 DEF TraceFails, Goto
<1>18. ASSUME NEW r \in Requests, Answer(r)
      PROVE  StoreIsMatched'
  BY <1>18 DEF Answer
<1>19. ASSUME NEW r \in Requests, AnswerLost(r)
      PROVE  StoreIsMatched'
  BY <1>19 DEF AnswerLost
<1>20. CASE EditTool
  BY <1>20 DEF EditTool
<1>21. CASE UNCHANGED vars
  BY <1>21 DEF vars
<1>. QED
  BY <1>1, <1>2, <1>3, <1>4, <1>5, <1>6, <1>7, <1>8, <1>9, <1>10, <1>11, <1>12, <1>13, <1>14, <1>15, <1>16, <1>17, <1>18, <1>19, <1>20, <1>21
     DEF Next, Work

\* The gate lets a ticket pass for the subscriber it found verified.
LEMMA TicketStep ==
  ASSUME TypeOK, EarlyIsClean, StageOfTool, StoreIsMatched, TicketIsMatched, [Next]_vars
  PROVE  TicketIsMatched'
<1>. USE DEF TypeOK, EarlyIsClean, EarlyStages, TicketIsMatched, effects, history
<1>1. ASSUME NEW r \in Requests, NEW call \in Call, Receive(r, call)
      PROVE  TicketIsMatched'
  <2>1. /\ r \notin tickets
        /\ at'[r] = "effect" => call.tool # "create_ticket"
        /\ req' = [req EXCEPT ![r] = call]
        /\ \A q \in Requests \ {r} : at'[q] = at[q]
    BY <1>1 DEF Receive, Goto, Yield, Gated
  <2>2. UNCHANGED <<tickets, unguarded, matched>>
    BY <1>1 DEF Receive
  <2>. QED  BY <2>1, <2>2
<1>2. ASSUME NEW r \in Requests, AssertVerified(r)
      PROVE  TicketIsMatched'
  <2>1. req[r].who # None /\ req[r].session \in Sessions \cup {None}
    BY <1>2 DEF AssertVerified, StageOfTool, Call
  <2>2. at'[r] = "effect" => Verified(req[r])
    BY <1>2 DEF AssertVerified, Goto, Yield
  <2>3. Verified(req[r]) => r \in unguarded' \/ <<req[r].session, req[r].who>> \in matched
    BY <1>2, <2>1 DEF AssertVerified, Verified, Unguarded, StoreIsMatched
  <2>4. UNCHANGED <<tickets, req, matched>> /\ unguarded \subseteq unguarded'
        /\ \A q \in Requests \ {r} : at'[q] = at[q]
    BY <1>2 DEF AssertVerified, Goto, Yield
  <2>. QED  BY <1>2, <2>2, <2>3, <2>4 DEF AssertVerified
<1>3. ASSUME NEW r \in Requests, RequireSubscriber(r)
      PROVE  TicketIsMatched'
  BY <1>3 DEF RequireSubscriber, Goto, Yield
<1>4. ASSUME NEW r \in Requests, LookupSubscriber(r)
      PROVE  TicketIsMatched'
  BY <1>4 DEF LookupSubscriber, Goto, Yield
<1>5. ASSUME NEW r \in Requests, EscalateToHuman(r)
      PROVE  TicketIsMatched'
  BY <1>5 DEF EscalateToHuman, Goto, Yield
<1>6. ASSUME NEW r \in Requests, GetKbAnswer(r)
      PROVE  TicketIsMatched'
  BY <1>6 DEF GetKbAnswer, Goto, Yield
<1>7. ASSUME NEW r \in Requests, CreateTicket(r)
      PROVE  TicketIsMatched'
  BY <1>7 DEF CreateTicket, Goto, Yield
<1>8. ASSUME NEW r \in Requests, RouteToSales(r)
      PROVE  TicketIsMatched'
  BY <1>8 DEF RouteToSales, Goto, Yield
<1>9. ASSUME NEW r \in Requests, RequestCallback(r)
      PROVE  TicketIsMatched'
  BY <1>9 DEF RequestCallback, Goto, Yield
<1>10. ASSUME NEW r \in Requests, SendSelfserviceLink(r)
      PROVE  TicketIsMatched'
  BY <1>10 DEF SendSelfserviceLink, SendMessage, Goto, Yield
<1>11. ASSUME NEW r \in Requests, SendKakaoAlimtalk(r)
      PROVE  TicketIsMatched'
  BY <1>11 DEF SendKakaoAlimtalk, SendMessage, Goto, Yield
<1>12. ASSUME NEW r \in Requests, StepFails(r)
      PROVE  TicketIsMatched'
  BY <1>12 DEF StepFails, Goto, Yield
<1>13. ASSUME NEW r \in Requests, FindTool(r)
      PROVE  TicketIsMatched'
  BY <1>13 DEF FindTool, Goto, Yield
<1>14. ASSUME NEW r \in Requests, ReadSecret(r)
      PROVE  TicketIsMatched'
  BY <1>14 DEF ReadSecret, Goto
<1>15. ASSUME NEW r \in Requests, InvokeWebhook(r)
      PROVE  TicketIsMatched'
  BY <1>15 DEF InvokeWebhook, Goto, Yield
<1>16. ASSUME NEW r \in Requests, Trace(r)
      PROVE  TicketIsMatched'
  BY <1>16 DEF Trace, Finished, Goto
<1>17. ASSUME NEW r \in Requests, TraceFails(r)
      PROVE  TicketIsMatched'
  BY <1>17 DEF TraceFails, Goto
<1>18. ASSUME NEW r \in Requests, Answer(r)
      PROVE  TicketIsMatched'
  BY <1>18 DEF Answer
<1>19. ASSUME NEW r \in Requests, AnswerLost(r)
      PROVE  TicketIsMatched'
  BY <1>19 DEF AnswerLost
<1>20. CASE EditTool
  BY <1>20 DEF EditTool
<1>21. CASE UNCHANGED vars
  BY <1>21 DEF vars
<1>. QED
  BY <1>1, <1>2, <1>3, <1>4, <1>5, <1>6, <1>7, <1>8, <1>9, <1>10, <1>11, <1>12, <1>13, <1>14, <1>15, <1>16, <1>17, <1>18, <1>19, <1>20, <1>21
     DEF Next, Work

\* The definition and the secret a request holds change with an edit alone, which
\* touches the requests under way.
LEMMA HeldStep ==
  ASSUME TypeOK, EarlyIsClean, HeldIsStored, [Next]_vars
  PROVE  HeldIsStored'
<1>. USE DEF TypeOK, EarlyIsClean, EarlyStages, HeldIsStored, effects, history
<1>1. ASSUME NEW r \in Requests, NEW call \in Call, Receive(r, call)
      PROVE  HeldIsStored'
  BY <1>1 DEF Receive, Goto, Yield
<1>2. ASSUME NEW r \in Requests, AssertVerified(r)
      PROVE  HeldIsStored'
  BY <1>2 DEF AssertVerified, Goto, Yield
<1>3. ASSUME NEW r \in Requests, RequireSubscriber(r)
      PROVE  HeldIsStored'
  BY <1>3 DEF RequireSubscriber, Goto, Yield
<1>4. ASSUME NEW r \in Requests, LookupSubscriber(r)
      PROVE  HeldIsStored'
  BY <1>4 DEF LookupSubscriber, Goto, Yield
<1>5. ASSUME NEW r \in Requests, EscalateToHuman(r)
      PROVE  HeldIsStored'
  BY <1>5 DEF EscalateToHuman, Goto, Yield
<1>6. ASSUME NEW r \in Requests, GetKbAnswer(r)
      PROVE  HeldIsStored'
  BY <1>6 DEF GetKbAnswer, Goto, Yield
<1>7. ASSUME NEW r \in Requests, CreateTicket(r)
      PROVE  HeldIsStored'
  BY <1>7 DEF CreateTicket, Goto, Yield
<1>8. ASSUME NEW r \in Requests, RouteToSales(r)
      PROVE  HeldIsStored'
  BY <1>8 DEF RouteToSales, Goto, Yield
<1>9. ASSUME NEW r \in Requests, RequestCallback(r)
      PROVE  HeldIsStored'
  BY <1>9 DEF RequestCallback, Goto, Yield
<1>10. ASSUME NEW r \in Requests, SendSelfserviceLink(r)
      PROVE  HeldIsStored'
  BY <1>10 DEF SendSelfserviceLink, SendMessage, Goto, Yield
<1>11. ASSUME NEW r \in Requests, SendKakaoAlimtalk(r)
      PROVE  HeldIsStored'
  BY <1>11 DEF SendKakaoAlimtalk, SendMessage, Goto, Yield
<1>12. ASSUME NEW r \in Requests, StepFails(r)
      PROVE  HeldIsStored'
  BY <1>12 DEF StepFails, Goto, Yield
<1>13. ASSUME NEW r \in Requests, FindTool(r)
      PROVE  HeldIsStored'
  BY <1>13 DEF FindTool, Goto, Yield
<1>14. ASSUME NEW r \in Requests, ReadSecret(r)
      PROVE  HeldIsStored'
  <2>1. r \notin webhooks
    BY <1>14 DEF ReadSecret
  <2>2. r \notin touched => held[r] \in Definition /\ held[r] = tool
    BY <1>14 DEF ReadSecret
  <2>3. r \notin touched => tool # None
    BY <1>14 DEF ReadSecret
  <2>4. r \notin touched => seal'[r] = held[r].secret
    BY <1>14, <2>2, <2>3 DEF ReadSecret
  <2>5. UNCHANGED <<held, tool, touched, webhooks>>
        /\ at'[r] = "webhook" /\ \A q \in Requests \ {r} : at'[q] = at[q] /\ seal'[q] = seal[q]
    BY <1>14 DEF ReadSecret, Goto
  <2>. QED  BY <2>1, <2>2, <2>4, <2>5
<1>15. ASSUME NEW r \in Requests, InvokeWebhook(r)
      PROVE  HeldIsStored'
  BY <1>15 DEF InvokeWebhook, Goto, Yield
<1>16. ASSUME NEW r \in Requests, Trace(r)
      PROVE  HeldIsStored'
  BY <1>16 DEF Trace, Finished, Goto
<1>17. ASSUME NEW r \in Requests, TraceFails(r)
      PROVE  HeldIsStored'
  BY <1>17 DEF TraceFails, Goto
<1>18. ASSUME NEW r \in Requests, Answer(r)
      PROVE  HeldIsStored'
  BY <1>18 DEF Answer
<1>19. ASSUME NEW r \in Requests, AnswerLost(r)
      PROVE  HeldIsStored'
  BY <1>19 DEF AnswerLost
<1>20. CASE EditTool
  BY <1>20 DEF EditTool
<1>21. CASE UNCHANGED vars
  BY <1>21 DEF vars
<1>. QED
  BY <1>1, <1>2, <1>3, <1>4, <1>5, <1>6, <1>7, <1>8, <1>9, <1>10, <1>11, <1>12, <1>13, <1>14, <1>15, <1>16, <1>17, <1>18, <1>19, <1>20, <1>21
     DEF Next, Work

-----------------------------------------------------------------------------
LEMMA InitIInv == Init => IInv
<1>. SUFFICES ASSUME Init PROVE IInv
  OBVIOUS
<1>. USE ToolsAssumption DEF Init
<1>1. TypeOK
  BY DEF TypeOK, Definition, Failures
<1>2. EarlyIsClean /\ StageOfTool /\ OutcomeOfStage
  BY DEF EarlyIsClean, StageOfTool, OutcomeOfStage
<1>3. OkHasItsEffect /\ FailureHasNone /\ TraceSaysOutcome /\ AnsweredIsTraced
  BY DEF OkHasItsEffect, FailureHasNone, TraceSaysOutcome, AnsweredIsTraced
<1>4. StoreIsMatched /\ TicketIsMatched /\ HeldIsStored
  BY DEF StoreIsMatched, TicketIsMatched, HeldIsStored
<1>. QED  BY <1>1, <1>2, <1>3, <1>4 DEF IInv

LEMMA IInvStep == IInv /\ [Next]_vars => IInv'
  BY TypeStep, CleanStep, StageStep, OutcomeStep, OkStep, FailureStep, TraceSaysStep,
     TracedStep, StoreStep, TicketStep, HeldStep
     DEF IInv

THEOREM ToolsInductive == Spec => []IInv
  BY InitIInv, IInvStep, PTL DEF Spec

(***************************************************************************)
(* A ticket is for the subscriber that a lookup of its call matched.       *)
(***************************************************************************)
THEOREM TicketsAreAfterLookup == Spec => []TicketAfterLookup
<1>1. IInv => TicketAfterLookup
  BY DEF IInv, TypeOK, TicketIsMatched, TicketAfterLookup
<1>. QED  BY <1>1, ToolsInductive, PTL

(***************************************************************************)
(* What the voice worker is told is what was done and what was traced.     *)
(***************************************************************************)
THEOREM WhatIsToldIsTrue == Spec => []ToldIsTrue
<1>1. IInv => OkIsDone
  BY DEF IInv, OutcomeOfStage, OkHasItsEffect, AnsweredIsTraced, OkIsDone
<1>2. IInv => ErrorIsNothing
  BY DEF IInv, OutcomeOfStage, FailureHasNone, ErrorIsNothing
<1>3. IInv => TraceIsTrue
  <2>. SUFFICES ASSUME IInv, NEW q \in Requests
                PROVE  /\ ~ (<<q, TRUE>> \in traces /\ <<q, FALSE>> \in traces)
                       /\ <<q, TRUE>> \in traces => at[q] = "ok" /\ Effect(q)
                       /\ at[q] \in {"ok", "error"} /\ q \notin untraced /\ req[q].session \in Rows
                            => \E ok \in BOOLEAN : <<q, ok>> \in traces
    BY DEF TraceIsTrue
  <2>1. \A ok \in BOOLEAN : <<q, ok>> \in traces => at[q] \in {"ok", "error"} /\ ok = (out[q] = "ok")
    BY DEF IInv, TraceSaysOutcome
  <2>2. <<q, TRUE>> \in traces => at[q] = "ok" /\ Effect(q)
    BY <2>1 DEF IInv, OutcomeOfStage, OkHasItsEffect
  <2>3. ~ (<<q, TRUE>> \in traces /\ <<q, FALSE>> \in traces)
    BY <2>1
  <2>4. (out[q] = "ok") \in BOOLEAN
    OBVIOUS
  <2>5. at[q] \in {"ok", "error"} /\ q \notin untraced /\ req[q].session \in Rows
          => \E ok \in BOOLEAN : <<q, ok>> \in traces
    BY <2>4, Zenon DEF IInv, AnsweredIsTraced
  <2>. QED  BY <2>2, <2>3, <2>5
<1>. QED  BY <1>1, <1>2, <1>3, ToolsInductive, PTL DEF IInv, ToldIsTrue

(***************************************************************************)
(* A webhook call is sealed with the secret of its own definition.         *)
(***************************************************************************)
THEOREM WebhooksAreSealed == Spec => []SealedAsDefined
<1>1. IInv => SealedAsDefined
  BY DEF IInv, TypeOK, HeldIsStored, SealedAsDefined
<1>. QED  BY <1>1, ToolsInductive, PTL

-----------------------------------------------------------------------------
(* The sending of messages.                                                *)

\* One step of a message's call, or of the provider's for it.
OneStep(n) == N!SendAlimtalk(n) \/ N!Throw(n) \/ N!Accept(n) \/ N!Receipt(n)

USE MessagesAssumption

LEMMA MessageInit ==
  ASSUME N!Init
  PROVE  N!IInv
  BY DEF N!Init, N!IInv, N!TypeOK, N!Progress, N!SentIsAccepted, N!FailedIsExhausted, N!AttemptsAreSends

\* Each step of a call keeps the types, and moves the record of that call alone.
LEMMA CallTypeOK ==
  ASSUME N!TypeOK, N!Progress, NEW n \in Ids,
         OneStep(n)
  PROVE  N!TypeOK'
<1>. USE DEF OneStep, N!TypeOK, N!Progress, N!record, N!Goto
<1>1. CASE N!Enqueue(n)         BY <1>1 DEF N!Enqueue
<1>2. CASE N!Send(n)
  <2>1. i[n] \in 0 .. MaxAttempts /\ pc[n] = "calling"
    BY <1>2 DEF N!Send
  <2>3. i[n] < MaxAttempts
    BY <2>1
  <2>4. sends[n] = i[n]
    BY <2>1
  <2>2. sends[n] + 1 \in 0 .. MaxAttempts
    BY <2>1, <2>3, <2>4
  <2>. QED  BY <1>2, <2>2 DEF N!Send
<1>3. CASE N!NoteSuccess(n)     BY <1>3 DEF N!NoteSuccess
<1>4. CASE N!NoteError(n)       BY <1>4 DEF N!NoteError
<1>5. CASE N!Retry(n)           BY <1>5 DEF N!Retry
<1>6. CASE N!GiveUp(n)          BY <1>6 DEF N!GiveUp
<1>7. CASE N!RecordSent(n)      BY <1>7 DEF N!RecordSent
<1>8. CASE N!RecordFailed(n)    BY <1>8 DEF N!RecordFailed
<1>9. CASE N!Throw(n)           BY <1>9 DEF N!Throw
<1>10. CASE N!Accept(n)         BY <1>10 DEF N!Accept
<1>11. CASE N!Receipt(n)  BY <1>11 DEF N!Receipt, N!ReceiptIsKnown, N!MarkDelivered
<1>. QED
  BY <1>1, <1>2, <1>3, <1>4, <1>5, <1>6, <1>7, <1>8, <1>9, <1>10, <1>11
     DEF N!SendAlimtalk

LEMMA CallProgress ==
  ASSUME N!TypeOK, N!Progress, NEW n \in Ids,
         OneStep(n)
  PROVE  N!Progress'
<1>. USE DEF OneStep, N!TypeOK, N!Progress, N!record, N!Goto
<1>1. CASE N!Enqueue(n)         BY <1>1 DEF N!Enqueue
<1>2. CASE N!Send(n)            BY <1>2 DEF N!Send
<1>3. CASE N!NoteSuccess(n)     BY <1>3 DEF N!NoteSuccess
<1>4. CASE N!NoteError(n)       BY <1>4 DEF N!NoteError
<1>5. CASE N!Retry(n)           BY <1>5 DEF N!Retry
<1>6. CASE N!GiveUp(n)          BY <1>6 DEF N!GiveUp
<1>7. CASE N!RecordSent(n)      BY <1>7 DEF N!RecordSent
<1>8. CASE N!RecordFailed(n)    BY <1>8 DEF N!RecordFailed
<1>9. CASE N!Throw(n)           BY <1>9 DEF N!Throw
<1>10. CASE N!Accept(n)         BY <1>10 DEF N!Accept
<1>11. CASE N!Receipt(n)  BY <1>11 DEF N!Receipt, N!ReceiptIsKnown, N!MarkDelivered
<1>. QED
  BY <1>1, <1>2, <1>3, <1>4, <1>5, <1>6, <1>7, <1>8, <1>9, <1>10, <1>11
     DEF N!SendAlimtalk

\* The stated properties are consequences of the position of the call, but for
\* the error on record, which a step sets or clears with the status.
LEMMA CallSentIsAccepted ==
  ASSUME N!TypeOK, N!Progress, NEW n \in Ids,
         OneStep(n)
  PROVE  N!SentIsAccepted => N!SentIsAccepted'
<1>. USE DEF OneStep, N!TypeOK, N!Progress, N!SentIsAccepted, N!record, N!Goto
<1>1. CASE N!Enqueue(n)         BY <1>1 DEF N!Enqueue
<1>2. CASE N!Send(n)            BY <1>2 DEF N!Send
<1>3. CASE N!NoteSuccess(n)     BY <1>3 DEF N!NoteSuccess
<1>4. CASE N!NoteError(n)       BY <1>4 DEF N!NoteError
<1>5. CASE N!Retry(n)           BY <1>5 DEF N!Retry
<1>6. CASE N!GiveUp(n)          BY <1>6 DEF N!GiveUp
<1>7. CASE N!RecordSent(n)      BY <1>7 DEF N!RecordSent
<1>8. CASE N!RecordFailed(n)    BY <1>8 DEF N!RecordFailed
<1>9. CASE N!Throw(n)           BY <1>9 DEF N!Throw
<1>10. CASE N!Accept(n)         BY <1>10 DEF N!Accept
<1>11. CASE N!Receipt(n)  BY <1>11 DEF N!Receipt, N!ReceiptIsKnown, N!MarkDelivered
<1>. QED
  BY <1>1, <1>2, <1>3, <1>4, <1>5, <1>6, <1>7, <1>8, <1>9, <1>10, <1>11
     DEF N!SendAlimtalk

LEMMA CallFailedIsExhausted ==
  ASSUME N!TypeOK, N!Progress, NEW n \in Ids,
         OneStep(n)
  PROVE  N!FailedIsExhausted => N!FailedIsExhausted'
<1>. USE DEF OneStep, N!TypeOK, N!Progress, N!FailedIsExhausted, N!record, N!Goto
<1>1. CASE N!Enqueue(n)         BY <1>1 DEF N!Enqueue
<1>2. CASE N!Send(n)            BY <1>2 DEF N!Send
<1>3. CASE N!NoteSuccess(n)     BY <1>3 DEF N!NoteSuccess
<1>4. CASE N!NoteError(n)       BY <1>4 DEF N!NoteError
<1>5. CASE N!Retry(n)           BY <1>5 DEF N!Retry
<1>6. CASE N!GiveUp(n)          BY <1>6 DEF N!GiveUp
<1>7. CASE N!RecordSent(n)      BY <1>7 DEF N!RecordSent
<1>8. CASE N!RecordFailed(n)
  <2>1. attempts[n] = MaxAttempts /\ sends[n] = MaxAttempts
    BY <1>8 DEF N!RecordFailed
  <2>2. ~(msgId[n] > 0) /\ msgId[n] \in 0 .. MaxAttempts
    BY <1>8 DEF N!RecordFailed
  <2>3. msgId[n] = 0
    BY <2>2
  <2>. QED  BY <1>8, <2>1, <2>3 DEF N!RecordFailed
<1>9. CASE N!Throw(n)           BY <1>9 DEF N!Throw
<1>10. CASE N!Accept(n)         BY <1>10 DEF N!Accept
<1>11. CASE N!Receipt(n)  BY <1>11 DEF N!Receipt, N!ReceiptIsKnown, N!MarkDelivered
<1>. QED
  BY <1>1, <1>2, <1>3, <1>4, <1>5, <1>6, <1>7, <1>8, <1>9, <1>10, <1>11
     DEF N!SendAlimtalk

LEMMA CallAttemptsAreSends ==
  ASSUME N!TypeOK, N!Progress, NEW n \in Ids,
         OneStep(n)
  PROVE  N!AttemptsAreSends => N!AttemptsAreSends'
<1>. USE DEF OneStep, N!TypeOK, N!Progress, N!AttemptsAreSends, N!record, N!Goto
<1>1. CASE N!Enqueue(n)         BY <1>1 DEF N!Enqueue
<1>2. CASE N!Send(n)            BY <1>2 DEF N!Send
<1>3. CASE N!NoteSuccess(n)     BY <1>3 DEF N!NoteSuccess
<1>4. CASE N!NoteError(n)       BY <1>4 DEF N!NoteError
<1>5. CASE N!Retry(n)           BY <1>5 DEF N!Retry
<1>6. CASE N!GiveUp(n)          BY <1>6 DEF N!GiveUp
<1>7. CASE N!RecordSent(n)      BY <1>7 DEF N!RecordSent
<1>8. CASE N!RecordFailed(n)    BY <1>8 DEF N!RecordFailed
<1>9. CASE N!Throw(n)           BY <1>9 DEF N!Throw
<1>10. CASE N!Accept(n)         BY <1>10 DEF N!Accept
<1>11. CASE N!Receipt(n)  BY <1>11 DEF N!Receipt, N!ReceiptIsKnown, N!MarkDelivered
<1>. QED
  BY <1>1, <1>2, <1>3, <1>4, <1>5, <1>6, <1>7, <1>8, <1>9, <1>10, <1>11
     DEF N!SendAlimtalk

LEMMA MessageStep ==
  ASSUME N!IInv, [N!Next]_N!vars
  PROVE  N!IInv'
<1>1. CASE N!Next
  BY <1>1, CallTypeOK, CallProgress, CallSentIsAccepted, CallFailedIsExhausted,
     CallAttemptsAreSends DEF N!Next, OneStep, N!IInv
<1>2. CASE UNCHANGED N!vars
  BY <1>2 DEF N!IInv, N!TypeOK, N!Progress, N!SentIsAccepted, N!FailedIsExhausted,
     N!AttemptsAreSends, N!vars, N!record
<1>. QED  BY <1>1, <1>2

\* The inductive invariant holds in every state of the service.
THEOREM MessagesInductive == N!Spec => []N!IInv
<1>1. N!Init => N!IInv
  BY MessageInit
<1>2. N!IInv /\ [N!Next]_N!vars => N!IInv'
  BY MessageStep
<1>. QED  BY <1>1, <1>2, PTL DEF N!Spec

\* A message on record as sent or delivered was taken over by the provider.
THEOREM SentOnlyIfAccepted == N!Spec => []N!SentIsAccepted
<1>1. N!IInv => N!SentIsAccepted  BY DEF N!IInv
<1>. QED  BY <1>1, MessagesInductive, PTL

\* A message on record as failed used up its attempts.
THEOREM FailedOnlyIfExhausted == N!Spec => []N!FailedIsExhausted
<1>1. N!IInv => N!FailedIsExhausted  BY DEF N!IInv
<1>. QED  BY <1>1, MessagesInductive, PTL

-----------------------------------------------------------------------------
(* Refinement: what each step is to a reader of the status.                *)

LEMMA QueuedInCall ==
  ASSUME N!IInv, NEW n \in Ids,
         pc[n] \in {"calling", "sending", "succeeded", "erred", "exhausted"}
  PROVE  status[n] = "queued"
  BY DEF N!IInv, N!TypeOK, N!Progress

LEMMA CallRefines ==
  ASSUME N!IInv, NEW n \in Ids,
         OneStep(n)
  PROVE  N!Abstract!Next \/ UNCHANGED <<status, N!TakenOver>>
<1>. USE DEF OneStep, N!Goto, N!record
<1>1. CASE N!Enqueue(n)
  <2>1. status[n] = "none" /\ UNCHANGED N!TakenOver
    BY <1>1 DEF N!Enqueue, N!IInv, N!Progress, N!TakenOver
  <2>2. N!Abstract!Queue(n)
    BY <1>1, <2>1 DEF N!Enqueue, N!Abstract!Queue, N!Abstract!Move
  <2>. QED  BY <2>2 DEF N!Abstract!Next
<1>2. CASE N!Accept(n)
  <2>1. status[n] = "queued" /\ UNCHANGED status
    BY <1>2, QueuedInCall DEF N!Accept
  <2>2. i[n] + 1 \in 1 .. MaxAttempts
    <3>1. i[n] \in 0 .. MaxAttempts /\ pc[n] = "sending"
      BY <1>2 DEF N!Accept, N!IInv, N!TypeOK
    <3>2. i[n] < MaxAttempts
      BY <3>1 DEF N!IInv, N!Progress
    <3>. QED  BY <3>1, <3>2
  <2>3. N!TakenOver' = N!TakenOver \cup {n}
    BY <1>2, <2>2 DEF N!Accept, N!TakenOver
  <2>. QED  BY <2>1, <2>3 DEF N!Abstract!Accept, N!Abstract!Next
<1>3. CASE N!RecordSent(n)
  <2>1. status[n] = "queued" /\ UNCHANGED N!TakenOver
    BY <1>3, QueuedInCall DEF N!RecordSent, N!TakenOver
  <2>2. <<n, i[n] + 1>> \in accepted /\ accepted \subseteq Ids \X (1 .. MaxAttempts)
    BY <1>3 DEF N!RecordSent, N!IInv, N!Progress, N!TypeOK
  <2>3. n \in N!TakenOver
    BY <2>2 DEF N!TakenOver
  <2>. QED
    BY <1>3, <2>1, <2>3 DEF N!RecordSent, N!Abstract!Sent, N!Abstract!Move, N!Abstract!Next
<1>4. CASE N!RecordFailed(n)
  <2>1. status[n] = "queued" /\ UNCHANGED N!TakenOver
    BY <1>4, QueuedInCall DEF N!RecordFailed, N!TakenOver
  <2>. QED
    BY <1>4, <2>1 DEF N!RecordFailed, N!Abstract!Fail, N!Abstract!Move, N!Abstract!Next
<1>5. CASE N!Receipt(n)
  <2>1. status[n] \in {"sent", "delivered"} /\ UNCHANGED N!TakenOver
    BY <1>5 DEF N!Receipt, N!ReceiptIsKnown, N!MarkDelivered, N!IInv, N!Progress, N!TakenOver
  <2>2. CASE status[n] = "sent"
    BY <1>5, <2>1, <2>2
       DEF N!Receipt, N!ReceiptIsKnown, N!MarkDelivered, N!Abstract!Deliver, N!Abstract!Move, N!Abstract!Next
  <2>3. CASE status[n] = "delivered"
    BY <1>5, <2>1, <2>3 DEF N!Receipt, N!ReceiptIsKnown, N!MarkDelivered, N!IInv, N!TypeOK
  <2>. QED  BY <2>1, <2>2, <2>3
<1>6. CASE N!Send(n) \/ N!NoteSuccess(n) \/ N!NoteError(n) \/ N!Retry(n) \/ N!GiveUp(n) \/ N!Throw(n)
  BY <1>6 DEF N!Send, N!NoteSuccess, N!NoteError, N!Retry, N!GiveUp, N!Throw, N!TakenOver
<1>. QED
  BY <1>1, <1>2, <1>3, <1>4, <1>5, <1>6 DEF N!SendAlimtalk

\* The service implements the life of a notification record.
THEOREM StatusIsDelivery == N!Spec => ImplementsStatus
<1>1. N!Init => N!Abstract!Init
  BY DEF N!Init, N!Abstract!Init, N!TakenOver
<1>2. N!IInv /\ [N!Next]_N!vars => [N!Abstract!Next]_<<status, N!TakenOver>>
  BY CallRefines DEF N!Next, OneStep, N!vars, N!record, N!TakenOver
<1>. QED
  BY <1>1, <1>2, MessagesInductive, PTL
     DEF N!Spec, ImplementsStatus, N!ImplementsStatus, N!Abstract!Spec
=============================================================================
