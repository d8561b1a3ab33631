-------------------------- MODULE VoiceSessionProofs --------------------------
(***************************************************************************)
(* Theorems about SessionHandler for any calls, any number of copies of a  *)
(* webhook, any length of the agent loop and any adapter failures.         *)
(* The inductive invariant is IInv (VoiceSessionProps); it is proved in    *)
(* layers, each from the layers before it:                                 *)
(*   1. StateOK and HandlersOK;                                            *)
(*   2. DisclosureProgress, NothingBeforeDisclosure, RecordingAfterConsent;*)
(*   3. AnsweredIsFindable, AnswerNotDropped;                              *)
(* and beside it, each with its own invariant,                             *)
(*   4. OutcomeInv: sessions are kept apart, outcomes filed as they are;   *)
(*   5. FilingInv: words and recordings are filed for a caller who agreed, *)
(*      and the ledger is kept;                                            *)
(*   6. TearDownInv: after its end nothing of a call is left behind.       *)
(***************************************************************************)
EXTENDS VoiceSessionProps, TLAPS

LEMMA PostFields == ASSUME NEW p \in Posts
                    PROVE  p.call \in Calls /\ p.type \in EventTypes /\ p.copy \in Copies
  BY DEF Posts

LEMMA PostType == ASSUME NEW e \in EventTypes, NEW c \in Calls
                  PROVE  /\ Post(e, c) \in Posts
                         /\ Post(e, c).type = e /\ Post(e, c).call = c
  BY CopiesAssumption DEF Post, Posts, Copies

LEMMA CopyType == ASSUME NEW p \in Posts, p.copy < MaxCopies
                  PROVE  /\ NextCopy(p) \in Posts
                         /\ NextCopy(p).type = p.type /\ NextCopy(p).call = p.call
  BY PostFields, CopiesAssumption DEF NextCopy, Posts, Copies

LEMMA SessionType == ASSUME NEW c \in Calls
                     PROVE  /\ SessionsOf(c) \subseteq Sessions
                            /\ None \notin SessionsOf(c)
                            /\ \A n \in Copies : <<c, n>> \in SessionsOf(c)
  BY NoneAssumption DEF SessionsOf, Sessions, Copies

LEMMA OutcomeType == ASSUME NEW t \in Tools
                     PROVE  OutcomeForTool(t) \in Outcomes
  BY DEF OutcomeForTool, Outcomes

-----------------------------------------------------------------------------
(* Layer 1: types, and what a handler works on.                            *)

LEMMA InHand ==
  ASSUME StateOK, HandlersOK, NEW p \in Posts
  PROVE  /\ pc[p] \in InCall => at[p] \in Sessions /\ at[p] \in SessionsOf(p.call)
         /\ pc[p] \in InTool => tool[p] \in Tools
         /\ live[p.call] # None => /\ live[p.call] \in Sessions
                                   /\ live[p.call] \in SessionsOf(p.call)
  BY PostFields, SessionType DEF HandlersOK

LEMMA InitStateOK == Init => StateOK
  BY TurnsAssumption, CopiesAssumption DEF Init, StateOK

LEMMA InitHandlersOK == Init => HandlersOK
  BY PostFields, SessionType
     DEF Init, HandlersOK, InTool, InAgent, InAnswered, InEnded, InCall, Disclosing

LEMMA TelephonyStateOK ==
  ASSUME StateOK, NEW c \in Calls, Telephony(c)
  PROVE  StateOK'
<1>. USE PostType DEF StateOK, EventTypes, handlers, memory, store, flags, tables
<1>1. CASE Arrive(c)         BY <1>1 DEF Arrive
<1>2. CASE Connect(c)        BY <1>2 DEF Connect
<1>3. CASE CallerHangsUp(c)  BY <1>3 DEF CallerHangsUp
<1>4. CASE RecordingReady(c) BY <1>4 DEF RecordingReady
<1>. QED  BY <1>1, <1>2, <1>3, <1>4 DEF Telephony

LEMMA RedeliverStateOK ==
  ASSUME StateOK, NEW p \in Posts, Redeliver(p)
  PROVE  StateOK'
  BY CopyType DEF Redeliver, StateOK, handlers, memory, store, flags, tables

\* What the telephone side leaves alone.
LEMMA TelephonyFrame ==
  ASSUME (\E c \in Calls : Telephony(c)) \/ (\E p \in Posts : Redeliver(p))
  PROVE  /\ posts \subseteq posts'
         /\ UNCHANGED <<recording, transferred, handlers, memory, store>>
  BY DEF Telephony, Arrive, Connect, CallerHangsUp, RecordingReady, Redeliver

LEMMA NextTurnStateOK ==
  ASSUME StateOK, NEW p \in Posts, NextTurn(p)
  PROVE  /\ pc' \in [Posts -> {"idle"} \cup Running \cup Finished]
         /\ at' = at /\ tool' = tool
         /\ turn' \in [Posts -> 0 .. MaxTurns]
<1>1. turn[p] < MaxTurns => turn[p] + 1 \in 0 .. MaxTurns
  BY TurnsAssumption DEF StateOK
<1>. QED  BY <1>1 DEF NextTurn, StateOK, Running, Finished

LEMMA NextTurnMoves ==
  ASSUME StateOK, NEW p \in Posts, NextTurn(p)
  PROVE  /\ pc'[p] \in {"next", "done"} /\ at' = at /\ tool' = tool
         /\ \A q \in Posts : q # p => pc'[q] = pc[q]
  BY DEF NextTurn, StateOK

LEMMA SetupStateOK ==
  ASSUME StateOK, HandlersOK, NEW p \in Posts,
         OnInitiated(p) \/ ResolveUnknown(p) \/ AnswerUnknown(p) \/
         ResolveKnown(p) \/ Replied(p)
  PROVE  StateOK'
<1>. USE PostFields DEF StateOK, telephone, memory, store, flags, tables,
         Goto, GotoAt, Return, Running, Finished
<1>a. /\ pc[p] \in InCall => at[p] \in Sessions
      /\ pc[p] \in InTool => tool[p] \in Tools
      /\ live[p.call] # None => live[p.call] \in Sessions
  BY InHand
<1>1. CASE OnInitiated(p)
  BY <1>1, CopiesAssumption DEF OnInitiated, Starts, Sessions, Copies
<1>2. CASE ResolveUnknown(p)
  BY <1>2, <1>a DEF ResolveUnknown, InCall, Outcomes
<1>3. CASE AnswerUnknown(p)
  BY <1>3 DEF AnswerUnknown, Answer
<1>4. CASE ResolveKnown(p)
  BY <1>4, <1>a DEF ResolveKnown, Register, Answer, InCall
<1>5. CASE Replied(p)
  BY <1>5 DEF Replied
<1>. QED
  BY <1>1, <1>2, <1>3, <1>4, <1>5

LEMMA AnsweredStateOK ==
  ASSUME StateOK, HandlersOK, NEW p \in Posts,
         OnAnsweredUnknown(p) \/ Drop(p) \/ Dropped(p) \/ OnAnsweredMissing(p) \/
         OnAnswered(p) \/ ConsentToAI(p) \/ ConsentToRecording(p) \/
         NoteDisclosure(p) \/ StartRecording(p) \/ StartAgent(p)
  PROVE  StateOK'
<1>. USE PostFields DEF StateOK, telephone, memory, store, flags, tables,
         Goto, GotoAt, Return, Running, Finished
<1>a. /\ pc[p] \in InCall => at[p] \in Sessions
      /\ pc[p] \in InTool => tool[p] \in Tools
      /\ live[p.call] # None => live[p.call] \in Sessions
  BY InHand
<1>1. CASE OnAnsweredUnknown(p)
  BY <1>1 DEF OnAnsweredUnknown, Starts
<1>2. CASE Drop(p)
  BY <1>2, PostType DEF Drop, HangUp, EventTypes
<1>3. CASE Dropped(p)
  BY <1>3 DEF Dropped
<1>4. CASE OnAnsweredMissing(p)
  BY <1>4 DEF OnAnsweredMissing, Starts
<1>5. CASE OnAnswered(p)
  BY <1>5, <1>a DEF OnAnswered, Starts
<1>6. CASE ConsentToAI(p)
  BY <1>6, <1>a
     DEF ConsentToAI, RecordConsent, InCall, Disclosing, ConsentKinds
<1>7. CASE ConsentToRecording(p)
  BY <1>7, <1>a
     DEF ConsentToRecording, RecordConsent, InCall, Disclosing, ConsentKinds
<1>8. CASE NoteDisclosure(p)
  BY <1>8, <1>a
     DEF NoteDisclosure, AppendTranscript, InCall, Disclosing, Roles
<1>9. CASE StartRecording(p)
  BY <1>9 DEF StartRecording
<1>10. CASE StartAgent(p)
  BY <1>10, NextTurnStateOK DEF StartAgent
<1>. QED
  BY <1>1, <1>2, <1>3, <1>4, <1>5, <1>6, <1>7, <1>8, <1>9, <1>10

LEMMA AgentStateOK ==
  ASSUME StateOK, HandlersOK, NEW p \in Posts,
         AgentDone(p) \/ Converse(p) \/ BargeIn(p) \/ InvokeTool(p) \/
         TraceTool(p) \/ IdentifySubscriber(p) \/ ToolSucceeded(p) \/
         ToolErred(p) \/ FinalHangUp(p) \/ FinalTransfer(p) \/ Transferred(p)
  PROVE  StateOK'
<1>. USE PostFields DEF StateOK, telephone, memory, store, flags, tables,
         Goto, GotoAt, Return, Running, Finished
<1>a. /\ pc[p] \in InCall => at[p] \in Sessions
      /\ pc[p] \in InTool => tool[p] \in Tools
      /\ live[p.call] # None => live[p.call] \in Sessions
  BY InHand
<1>1. CASE AgentDone(p)
  BY <1>1 DEF AgentDone
<1>2. CASE Converse(p)
  BY <1>2, <1>a, NextTurnStateOK
     DEF Converse, AppendTranscript, InCall, InAgent, InTool, Roles
<1>3. CASE BargeIn(p)
  BY <1>3, NextTurnStateOK DEF BargeIn
<1>4. CASE InvokeTool(p)
  BY <1>4 DEF InvokeTool
<1>5. CASE TraceTool(p)
  BY <1>5, <1>a DEF TraceTool, InCall, InAgent, InTool
<1>6. CASE IdentifySubscriber(p)
  BY <1>6, <1>a DEF IdentifySubscriber, InCall, InAgent, InTool
<1>7. CASE ToolSucceeded(p)
  BY <1>7, <1>a, NextTurnStateOK, OutcomeType
     DEF ToolSucceeded, SetOutcome, InCall, InAgent, InTool
<1>8. CASE ToolErred(p)
  BY <1>8, <1>a, NextTurnStateOK
     DEF ToolErred, SetOutcome, InCall, InAgent, InTool, Outcomes
<1>9. CASE FinalHangUp(p)
  BY <1>9, PostType DEF FinalHangUp, HangUp, EventTypes
<1>10. CASE FinalTransfer(p)
  BY <1>10 DEF FinalTransfer
<1>11. CASE Transferred(p)
  BY <1>11, <1>a DEF Transferred, InCall, InAgent, InTool, Outcomes
<1>. QED
  BY <1>1, <1>2, <1>3, <1>4, <1>5, <1>6, <1>7, <1>8, <1>9, <1>10, <1>11

LEMMA EndStateOK ==
  ASSUME StateOK, HandlersOK, NEW p \in Posts,
         OnEndedMissing(p) \/ OnEnded(p) \/ CloseAgent(p) \/ Forget(p) \/
         OnRecording(p) \/ SaveRecording(p) \/ SaveTranscript(p) \/ Throw(p)
  PROVE  StateOK'
<1>. USE PostFields DEF StateOK, telephone, memory, store, flags, tables,
         Goto, GotoAt, Return, Running, Finished
<1>a. /\ pc[p] \in InCall => at[p] \in Sessions
      /\ pc[p] \in InTool => tool[p] \in Tools
      /\ live[p.call] # None => live[p.call] \in Sessions
  BY InHand
<1>1. CASE OnEndedMissing(p)
  BY <1>1 DEF OnEndedMissing, Starts
<1>2. CASE OnEnded(p)
  BY <1>2, <1>a DEF OnEnded, Starts, OutcomeOrOther, Outcomes
<1>3. CASE CloseAgent(p)
  BY <1>3, <1>a DEF CloseAgent, InCall, InEnded
<1>4. CASE Forget(p)
  BY <1>4 DEF Forget
<1>5. CASE OnRecording(p)
  BY <1>5, CopiesAssumption DEF OnRecording, Starts, Sessions, Copies
<1>6. CASE SaveRecording(p)
  BY <1>6, <1>a DEF SaveRecording, InCall
<1>7. CASE SaveTranscript(p)
  BY <1>7, <1>a DEF SaveTranscript, AppendTranscript, InCall, Roles
<1>8. CASE Throw(p)
  BY <1>8 DEF Throw
<1>. QED
  BY <1>1, <1>2, <1>3, <1>4, <1>5, <1>6, <1>7, <1>8

LEMMA TelephonyHandlersOK ==
  ASSUME StateOK, HandlersOK,
         (\E c \in Calls : Telephony(c)) \/ (\E p \in Posts : Redeliver(p))
  PROVE  HandlersOK'
  BY TelephonyFrame DEF HandlersOK, handlers, memory

LEMMA SetupHandlersOK ==
  ASSUME StateOK, HandlersOK, NEW p \in Posts,
         OnInitiated(p) \/ ResolveUnknown(p) \/ AnswerUnknown(p) \/
         ResolveKnown(p) \/ Replied(p)
  PROVE  HandlersOK'
<1>. USE PostFields, SessionType
    DEF StateOK, HandlersOK, telephone, memory, store, flags, tables, handlers,
        Goto, GotoAt, Return, Finished,
        InTool, InAgent, InAnswered, InEnded, InCall, Disclosing
<1>1. CASE OnInitiated(p)
  BY <1>1, CopiesAssumption DEF OnInitiated, Starts, Copies
<1>2. CASE ResolveUnknown(p)
  BY <1>2 DEF ResolveUnknown
<1>3. CASE AnswerUnknown(p)
  BY <1>3 DEF AnswerUnknown, Answer
<1>4. CASE ResolveKnown(p)
  BY <1>4 DEF ResolveKnown, Register, Answer
<1>5. CASE Replied(p)
  BY <1>5 DEF Replied
<1>. QED
  BY <1>1, <1>2, <1>3, <1>4, <1>5

LEMMA AnsweredHandlersOK ==
  ASSUME StateOK, HandlersOK, NEW p \in Posts,
         OnAnsweredUnknown(p) \/ Drop(p) \/ Dropped(p) \/ OnAnsweredMissing(p) \/
         OnAnswered(p) \/ ConsentToAI(p) \/ ConsentToRecording(p) \/
         NoteDisclosure(p) \/ StartRecording(p) \/ StartAgent(p)
  PROVE  HandlersOK'
<1>. USE PostFields, SessionType
    DEF StateOK, HandlersOK, telephone, memory, store, flags, tables, handlers,
        Goto, GotoAt, Return, Finished,
        InTool, InAgent, InAnswered, InEnded, InCall, Disclosing
<1>1. CASE OnAnsweredUnknown(p)
  BY <1>1 DEF OnAnsweredUnknown, Starts
<1>2. CASE Drop(p)
  BY <1>2, PostType DEF Drop, HangUp
<1>3. CASE Dropped(p)
  BY <1>3 DEF Dropped
<1>4. CASE OnAnsweredMissing(p)
  BY <1>4 DEF OnAnsweredMissing, Starts
<1>5. CASE OnAnswered(p)
  BY <1>5 DEF OnAnswered, Starts
<1>6. CASE ConsentToAI(p)
  BY <1>6 DEF ConsentToAI, RecordConsent
<1>7. CASE ConsentToRecording(p)
  BY <1>7 DEF ConsentToRecording, RecordConsent
<1>8. CASE NoteDisclosure(p)
  BY <1>8 DEF NoteDisclosure, AppendTranscript
<1>9. CASE StartRecording(p)
  BY <1>9 DEF StartRecording
<1>10. CASE StartAgent(p)
  BY <1>10, NextTurnMoves DEF StartAgent
<1>. QED
  BY <1>1, <1>2, <1>3, <1>4, <1>5, <1>6, <1>7, <1>8, <1>9, <1>10

LEMMA AgentHandlersOK ==
  ASSUME StateOK, HandlersOK, NEW p \in Posts,
         AgentDone(p) \/ Converse(p) \/ BargeIn(p) \/ InvokeTool(p) \/
         TraceTool(p) \/ IdentifySubscriber(p) \/ ToolSucceeded(p) \/
         ToolErred(p) \/ FinalHangUp(p) \/ FinalTransfer(p) \/ Transferred(p)
  PROVE  HandlersOK'
<1>. USE PostFields, SessionType
    DEF StateOK, HandlersOK, telephone, memory, store, flags, tables, handlers,
        Goto, GotoAt, Return, Finished,
        InTool, InAgent, InAnswered, InEnded, InCall, Disclosing
<1>1. CASE AgentDone(p)
  BY <1>1 DEF AgentDone
<1>2. CASE Converse(p)
  BY <1>2, NextTurnMoves DEF Converse, AppendTranscript
<1>3. CASE BargeIn(p)
  BY <1>3, NextTurnMoves DEF BargeIn
<1>4. CASE InvokeTool(p)
  BY <1>4 DEF InvokeTool
<1>5. CASE TraceTool(p)
  BY <1>5 DEF TraceTool
<1>6. CASE IdentifySubscriber(p)
  BY <1>6 DEF IdentifySubscriber
<1>7. CASE ToolSucceeded(p)
  BY <1>7, NextTurnMoves DEF ToolSucceeded, SetOutcome
<1>8. CASE ToolErred(p)
  BY <1>8, NextTurnMoves DEF ToolErred, SetOutcome
<1>9. CASE FinalHangUp(p)
  BY <1>9, PostType DEF FinalHangUp, HangUp
<1>10. CASE FinalTransfer(p)
  BY <1>10 DEF FinalTransfer
<1>11. CASE Transferred(p)
  BY <1>11 DEF Transferred
<1>. QED
  BY <1>1, <1>2, <1>3, <1>4, <1>5, <1>6, <1>7, <1>8, <1>9, <1>10, <1>11

LEMMA EndHandlersOK ==
  ASSUME StateOK, HandlersOK, NEW p \in Posts,
         OnEndedMissing(p) \/ OnEnded(p) \/ CloseAgent(p) \/ Forget(p) \/
         OnRecording(p) \/ SaveRecording(p) \/ SaveTranscript(p) \/ Throw(p)
  PROVE  HandlersOK'
<1>. USE PostFields, SessionType
    DEF StateOK, HandlersOK, telephone, memory, store, flags, tables, handlers,
        Goto, GotoAt, Return, Finished,
        InTool, InAgent, InAnswered, InEnded, InCall, Disclosing
<1>1. CASE OnEndedMissing(p)
  BY <1>1 DEF OnEndedMissing, Starts
<1>2. CASE OnEnded(p)
  BY <1>2 DEF OnEnded, Starts
<1>3. CASE CloseAgent(p)
  BY <1>3 DEF CloseAgent
<1>4. CASE Forget(p)
  BY <1>4 DEF Forget
<1>5. CASE OnRecording(p)
  BY <1>5, CopiesAssumption DEF OnRecording, Starts, Copies
<1>6. CASE SaveRecording(p)
  BY <1>6 DEF SaveRecording
<1>7. CASE SaveTranscript(p)
  BY <1>7 DEF SaveTranscript, AppendTranscript
<1>8. CASE Throw(p)
  BY <1>8 DEF Throw
<1>. QED
  BY <1>1, <1>2, <1>3, <1>4, <1>5, <1>6, <1>7, <1>8

-----------------------------------------------------------------------------
(* What the step of a handler p may do, for the layers above.              *)

\* It moves p alone, forwards, and takes nothing out of the tables.
MovesAlone(p) ==
  /\ \A q \in Posts : q # p => pc'[q] = pc[q] /\ at'[q] = at[q]
  /\ p \in posts /\ posts \subseteq posts'
  /\ \A q \in posts' : q \in posts \/ q.type = "ended"
  /\ consents \subseteq consents' /\ transcripts \subseteq transcripts'
  /\ pc[p] \notin Finished /\ pc'[p] # "idle"
  /\ pc'[p] = "ignored" => pc[p] = "idle"

\* It comes to the agent through the disclosure, and only then works and records.
ThroughDisclosure(p) ==
  /\ pc'[p] = "consenting" => <<at'[p], "ai_disclosure">> \in consents'
  /\ pc'[p] \in {"consented"} \cup InAgent =>
       /\ at'[p] = at[p]
       /\ \/ pc[p] \in {"consented"} \cup InAgent
          \/ (pc[p] = "consenting" /\ <<at[p], "recording">> \in consents')
  /\ pc'[p] \in InAgent =>
       pc[p] \in InAgent \/ <<at[p], "system">> \in transcripts'
  /\ \A s \in Sessions : Worked(s)' => Worked(s) \/ (pc[p] \in InAgent /\ s = at[p])
  /\ \A c \in Calls :
       c \in recording' => c \in recording \/ (pc[p] \in InAgent /\ c = p.call)

\* It lets go of a call that was answered only when it has taken it up or ended.
LetsGo(p) ==
  /\ \A c \in Calls :
       /\ live[c] # None /\ live'[c] = None =>
            c = p.call /\ pc[p] \in InEnded /\ pc'[p] \in Finished
       /\ c \in unknown /\ c \notin unknown' =>
            /\ c = p.call
            /\ \/ p.type = "ended" /\ pc'[p] \in Finished
               \/ p.type = "answered" /\ pc'[p] = "done"
               \/ live'[c] # None
       /\ line'[c] = "accepted" =>
            \/ line[c] = "accepted"
            \/ c = p.call /\ (pc[p] = "refusing" \/ live'[c] # None)
  /\ pc'[p] = "refusing" => p.call \in unknown'
  /\ p.type = "answered" /\ pc'[p] = "ignored" =>
       live[p.call] = None /\ p.call \notin unknown

LEMMA SetupMovesAlone ==
  ASSUME StateOK, HandlersOK, NEW p \in Posts,
         OnInitiated(p) \/ ResolveUnknown(p) \/ AnswerUnknown(p) \/
         ResolveKnown(p) \/ Replied(p)
  PROVE  MovesAlone(p)
<1>. USE PostFields
    DEF MovesAlone, HandlersOK, StateOK, telephone, memory, store, flags, tables, handlers,
        Goto, GotoAt, Return, Finished
<1>1. CASE OnInitiated(p)
  BY <1>1, CopiesAssumption DEF OnInitiated, Starts
<1>2. CASE ResolveUnknown(p)
  BY <1>2 DEF ResolveUnknown
<1>3. CASE AnswerUnknown(p)
  BY <1>3 DEF AnswerUnknown, Answer
<1>4. CASE ResolveKnown(p)
  BY <1>4 DEF ResolveKnown, Register, Answer
<1>5. CASE Replied(p)
  BY <1>5 DEF Replied
<1>. QED
  BY <1>1, <1>2, <1>3, <1>4, <1>5

LEMMA AnsweredMovesAlone ==
  ASSUME StateOK, HandlersOK, NEW p \in Posts,
         OnAnsweredUnknown(p) \/ Drop(p) \/ Dropped(p) \/ OnAnsweredMissing(p) \/
         OnAnswered(p) \/ ConsentToAI(p) \/ ConsentToRecording(p) \/
         NoteDisclosure(p) \/ StartRecording(p) \/ StartAgent(p)
  PROVE  MovesAlone(p)
<1>. USE PostFields
    DEF MovesAlone, HandlersOK, StateOK, telephone, memory, store, flags, tables, handlers,
        Goto, GotoAt, Return, Finished
<1>1. CASE OnAnsweredUnknown(p)
  BY <1>1 DEF OnAnsweredUnknown, Starts
<1>2. CASE Drop(p)
  BY <1>2, PostType DEF Drop, HangUp, EventTypes
<1>3. CASE Dropped(p)
  BY <1>3 DEF Dropped
<1>4. CASE OnAnsweredMissing(p)
  BY <1>4 DEF OnAnsweredMissing, Starts
<1>5. CASE OnAnswered(p)
  BY <1>5 DEF OnAnswered, Starts
<1>6. CASE ConsentToAI(p)
  BY <1>6 DEF ConsentToAI, RecordConsent
<1>7. CASE ConsentToRecording(p)
  BY <1>7 DEF ConsentToRecording, RecordConsent
<1>8. CASE NoteDisclosure(p)
  BY <1>8 DEF NoteDisclosure, AppendTranscript
<1>9. CASE StartRecording(p)
  BY <1>9 DEF StartRecording
<1>10. CASE StartAgent(p)
  BY <1>10, NextTurnMoves DEF StartAgent
<1>. QED
  BY <1>1, <1>2, <1>3, <1>4, <1>5, <1>6, <1>7, <1>8, <1>9, <1>10

LEMMA AgentMovesAlone ==
  ASSUME StateOK, HandlersOK, NEW p \in Posts,
         AgentDone(p) \/ Converse(p) \/ BargeIn(p) \/ InvokeTool(p) \/
         TraceTool(p) \/ IdentifySubscriber(p) \/ ToolSucceeded(p) \/
         ToolErred(p) \/ FinalHangUp(p) \/ FinalTransfer(p) \/ Transferred(p)
  PROVE  MovesAlone(p)
<1>. USE PostFields
    DEF MovesAlone, HandlersOK, StateOK, telephone, memory, store, flags, tables, handlers,
        Goto, GotoAt, Return, Finished
<1>1. CASE AgentDone(p)
  BY <1>1 DEF AgentDone
<1>2. CASE Converse(p)
  BY <1>2, NextTurnMoves DEF Converse, AppendTranscript
<1>3. CASE BargeIn(p)
  BY <1>3, NextTurnMoves DEF BargeIn
<1>4. CASE InvokeTool(p)
  BY <1>4 DEF InvokeTool
<1>5. CASE TraceTool(p)
  BY <1>5 DEF TraceTool
<1>6. CASE IdentifySubscriber(p)
  BY <1>6 DEF IdentifySubscriber
<1>7. CASE ToolSucceeded(p)
  BY <1>7, NextTurnMoves DEF ToolSucceeded, SetOutcome
<1>8. CASE ToolErred(p)
  BY <1>8, NextTurnMoves DEF ToolErred, SetOutcome
<1>9. CASE FinalHangUp(p)
  BY <1>9, PostType DEF FinalHangUp, HangUp, EventTypes
<1>10. CASE FinalTransfer(p)
  BY <1>10 DEF FinalTransfer
<1>11. CASE Transferred(p)
  BY <1>11 DEF Transferred
<1>. QED
  BY <1>1, <1>2, <1>3, <1>4, <1>5, <1>6, <1>7, <1>8, <1>9, <1>10, <1>11

LEMMA EndMovesAlone ==
  ASSUME StateOK, HandlersOK, NEW p \in Posts,
         OnEndedMissing(p) \/ OnEnded(p) \/ CloseAgent(p) \/ Forget(p) \/
         OnRecording(p) \/ SaveRecording(p) \/ SaveTranscript(p) \/ Throw(p)
  PROVE  MovesAlone(p)
<1>. USE PostFields
    DEF MovesAlone, HandlersOK, StateOK, telephone, memory, store, flags, tables, handlers,
        Goto, GotoAt, Return, Finished
<1>1. CASE OnEndedMissing(p)
  BY <1>1 DEF OnEndedMissing, Starts
<1>2. CASE OnEnded(p)
  BY <1>2 DEF OnEnded, Starts
<1>3. CASE CloseAgent(p)
  BY <1>3 DEF CloseAgent
<1>4. CASE Forget(p)
  BY <1>4 DEF Forget
<1>5. CASE OnRecording(p)
  BY <1>5, CopiesAssumption DEF OnRecording, Starts
<1>6. CASE SaveRecording(p)
  BY <1>6 DEF SaveRecording
<1>7. CASE SaveTranscript(p)
  BY <1>7 DEF SaveTranscript, AppendTranscript
<1>8. CASE Throw(p)
  BY <1>8 DEF Throw
<1>. QED
  BY <1>1, <1>2, <1>3, <1>4, <1>5, <1>6, <1>7, <1>8

LEMMA SetupThroughDisclosure ==
  ASSUME StateOK, HandlersOK, NEW p \in Posts,
         OnInitiated(p) \/ ResolveUnknown(p) \/ AnswerUnknown(p) \/
         ResolveKnown(p) \/ Replied(p)
  PROVE  ThroughDisclosure(p)
<1>. USE PostFields, InHand
    DEF ThroughDisclosure, Worked, Traced, StateOK, telephone, memory, store, flags, tables, handlers,
        Goto, GotoAt, Return, Finished,
        InTool, InAgent, InAnswered, InEnded, InCall, Disclosing
<1>1. CASE OnInitiated(p)
  BY <1>1, CopiesAssumption DEF OnInitiated, Starts
<1>2. CASE ResolveUnknown(p)
  BY <1>2 DEF ResolveUnknown
<1>3. CASE AnswerUnknown(p)
  BY <1>3 DEF AnswerUnknown, Answer
<1>4. CASE ResolveKnown(p)
  BY <1>4 DEF ResolveKnown, Register, Answer
<1>5. CASE Replied(p)
  BY <1>5 DEF Replied
<1>. QED
  BY <1>1, <1>2, <1>3, <1>4, <1>5

LEMMA AnsweredThroughDisclosure ==
  ASSUME StateOK, HandlersOK, NEW p \in Posts,
         OnAnsweredUnknown(p) \/ Drop(p) \/ Dropped(p) \/ OnAnsweredMissing(p) \/
         OnAnswered(p) \/ ConsentToAI(p) \/ ConsentToRecording(p) \/
         NoteDisclosure(p) \/ StartRecording(p) \/ StartAgent(p)
  PROVE  ThroughDisclosure(p)
<1>. USE PostFields, InHand
    DEF ThroughDisclosure, Worked, Traced, StateOK, telephone, memory, store, flags, tables, handlers,
        Goto, GotoAt, Return, Finished,
        InTool, InAgent, InAnswered, InEnded, InCall, Disclosing
<1>1. CASE OnAnsweredUnknown(p)
  BY <1>1 DEF OnAnsweredUnknown, Starts
<1>2. CASE Drop(p)
  BY <1>2 DEF Drop, HangUp
<1>3. CASE Dropped(p)
  BY <1>3 DEF Dropped
<1>4. CASE OnAnsweredMissing(p)
  BY <1>4 DEF OnAnsweredMissing, Starts
<1>5. CASE OnAnswered(p)
  BY <1>5 DEF OnAnswered, Starts
<1>6. CASE ConsentToAI(p)
  BY <1>6 DEF ConsentToAI, RecordConsent
<1>7. CASE ConsentToRecording(p)
  BY <1>7 DEF ConsentToRecording, RecordConsent
<1>8. CASE NoteDisclosure(p)
  BY <1>8 DEF NoteDisclosure, AppendTranscript
<1>9. CASE StartRecording(p)
  BY <1>9 DEF StartRecording
<1>10. CASE StartAgent(p)
  BY <1>10, NextTurnMoves DEF StartAgent
<1>. QED
  BY <1>1, <1>2, <1>3, <1>4, <1>5, <1>6, <1>7, <1>8, <1>9, <1>10

LEMMA AgentThroughDisclosure ==
  ASSUME StateOK, HandlersOK, NEW p \in Posts,
         AgentDone(p) \/ Converse(p) \/ BargeIn(p) \/ InvokeTool(p) \/
         TraceTool(p) \/ IdentifySubscriber(p) \/ ToolSucceeded(p) \/
         ToolErred(p) \/ FinalHangUp(p) \/ FinalTransfer(p) \/ Transferred(p)
  PROVE  ThroughDisclosure(p)
<1>. USE PostFields, InHand
    DEF ThroughDisclosure, Worked, Traced, StateOK, telephone, memory, store, flags, tables, handlers,
        Goto, GotoAt, Return, Finished,
        InTool, InAgent, InAnswered, InEnded, InCall, Disclosing
<1>1. CASE AgentDone(p)
  BY <1>1 DEF AgentDone
<1>2. CASE Converse(p)
  BY <1>2, NextTurnMoves DEF Converse, AppendTranscript
<1>3. CASE BargeIn(p)
  BY <1>3, NextTurnMoves DEF BargeIn
<1>4. CASE InvokeTool(p)
  BY <1>4 DEF InvokeTool
<1>5. CASE TraceTool(p)
  BY <1>5 DEF TraceTool
<1>6. CASE IdentifySubscriber(p)
  BY <1>6 DEF IdentifySubscriber
<1>7. CASE ToolSucceeded(p)
  BY <1>7, NextTurnMoves DEF ToolSucceeded, SetOutcome
<1>8. CASE ToolErred(p)
  BY <1>8, NextTurnMoves DEF ToolErred, SetOutcome
<1>9. CASE FinalHangUp(p)
  BY <1>9 DEF FinalHangUp, HangUp
<1>10. CASE FinalTransfer(p)
  BY <1>10 DEF FinalTransfer
<1>11. CASE Transferred(p)
  BY <1>11 DEF Transferred
<1>. QED
  BY <1>1, <1>2, <1>3, <1>4, <1>5, <1>6, <1>7, <1>8, <1>9, <1>10, <1>11

LEMMA EndThroughDisclosure ==
  ASSUME StateOK, HandlersOK, NEW p \in Posts,
         OnEndedMissing(p) \/ OnEnded(p) \/ CloseAgent(p) \/ Forget(p) \/
         OnRecording(p) \/ SaveRecording(p) \/ SaveTranscript(p) \/ Throw(p)
  PROVE  ThroughDisclosure(p)
<1>. USE PostFields, InHand
    DEF ThroughDisclosure, Worked, Traced, StateOK, telephone, memory, store, flags, tables, handlers,
        Goto, GotoAt, Return, Finished,
        InTool, InAgent, InAnswered, InEnded, InCall, Disclosing
<1>1. CASE OnEndedMissing(p)
  BY <1>1 DEF OnEndedMissing, Starts
<1>2. CASE OnEnded(p)
  BY <1>2 DEF OnEnded, Starts
<1>3. CASE CloseAgent(p)
  BY <1>3 DEF CloseAgent
<1>4. CASE Forget(p)
  BY <1>4 DEF Forget
<1>5. CASE OnRecording(p)
  BY <1>5, CopiesAssumption DEF OnRecording, Starts
<1>6. CASE SaveRecording(p)
  BY <1>6 DEF SaveRecording
<1>7. CASE SaveTranscript(p)
  BY <1>7 DEF SaveTranscript, AppendTranscript
<1>8. CASE Throw(p)
  BY <1>8 DEF Throw
<1>. QED
  BY <1>1, <1>2, <1>3, <1>4, <1>5, <1>6, <1>7, <1>8

LEMMA SetupLetsGo ==
  ASSUME StateOK, HandlersOK, NEW p \in Posts,
         OnInitiated(p) \/ ResolveUnknown(p) \/ AnswerUnknown(p) \/
         ResolveKnown(p) \/ Replied(p)
  PROVE  LetsGo(p)
<1>. USE PostFields, InHand, SessionType
    DEF LetsGo, HandlersOK, StateOK, telephone, memory, store, flags, tables, handlers,
        Goto, GotoAt, Return, Finished,
        InTool, InAgent, InAnswered, InEnded, InCall, Disclosing
<1>1. CASE OnInitiated(p)
  BY <1>1, CopiesAssumption DEF OnInitiated, Starts
<1>2. CASE ResolveUnknown(p)
  BY <1>2 DEF ResolveUnknown
<1>3. CASE AnswerUnknown(p)
  BY <1>3 DEF AnswerUnknown, Answer
<1>4. CASE ResolveKnown(p)
  BY <1>4 DEF ResolveKnown, Register, Answer
<1>5. CASE Replied(p)
  BY <1>5 DEF Replied
<1>. QED
  BY <1>1, <1>2, <1>3, <1>4, <1>5

LEMMA AnsweredLetsGo ==
  ASSUME StateOK, HandlersOK, NEW p \in Posts,
         OnAnsweredUnknown(p) \/ Drop(p) \/ Dropped(p) \/ OnAnsweredMissing(p) \/
         OnAnswered(p) \/ ConsentToAI(p) \/ ConsentToRecording(p) \/
         NoteDisclosure(p) \/ StartRecording(p) \/ StartAgent(p)
  PROVE  LetsGo(p)
<1>. USE PostFields, InHand, SessionType
    DEF LetsGo, HandlersOK, StateOK, telephone, memory, store, flags, tables, handlers,
        Goto, GotoAt, Return, Finished,
        InTool, InAgent, InAnswered, InEnded, InCall, Disclosing
<1>1. CASE OnAnsweredUnknown(p)
  BY <1>1 DEF OnAnsweredUnknown, Starts
<1>2. CASE Drop(p)
  BY <1>2, PostType DEF Drop, HangUp, EventTypes
<1>3. CASE Dropped(p)
  BY <1>3 DEF Dropped
<1>4. CASE OnAnsweredMissing(p)
  BY <1>4 DEF OnAnsweredMissing, Starts
<1>5. CASE OnAnswered(p)
  BY <1>5 DEF OnAnswered, Starts
<1>6. CASE ConsentToAI(p)
  BY <1>6 DEF ConsentToAI, RecordConsent
<1>7. CASE ConsentToRecording(p)
  BY <1>7 DEF ConsentToRecording, RecordConsent
<1>8. CASE NoteDisclosure(p)
  BY <1>8 DEF NoteDisclosure, AppendTranscript
<1>9. CASE StartRecording(p)
  BY <1>9 DEF StartRecording
<1>10. CASE StartAgent(p)
  BY <1>10, NextTurnMoves DEF StartAgent
<1>. QED
  BY <1>1, <1>2, <1>3, <1>4, <1>5, <1>6, <1>7, <1>8, <1>9, <1>10

LEMMA AgentLetsGo ==
  ASSUME StateOK, HandlersOK, NEW p \in Posts,
         AgentDone(p) \/ Converse(p) \/ BargeIn(p) \/ InvokeTool(p) \/
         TraceTool(p) \/ IdentifySubscriber(p) \/ ToolSucceeded(p) \/
         ToolErred(p) \/ FinalHangUp(p) \/ FinalTransfer(p) \/ Transferred(p)
  PROVE  LetsGo(p)
<1>. USE PostFields, InHand, SessionType
    DEF LetsGo, HandlersOK, StateOK, telephone, memory, store, flags, tables, handlers,
        Goto, GotoAt, Return, Finished,
        InTool, InAgent, InAnswered, InEnded, InCall, Disclosing
<1>1. CASE AgentDone(p)
  BY <1>1 DEF AgentDone
<1>2. CASE Converse(p)
  BY <1>2, NextTurnMoves DEF Converse, AppendTranscript
<1>3. CASE BargeIn(p)
  BY <1>3, NextTurnMoves DEF BargeIn
<1>4. CASE InvokeTool(p)
  BY <1>4 DEF InvokeTool
<1>5. CASE TraceTool(p)
  BY <1>5 DEF TraceTool
<1>6. CASE IdentifySubscriber(p)
  BY <1>6 DEF IdentifySubscriber
<1>7. CASE ToolSucceeded(p)
  BY <1>7, NextTurnMoves DEF ToolSucceeded, SetOutcome
<1>8. CASE ToolErred(p)
  BY <1>8, NextTurnMoves DEF ToolErred, SetOutcome
<1>9. CASE FinalHangUp(p)
  BY <1>9, PostType DEF FinalHangUp, HangUp, EventTypes
<1>10. CASE FinalTransfer(p)
  BY <1>10 DEF FinalTransfer
<1>11. CASE Transferred(p)
  BY <1>11 DEF Transferred
<1>. QED
  BY <1>1, <1>2, <1>3, <1>4, <1>5, <1>6, <1>7, <1>8, <1>9, <1>10, <1>11

LEMMA EndLetsGo ==
  ASSUME StateOK, HandlersOK, NEW p \in Posts,
         OnEndedMissing(p) \/ OnEnded(p) \/ CloseAgent(p) \/ Forget(p) \/
         OnRecording(p) \/ SaveRecording(p) \/ SaveTranscript(p) \/ Throw(p)
  PROVE  LetsGo(p)
<1>. USE PostFields, InHand, SessionType
    DEF LetsGo, HandlersOK, StateOK, telephone, memory, store, flags, tables, handlers,
        Goto, GotoAt, Return, Finished,
        InTool, InAgent, InAnswered, InEnded, InCall, Disclosing
<1>1. CASE OnEndedMissing(p)
  BY <1>1 DEF OnEndedMissing, Starts
<1>2. CASE OnEnded(p)
  BY <1>2 DEF OnEnded, Starts
<1>3. CASE CloseAgent(p)
  BY <1>3 DEF CloseAgent
<1>4. CASE Forget(p)
  BY <1>4 DEF Forget
<1>5. CASE OnRecording(p)
  BY <1>5, CopiesAssumption DEF OnRecording, Starts
<1>6. CASE SaveRecording(p)
  BY <1>6 DEF SaveRecording
<1>7. CASE SaveTranscript(p)
  BY <1>7 DEF SaveTranscript, AppendTranscript
<1>8. CASE Throw(p)
  BY <1>8 DEF Throw
<1>. QED
  BY <1>1, <1>2, <1>3, <1>4, <1>5, <1>6, <1>7, <1>8

-----------------------------------------------------------------------------
(* The layers put together.                                                *)

LEMMA HandlerStep ==
  ASSUME StateOK, HandlersOK, NEW p \in Posts, Handle(p) \/ Throw(p)
  PROVE  /\ StateOK' /\ HandlersOK'
         /\ MovesAlone(p) /\ ThroughDisclosure(p) /\ LetsGo(p)
<1>1. CASE OnInitiated(p) \/ ResolveUnknown(p) \/ AnswerUnknown(p) \/
           ResolveKnown(p) \/ Replied(p)
  BY <1>1, SetupStateOK, SetupHandlersOK, SetupMovesAlone,
     SetupThroughDisclosure, SetupLetsGo
<1>2. CASE OnAnsweredUnknown(p) \/ Drop(p) \/ Dropped(p) \/
           OnAnsweredMissing(p) \/ OnAnswered(p) \/ ConsentToAI(p) \/
           ConsentToRecording(p) \/ NoteDisclosure(p) \/ StartRecording(p) \/
           StartAgent(p)
  BY <1>2, AnsweredStateOK, AnsweredHandlersOK, AnsweredMovesAlone,
     AnsweredThroughDisclosure, AnsweredLetsGo
<1>3. CASE AgentDone(p) \/ Converse(p) \/ BargeIn(p) \/ InvokeTool(p) \/
           TraceTool(p) \/ IdentifySubscriber(p) \/ ToolSucceeded(p) \/
           ToolErred(p) \/ FinalHangUp(p) \/ FinalTransfer(p) \/ Transferred(p)
  BY <1>3, AgentStateOK, AgentHandlersOK, AgentMovesAlone,
     AgentThroughDisclosure, AgentLetsGo
<1>4. CASE OnEndedMissing(p) \/ OnEnded(p) \/ CloseAgent(p) \/ Forget(p) \/
           OnRecording(p) \/ SaveRecording(p) \/
           SaveTranscript(p) \/ Throw(p)
  BY <1>4, EndStateOK, EndHandlersOK, EndMovesAlone,
     EndThroughDisclosure, EndLetsGo
<1>. QED  BY <1>1, <1>2, <1>3, <1>4 DEF Handle

\* The disclosure of a session stays filed, so the layer moves with p alone.
LEMMA HandlerKeepsDisclosure ==
  ASSUME StateOK, HandlersOK, NEW p \in Posts, Handle(p) \/ Throw(p),
         DisclosureProgress, NothingBeforeDisclosure, RecordingAfterConsent
  PROVE  /\ DisclosureProgress' /\ NothingBeforeDisclosure'
         /\ RecordingAfterConsent'
<1>1. MovesAlone(p) /\ ThroughDisclosure(p)
  BY HandlerStep
<1>2. \A s \in Sessions : /\ Disclosed(s) => Disclosed(s)'
                          /\ <<s, "system">> \in transcripts =>
                               <<s, "system">> \in transcripts'
  BY <1>1 DEF MovesAlone, Disclosed
<1>3. pc[p] \in InAgent => /\ at[p] \in SessionsOf(p.call) /\ at[p] \in Sessions
                           /\ Disclosed(at[p])
                           /\ <<at[p], "system">> \in transcripts
  BY InHand DEF InCall, DisclosureProgress
<1>4. DisclosureProgress'
  <2>1. ASSUME NEW q \in Posts, q # p
        PROVE  /\ pc'[q] = "consenting" => <<at'[q], "ai_disclosure">> \in consents'
               /\ pc'[q] \in {"consented"} \cup InAgent => Disclosed(at[q])'
               /\ pc'[q] \in InAgent => <<at'[q], "system">> \in transcripts'
    BY <1>1, <2>1 DEF DisclosureProgress, MovesAlone, Disclosed
  <2>2. pc'[p] \in {"consented"} \cup InAgent => Disclosed(at[p])'
    BY <1>1 DEF DisclosureProgress, MovesAlone, ThroughDisclosure, Disclosed, ConsentKinds
  <2>3. pc'[p] \in InAgent => <<at'[p], "system">> \in transcripts'
    BY <1>1 DEF DisclosureProgress, MovesAlone, ThroughDisclosure
  <2>4. pc'[p] = "consenting" => <<at'[p], "ai_disclosure">> \in consents'
    BY <1>1 DEF ThroughDisclosure
  <2>. QED  BY <2>1, <2>2, <2>3, <2>4 DEF DisclosureProgress
<1>5. NothingBeforeDisclosure'
  BY <1>1, <1>2, <1>3 DEF NothingBeforeDisclosure, ThroughDisclosure
<1>6. RecordingAfterConsent'
  <2>1. SUFFICES ASSUME NEW c \in Calls, c \in recording'
                 PROVE  \E s \in SessionsOf(c) : Disclosed(s)'
    BY DEF RecordingAfterConsent, SessionsOf
  <2>2. PICK s \in SessionsOf(c) : Disclosed(s)
    BY <1>1, <1>3, <2>1 DEF ThroughDisclosure, RecordingAfterConsent
  <2>. QED  BY <1>2, <2>2, SessionType
<1>. QED  BY <1>4, <1>5, <1>6

\* An answered call that was findable is still findable after a handler's step.
LEMMA HandlerKeepsFindable ==
  ASSUME StateOK, HandlersOK, NEW p \in Posts, Handle(p) \/ Throw(p),
         NEW c \in Calls, Findable(c)
  PROVE  Findable(c)'
<1>1. MovesAlone(p) /\ LetsGo(p) /\ HandlersOK'
  BY HandlerStep
<1>2. EndHandled(c) => EndHandled(c)'
  BY <1>1 DEF MovesAlone, EndHandled, StateOK
<1>3. Taken(c) => Taken(c)'
  BY <1>1 DEF MovesAlone, Taken, StateOK
<1>4. p.type = "ended" /\ p.call = c /\ pc'[p] \in Finished => EndHandled(c)'
  BY <1>1 DEF MovesAlone, EndHandled, StateOK
<1>5. p.type = "answered" /\ p.call = c /\ pc'[p] = "done" => Taken(c)'
  BY <1>1 DEF MovesAlone, Taken, StateOK
<1>6. pc[p] \in InEnded => p.type = "ended"
  BY DEF HandlersOK
<1>. QED
  BY <1>1, <1>2, <1>3, <1>4, <1>5, <1>6 DEF Findable, LetsGo

LEMMA HandlerKeepsReach ==
  ASSUME StateOK, HandlersOK, NEW p \in Posts, Handle(p) \/ Throw(p),
         AnsweredIsFindable, AnswerNotDropped
  PROVE  AnsweredIsFindable' /\ AnswerNotDropped'
<1>1. MovesAlone(p) /\ LetsGo(p) /\ HandlersOK'
  BY HandlerStep
<1>2. \A q \in Posts : q.call \in Calls
  BY PostFields
<1>3. ASSUME NEW c \in Calls, line'[c] = "accepted"
      PROVE  Findable(c)'
  BY <1>1, <1>3, <1>2, HandlerKeepsFindable DEF LetsGo, AnsweredIsFindable, Findable
<1>4. ASSUME NEW q \in posts', q.type = "answered"
      PROVE  Findable(q.call)'
  <2>1. q \in posts
    BY <1>1, <1>4 DEF MovesAlone
  <2>. QED  BY <1>2, <1>4, <2>1, HandlerKeepsFindable DEF AnsweredIsFindable, StateOK
<1>5. ASSUME NEW q \in Posts, pc'[q] = "refusing"
      PROVE  Findable(q.call)'
  <2>1. CASE q = p  BY <1>1, <1>5, <2>1 DEF LetsGo, Findable
  <2>2. CASE q # p
    BY <1>1, <1>2, <1>5, <2>2, HandlerKeepsFindable DEF MovesAlone, AnsweredIsFindable
  <2>. QED  BY <2>1, <2>2
<1>6. ASSUME NEW q \in Posts, q.type = "answered", pc'[q] = "ignored"
      PROVE  EndHandled(q.call)' \/ Taken(q.call)'
  <2>1. EndHandled(q.call) \/ Taken(q.call)
    <3>1. CASE q = p
      BY <1>1, <1>6, <3>1 DEF MovesAlone, LetsGo, AnsweredIsFindable, Findable
    <3>2. CASE q # p
      BY <1>1, <1>6, <3>2 DEF MovesAlone, AnswerNotDropped
    <3>. QED  BY <3>1, <3>2
  <2>2. EndHandled(q.call) => EndHandled(q.call)'
    BY <1>1 DEF MovesAlone, EndHandled, StateOK
  <2>3. Taken(q.call) => Taken(q.call)'
    BY <1>1 DEF MovesAlone, Taken, StateOK
  <2>. QED  BY <2>1, <2>2, <2>3
<1>. QED  BY <1>3, <1>4, <1>5, <1>6 DEF AnsweredIsFindable, AnswerNotDropped

\* The telephone side adds posts and moves lines: Connect needs the call findable.
LEMMA TelephonyKeepsReach ==
  ASSUME StateOK, HandlersOK,
         (\E c \in Calls : Telephony(c)) \/ (\E p \in Posts : Redeliver(p)),
         AnsweredIsFindable, AnswerNotDropped
  PROVE  AnsweredIsFindable' /\ AnswerNotDropped'
<1>1. posts \subseteq posts' /\ UNCHANGED <<pc, live, unknown>>
  BY TelephonyFrame DEF handlers, memory
<1>2. \A c \in Calls : /\ EndHandled(c) => EndHandled(c)'
                       /\ Taken(c) => Taken(c)'
                       /\ Findable(c) => Findable(c)'
  BY <1>1 DEF EndHandled, Taken, Findable
<1>3. \A c \in Calls : line'[c] = "accepted" => line[c] = "accepted"
  BY DEF Telephony, Arrive, Connect, CallerHangsUp, RecordingReady, Redeliver, StateOK
<1>4. ASSUME NEW q \in posts', q.type = "answered"
      PROVE  q.call \in Calls /\ Findable(q.call)
  <2>1. CASE q \in posts
    BY <1>4, <2>1, PostFields DEF AnsweredIsFindable, StateOK
  <2>2. ASSUME NEW c \in Calls, Telephony(c), q \notin posts
        PROVE  q.call \in Calls /\ Findable(q.call)
    <3>1. line[c] = "accepted" /\ q = Post("answered", c)
      BY <1>4, <2>2, PostType DEF Telephony, Arrive, Connect, CallerHangsUp,
         RecordingReady, EventTypes
    <3>. QED  BY <3>1, PostType DEF AnsweredIsFindable, EventTypes
  <2>3. ASSUME NEW p \in Posts, Redeliver(p), q \notin posts
        PROVE  q.call \in Calls /\ Findable(q.call)
    BY <1>4, <2>3, CopyType, PostFields DEF Redeliver, AnsweredIsFindable
  <2>. QED  BY <2>1, <2>2, <2>3
<1>. QED
  BY <1>1, <1>2, <1>3, <1>4, PostFields DEF AnsweredIsFindable, AnswerNotDropped

LEMMA InitIInv == Init => IInv
<1>. SUFFICES ASSUME Init PROVE IInv
  OBVIOUS
<1>1. DisclosureProgress /\ AnswerNotDropped
  BY DEF Init, DisclosureProgress, AnswerNotDropped, InAgent, InTool
<1>2. NothingBeforeDisclosure
  BY DEF Init, NothingBeforeDisclosure, Worked, Traced
<1>3. RecordingAfterConsent /\ AnsweredIsFindable
  BY DEF Init, RecordingAfterConsent, AnsweredIsFindable
<1>4. TypeOK /\ HandlersOK
  BY InitStateOK, InitHandlersOK DEF Init, TypeOK
<1>. QED  BY <1>1, <1>2, <1>3, <1>4 DEF IInv

\* A step is a handler's, the telephone side's, or none.
LEMMA StepCases ==
  ASSUME [Next]_vars
  PROVE  \/ Note /\ \E p \in Posts : Handle(p) \/ Throw(p)
         \/ Note /\ ((\E c \in Calls : Telephony(c)) \/ (\E p \in Posts : Redeliver(p)))
         \/ UNCHANGED vars
  BY DEF Next, Step

LEMMA NextIInv == IInv /\ [Next]_vars => IInv'
<1>. SUFFICES ASSUME IInv, [Next]_vars PROVE IInv'
  OBVIOUS
<1>1. CASE Note /\ \E p \in Posts : Handle(p) \/ Throw(p)
  <2>1. /\ StateOK' /\ HandlersOK' /\ DisclosureProgress' /\ NothingBeforeDisclosure'
        /\ RecordingAfterConsent' /\ AnsweredIsFindable' /\ AnswerNotDropped'
    BY <1>1, HandlerStep, HandlerKeepsDisclosure, HandlerKeepsReach DEF IInv, TypeOK
  <2>2. late' \subseteq Calls
    BY <1>1 DEF Note, IInv, TypeOK
  <2>. QED  BY <2>1, <2>2 DEF IInv, TypeOK
<1>2. CASE Note /\ ((\E c \in Calls : Telephony(c)) \/ (\E p \in Posts : Redeliver(p)))
  <2>1. StateOK' /\ HandlersOK' /\ AnsweredIsFindable' /\ AnswerNotDropped'
    BY <1>2, TelephonyStateOK, RedeliverStateOK, TelephonyHandlersOK,
       TelephonyKeepsReach DEF IInv, TypeOK
  <2>2. DisclosureProgress' /\ NothingBeforeDisclosure' /\ RecordingAfterConsent'
    BY <1>2, TelephonyFrame
       DEF IInv, DisclosureProgress, NothingBeforeDisclosure, RecordingAfterConsent,
           Worked, Traced, Disclosed, handlers, memory, store, flags, tables
  <2>3. late' \subseteq Calls
    BY <1>2 DEF Note, IInv, TypeOK
  <2>. QED  BY <2>1, <2>2, <2>3 DEF IInv, TypeOK
<1>3. CASE UNCHANGED vars
  BY <1>3 DEF IInv, TypeOK, StateOK, HandlersOK, DisclosureProgress,
     NothingBeforeDisclosure, RecordingAfterConsent, AnsweredIsFindable,
     AnswerNotDropped, Findable, EndHandled, Taken, Worked, Traced, Disclosed,
     vars, telephone, memory, store, flags, tables
<1>. QED  BY <1>1, <1>2, <1>3, StepCases

-----------------------------------------------------------------------------
(* Theorems. *)

\* The inductive invariant holds in every state of SessionHandler.
THEOREM Invariance == Spec => []IInv
  BY InitIInv, NextIInv, PTL DEF Spec

\* Every LiveCall, handler and stored row keeps its type.
THEOREM TypeCorrect == Spec => []TypeOK
<1>1. IInv => TypeOK
  BY DEF IInv
<1>. QED  BY <1>1, Invariance, PTL

\* ClawOps records a call only after both consents of a session are stored.
THEOREM ConsentBeforeRecording == Spec => []RecordingAfterConsent
<1>1. IInv => RecordingAfterConsent
  BY DEF IInv
<1>. QED  BY <1>1, Invariance, PTL

\* The agent, its tools and the subscriber lookup act on disclosed sessions only.
THEOREM DisclosureFirst == Spec => []NothingBeforeDisclosure
<1>1. IInv => NothingBeforeDisclosure
  BY DEF IInv
<1>. QED  BY <1>1, Invariance, PTL

\* The answered handler misses a call only after its end or another copy of it.
THEOREM AnswerReachesCall == Spec => []AnswerNotDropped
<1>1. IInv => AnswerNotDropped
  BY DEF IInv
<1>. QED  BY <1>1, Invariance, PTL

-----------------------------------------------------------------------------
(* Layer 4: the sessions the handlers have in hand, and what they file.     *)

\* The step of a handler p goes on with the session it has, or takes up a new one,
\* the live one or, for a recording, the first.
StaysWithSession(p) ==
  /\ \/ created' = created
     \/ /\ p.type = "initiated" /\ pc[p] = "idle" /\ created[p.call] < MaxCopies
        /\ created' = [created EXCEPT ![p.call] = @ + 1]
        /\ at'[p] = <<p.call, created[p.call] + 1>> /\ pc'[p] = "resolving"
        /\ live' = live
  /\ pc'[p] \in InCall =>
       \/ /\ pc[p] \in InCall /\ at'[p] = at[p] /\ pc'[p] # "resolving"
          /\ pc'[p] \in Holding => pc[p] \in Holding
          /\ pc'[p] \in Engaged => pc[p] \in Engaged
       \/ p.type = "initiated" /\ pc[p] = "idle" /\ created' # created
       \/ live[p.call] # None /\ at'[p] = live[p.call] /\ pc'[p] # "resolving"
       \/ /\ p.type = "recording" /\ created[p.call] > 0
          /\ at'[p] = <<p.call, 1>> /\ pc'[p] = "locating"
  /\ \A c \in Calls : \/ live'[c] \in {live[c], None}
                      \/ /\ c = p.call /\ pc[p] = "resolving" /\ pc'[p] # "resolving"
                         /\ live'[c] = at[p]

\* It changes an outcome in the store with the one in memory, but for the cases of a
\* call nobody told anything about; a session is registered where it was resolved.
FilesOutcome(p) ==
  \A s \in Sessions :
    \/ /\ outcome'[s] = outcome[s] /\ stored'[s] = stored[s]
       /\ s \in ended' <=> s \in ended
       /\ agent'[s] = agent[s] \/ (s = at[p] /\ pc[p] = "closing" /\ agent'[s] # "none")
       /\ live'[s[1]] # s \/ live[s[1]] = s
    \/ /\ (s = live[p.call] /\ s # None) \/ (s = at[p] /\ pc[p] \in InAgent)
       /\ agent'[s] = agent[s]
       /\ \/ stored'[s] = outcome'[s] /\ outcome'[s] # None
          \/ /\ outcome[s] = None /\ outcome'[s] = None
             /\ stored'[s] = "other" /\ s \in ended'
          \/ /\ outcome[s] = None /\ outcome'[s] = "transferred"
             /\ stored'[s] = stored[s] /\ (s \in ended' <=> s \in ended)
    \/ /\ s = at[p] /\ pc[p] = "resolving" /\ pc'[p] # "resolving"
       /\ s \in ended' <=> s \in ended
       /\ \/ outcome'[s] = None /\ stored'[s] = stored[s] /\ agent'[s] = "open"
          \/ /\ outcome'[s] = outcome[s] /\ stored'[s] = "other" /\ agent'[s] = agent[s]
             /\ live' = live

\* It files the recording and the words of the session it has in hand.
FilesWords(p) ==
  /\ recording \subseteq recording'
  /\ \A s \in Sessions : s \in saved' => s \in saved \/ (s = at[p] /\ pc[p] = "locating")
  /\ \A s \in Sessions : <<s, "caller">> \in transcripts' =>
       <<s, "caller">> \in transcripts \/ (s = at[p] /\ pc[p] \in {"next", "saving"})
  /\ \A s \in Sessions, k \in ConsentKinds :
       <<s, k>> \in consents' => <<s, k>> \in consents \/ (s = at[p] /\ pc[p] \in Disclosing)
  /\ p.type = "recording" \/ pc[p] \in {"locating", "saving"}
       \/ pc'[p] \notin {"locating", "saving"}

LEMMA SetupStaysWithSession ==
  ASSUME StateOK, HandlersOK, NEW p \in Posts,
         OnInitiated(p) \/ ResolveUnknown(p) \/ AnswerUnknown(p) \/
         ResolveKnown(p) \/ Replied(p)
  PROVE  StaysWithSession(p)
<1>. USE PostFields, InHand, SessionType
    DEF StaysWithSession, HandlersOK, Holding, Engaged, StateOK, telephone, memory, store, flags, tables, handlers,
        Goto, GotoAt, Return, Finished,
        InTool, InAgent, InAnswered, InEnded, InCall, Disclosing
<1>1. CASE OnInitiated(p)
  BY <1>1, CopiesAssumption DEF OnInitiated, Starts
<1>2. CASE ResolveUnknown(p)
  BY <1>2 DEF ResolveUnknown
<1>3. CASE AnswerUnknown(p)
  BY <1>3 DEF AnswerUnknown, Answer
<1>4. CASE ResolveKnown(p)
  BY <1>4 DEF ResolveKnown, Register, Answer
<1>5. CASE Replied(p)
  BY <1>5 DEF Replied
<1>. QED
  BY <1>1, <1>2, <1>3, <1>4, <1>5

LEMMA AnsweredStaysWithSession ==
  ASSUME StateOK, HandlersOK, NEW p \in Posts,
         OnAnsweredUnknown(p) \/ Drop(p) \/ Dropped(p) \/
         OnAnsweredMissing(p) \/ OnAnswered(p) \/ ConsentToAI(p) \/
         ConsentToRecording(p) \/ NoteDisclosure(p) \/ StartRecording(p) \/
         StartAgent(p)
  PROVE  StaysWithSession(p)
<1>. USE PostFields, InHand, SessionType
    DEF StaysWithSession, HandlersOK, Holding, Engaged, StateOK, telephone, memory, store, flags, tables, handlers,
        Goto, GotoAt, Return, Finished,
        InTool, InAgent, InAnswered, InEnded, InCall, Disclosing
<1>1. CASE OnAnsweredUnknown(p)
  BY <1>1 DEF OnAnsweredUnknown, Starts
<1>2. CASE Drop(p)
  BY <1>2, PostType DEF Drop, HangUp, EventTypes
<1>3. CASE Dropped(p)
  BY <1>3 DEF Dropped
<1>4. CASE OnAnsweredMissing(p)
  BY <1>4 DEF OnAnsweredMissing, Starts
<1>5. CASE OnAnswered(p)
  BY <1>5 DEF OnAnswered, Starts
<1>6. CASE ConsentToAI(p)
  BY <1>6 DEF ConsentToAI, RecordConsent
<1>7. CASE ConsentToRecording(p)
  BY <1>7 DEF ConsentToRecording, RecordConsent
<1>8. CASE NoteDisclosure(p)
  BY <1>8 DEF NoteDisclosure, AppendTranscript
<1>9. CASE StartRecording(p)
  BY <1>9 DEF StartRecording
<1>10. CASE StartAgent(p)
  BY <1>10, NextTurnMoves DEF StartAgent
<1>. QED
  BY <1>1, <1>2, <1>3, <1>4, <1>5, <1>6, <1>7, <1>8, <1>9, <1>10

LEMMA AgentStaysWithSession ==
  ASSUME StateOK, HandlersOK, NEW p \in Posts,
         AgentDone(p) \/ Converse(p) \/ BargeIn(p) \/ InvokeTool(p) \/
         TraceTool(p) \/ IdentifySubscriber(p) \/ ToolSucceeded(p) \/
         ToolErred(p) \/ FinalHangUp(p) \/ FinalTransfer(p) \/ Transferred(p)
  PROVE  StaysWithSession(p)
<1>. USE PostFields, InHand, SessionType
    DEF StaysWithSession, HandlersOK, Holding, Engaged, StateOK, telephone, memory, store, flags, tables, handlers,
        Goto, GotoAt, Return, Finished,
        InTool, InAgent, InAnswered, InEnded, InCall, Disclosing
<1>1. CASE AgentDone(p)
  BY <1>1 DEF AgentDone
<1>2. CASE Converse(p)
  BY <1>2, NextTurnMoves DEF Converse, AppendTranscript
<1>3. CASE BargeIn(p)
  BY <1>3, NextTurnMoves DEF BargeIn
<1>4. CASE InvokeTool(p)
  BY <1>4 DEF InvokeTool
<1>5. CASE TraceTool(p)
  BY <1>5 DEF TraceTool
<1>6. CASE IdentifySubscriber(p)
  BY <1>6 DEF IdentifySubscriber
<1>7. CASE ToolSucceeded(p)
  BY <1>7, NextTurnMoves DEF ToolSucceeded, SetOutcome
<1>8. CASE ToolErred(p)
  BY <1>8, NextTurnMoves DEF ToolErred, SetOutcome
<1>9. CASE FinalHangUp(p)
  BY <1>9, PostType DEF FinalHangUp, HangUp, EventTypes
<1>10. CASE FinalTransfer(p)
  BY <1>10 DEF FinalTransfer
<1>11. CASE Transferred(p)
  BY <1>11 DEF Transferred
<1>. QED
  BY <1>1, <1>2, <1>3, <1>4, <1>5, <1>6, <1>7, <1>8, <1>9, <1>10, <1>11

LEMMA EndStaysWithSession ==
  ASSUME StateOK, HandlersOK, NEW p \in Posts,
         OnEndedMissing(p) \/ OnEnded(p) \/ CloseAgent(p) \/ Forget(p) \/
         OnRecording(p) \/ SaveRecording(p) \/ SaveTranscript(p) \/ Throw(p)
  PROVE  StaysWithSession(p)
<1>. USE PostFields, InHand, SessionType
    DEF StaysWithSession, HandlersOK, Holding, Engaged, StateOK, telephone, memory, store, flags, tables, handlers,
        Goto, GotoAt, Return, Finished,
        InTool, InAgent, InAnswered, InEnded, InCall, Disclosing
<1>1. CASE OnEndedMissing(p)
  BY <1>1 DEF OnEndedMissing, Starts
<1>2. CASE OnEnded(p)
  BY <1>2 DEF OnEnded, Starts, OutcomeOrOther
<1>3. CASE CloseAgent(p)
  BY <1>3 DEF CloseAgent
<1>4. CASE Forget(p)
  BY <1>4 DEF Forget
<1>5. CASE OnRecording(p)
  BY <1>5, CopiesAssumption DEF OnRecording, Starts
<1>6. CASE SaveRecording(p)
  BY <1>6 DEF SaveRecording
<1>7. CASE SaveTranscript(p)
  BY <1>7 DEF SaveTranscript, AppendTranscript
<1>8. CASE Throw(p)
  BY <1>8 DEF Throw
<1>. QED
  BY <1>1, <1>2, <1>3, <1>4, <1>5, <1>6, <1>7, <1>8

LEMMA SetupFilesOutcome ==
  ASSUME StateOK, HandlersOK, NEW p \in Posts,
         OnInitiated(p) \/ ResolveUnknown(p) \/ AnswerUnknown(p) \/
         ResolveKnown(p) \/ Replied(p)
  PROVE  FilesOutcome(p)
<1>. USE PostFields, InHand
    DEF FilesOutcome, HandlersOK, StateOK, telephone, memory, store, flags, tables, handlers,
        Goto, GotoAt, Return, Finished,
        InTool, InAgent, InAnswered, InEnded, InCall, Disclosing
<1>1. CASE OnInitiated(p)
  BY <1>1, CopiesAssumption DEF OnInitiated, Starts
<1>2. CASE ResolveUnknown(p)
  BY <1>2 DEF ResolveUnknown
<1>3. CASE AnswerUnknown(p)
  BY <1>3 DEF AnswerUnknown, Answer
<1>4. CASE ResolveKnown(p)
  BY <1>4 DEF ResolveKnown, Register, Answer
<1>5. CASE Replied(p)
  BY <1>5 DEF Replied
<1>. QED
  BY <1>1, <1>2, <1>3, <1>4, <1>5

LEMMA AnsweredFilesOutcome ==
  ASSUME StateOK, HandlersOK, NEW p \in Posts,
         OnAnsweredUnknown(p) \/ Drop(p) \/ Dropped(p) \/
         OnAnsweredMissing(p) \/ OnAnswered(p) \/ ConsentToAI(p) \/
         ConsentToRecording(p) \/ NoteDisclosure(p) \/ StartRecording(p) \/
         StartAgent(p)
  PROVE  FilesOutcome(p)
<1>. USE PostFields, InHand
    DEF FilesOutcome, HandlersOK, StateOK, telephone, memory, store, flags, tables, handlers,
        Goto, GotoAt, Return, Finished,
        InTool, InAgent, InAnswered, InEnded, InCall, Disclosing
<1>1. CASE OnAnsweredUnknown(p)
  BY <1>1 DEF OnAnsweredUnknown, Starts
<1>2. CASE Drop(p)
  BY <1>2, PostType DEF Drop, HangUp, EventTypes
<1>3. CASE Dropped(p)
  BY <1>3 DEF Dropped
<1>4. CASE OnAnsweredMissing(p)
  BY <1>4 DEF OnAnsweredMissing, Starts
<1>5. CASE OnAnswered(p)
  BY <1>5 DEF OnAnswered, Starts
<1>6. CASE ConsentToAI(p)
  BY <1>6 DEF ConsentToAI, RecordConsent
<1>7. CASE ConsentToRecording(p)
  BY <1>7 DEF ConsentToRecording, RecordConsent
<1>8. CASE NoteDisclosure(p)
  BY <1>8 DEF NoteDisclosure, AppendTranscript
<1>9. CASE StartRecording(p)
  BY <1>9 DEF StartRecording
<1>10. CASE StartAgent(p)
  BY <1>10, NextTurnMoves DEF StartAgent
<1>. QED
  BY <1>1, <1>2, <1>3, <1>4, <1>5, <1>6, <1>7, <1>8, <1>9, <1>10

LEMMA AgentFilesOutcome ==
  ASSUME StateOK, HandlersOK, NEW p \in Posts,
         AgentDone(p) \/ Converse(p) \/ BargeIn(p) \/ InvokeTool(p) \/
         TraceTool(p) \/ IdentifySubscriber(p) \/ ToolSucceeded(p) \/
         ToolErred(p) \/ FinalHangUp(p) \/ FinalTransfer(p) \/ Transferred(p)
  PROVE  FilesOutcome(p)
<1>. USE PostFields, InHand
    DEF FilesOutcome, HandlersOK, StateOK, telephone, memory, store, flags, tables, handlers,
        Goto, GotoAt, Return, Finished,
        InTool, InAgent, InAnswered, InEnded, InCall, Disclosing
<1>1. CASE AgentDone(p)
  BY <1>1 DEF AgentDone
<1>2. CASE Converse(p)
  BY <1>2, NextTurnMoves DEF Converse, AppendTranscript
<1>3. CASE BargeIn(p)
  BY <1>3, NextTurnMoves DEF BargeIn
<1>4. CASE InvokeTool(p)
  BY <1>4 DEF InvokeTool
<1>5. CASE TraceTool(p)
  BY <1>5 DEF TraceTool
<1>6. CASE IdentifySubscriber(p)
  BY <1>6 DEF IdentifySubscriber
<1>7. CASE ToolSucceeded(p)
  BY <1>7, NextTurnMoves, OutcomeType, NoneAssumption DEF ToolSucceeded, SetOutcome
<1>8. CASE ToolErred(p)
  BY <1>8, NextTurnMoves, NoneAssumption DEF ToolErred, SetOutcome, Outcomes
<1>9. CASE FinalHangUp(p)
  BY <1>9, PostType DEF FinalHangUp, HangUp, EventTypes
<1>10. CASE FinalTransfer(p)
  BY <1>10 DEF FinalTransfer
<1>11. CASE Transferred(p)
  BY <1>11 DEF Transferred
<1>. QED
  BY <1>1, <1>2, <1>3, <1>4, <1>5, <1>6, <1>7, <1>8, <1>9, <1>10, <1>11

LEMMA EndFilesOutcome ==
  ASSUME StateOK, HandlersOK, NEW p \in Posts,
         OnEndedMissing(p) \/ OnEnded(p) \/ CloseAgent(p) \/ Forget(p) \/
         OnRecording(p) \/ SaveRecording(p) \/ SaveTranscript(p) \/ Throw(p)
  PROVE  FilesOutcome(p)
<1>. USE PostFields, InHand
    DEF FilesOutcome, HandlersOK, StateOK, telephone, memory, store, flags, tables, handlers,
        Goto, GotoAt, Return, Finished,
        InTool, InAgent, InAnswered, InEnded, InCall, Disclosing
<1>1. CASE OnEndedMissing(p)
  BY <1>1 DEF OnEndedMissing, Starts
<1>2. CASE OnEnded(p)
  BY <1>2 DEF OnEnded, Starts, OutcomeOrOther
<1>3. CASE CloseAgent(p)
  BY <1>3 DEF CloseAgent
<1>4. CASE Forget(p)
  <2>1. \A s \in Sessions : s[1] \in Calls /\ s # None
    BY NoneAssumption DEF Sessions
  <2>. QED  BY <1>4, <2>1 DEF Forget
<1>5. CASE OnRecording(p)
  BY <1>5, CopiesAssumption DEF OnRecording, Starts
<1>6. CASE SaveRecording(p)
  BY <1>6 DEF SaveRecording
<1>7. CASE SaveTranscript(p)
  BY <1>7 DEF SaveTranscript, AppendTranscript
<1>8. CASE Throw(p)
  BY <1>8 DEF Throw
<1>. QED
  BY <1>1, <1>2, <1>3, <1>4, <1>5, <1>6, <1>7, <1>8

LEMMA SetupFilesWords ==
  ASSUME StateOK, HandlersOK, NEW p \in Posts,
         OnInitiated(p) \/ ResolveUnknown(p) \/ AnswerUnknown(p) \/
         ResolveKnown(p) \/ Replied(p)
  PROVE  FilesWords(p)
<1>. USE PostFields, InHand
    DEF FilesWords, HandlersOK, StateOK, telephone, memory, store, flags, tables, handlers,
        Goto, GotoAt, Return, Finished,
        InTool, InAgent, InAnswered, InEnded, InCall, Disclosing
<1>1. CASE OnInitiated(p)
  BY <1>1, CopiesAssumption DEF OnInitiated, Starts
<1>2. CASE ResolveUnknown(p)
  BY <1>2 DEF ResolveUnknown
<1>3. CASE AnswerUnknown(p)
  BY <1>3 DEF AnswerUnknown, Answer
<1>4. CASE ResolveKnown(p)
  BY <1>4 DEF ResolveKnown, Register, Answer
<1>5. CASE Replied(p)
  BY <1>5 DEF Replied
<1>. QED
  BY <1>1, <1>2, <1>3, <1>4, <1>5

LEMMA AnsweredFilesWords ==
  ASSUME StateOK, HandlersOK, NEW p \in Posts,
         OnAnsweredUnknown(p) \/ Drop(p) \/ Dropped(p) \/
         OnAnsweredMissing(p) \/ OnAnswered(p) \/ ConsentToAI(p) \/
         ConsentToRecording(p) \/ NoteDisclosure(p) \/ StartRecording(p) \/
         StartAgent(p)
  PROVE  FilesWords(p)
<1>. USE PostFields, InHand
    DEF FilesWords, HandlersOK, StateOK, telephone, memory, store, flags, tables, handlers,
        Goto, GotoAt, Return, Finished,
        InTool, InAgent, InAnswered, InEnded, InCall, Disclosing
<1>1. CASE OnAnsweredUnknown(p)
  BY <1>1 DEF OnAnsweredUnknown, Starts
<1>2. CASE Drop(p)
  BY <1>2, PostType DEF Drop, HangUp, EventTypes
<1>3. CASE Dropped(p)
  BY <1>3 DEF Dropped
<1>4. CASE OnAnsweredMissing(p)
  BY <1>4 DEF OnAnsweredMissing, Starts
<1>5. CASE OnAnswered(p)
  BY <1>5 DEF OnAnswered, Starts
<1>6. CASE ConsentToAI(p)
  BY <1>6 DEF ConsentToAI, RecordConsent
<1>7. CASE ConsentToRecording(p)
  BY <1>7 DEF ConsentToRecording, RecordConsent
<1>8. CASE NoteDisclosure(p)
  BY <1>8 DEF NoteDisclosure, AppendTranscript
<1>9. CASE StartRecording(p)
  BY <1>9 DEF StartRecording
<1>10. CASE StartAgent(p)
  BY <1>10, NextTurnMoves DEF StartAgent
<1>. QED
  BY <1>1, <1>2, <1>3, <1>4, <1>5, <1>6, <1>7, <1>8, <1>9, <1>10

LEMMA AgentFilesWords ==
  ASSUME StateOK, HandlersOK, NEW p \in Posts,
         AgentDone(p) \/ Converse(p) \/ BargeIn(p) \/ InvokeTool(p) \/
         TraceTool(p) \/ IdentifySubscriber(p) \/ ToolSucceeded(p) \/
         ToolErred(p) \/ FinalHangUp(p) \/ FinalTransfer(p) \/ Transferred(p)
  PROVE  FilesWords(p)
<1>. USE PostFields, InHand
    DEF FilesWords, HandlersOK, StateOK, telephone, memory, store, flags, tables, handlers,
        Goto, GotoAt, Return, Finished,
        InTool, InAgent, InAnswered, InEnded, InCall, Disclosing
<1>1. CASE AgentDone(p)
  BY <1>1 DEF AgentDone
<1>2. CASE Converse(p)
  BY <1>2, NextTurnMoves DEF Converse, AppendTranscript
<1>3. CASE BargeIn(p)
  BY <1>3, NextTurnMoves DEF BargeIn
<1>4. CASE InvokeTool(p)
  BY <1>4 DEF InvokeTool
<1>5. CASE TraceTool(p)
  BY <1>5 DEF TraceTool
<1>6. CASE IdentifySubscriber(p)
  BY <1>6 DEF IdentifySubscriber
<1>7. CASE ToolSucceeded(p)
  BY <1>7, NextTurnMoves DEF ToolSucceeded, SetOutcome
<1>8. CASE ToolErred(p)
  BY <1>8, NextTurnMoves DEF ToolErred, SetOutcome
<1>9. CASE FinalHangUp(p)
  BY <1>9, PostType DEF FinalHangUp, HangUp, EventTypes
<1>10. CASE FinalTransfer(p)
  BY <1>10 DEF FinalTransfer
<1>11. CASE Transferred(p)
  BY <1>11 DEF Transferred
<1>. QED
  BY <1>1, <1>2, <1>3, <1>4, <1>5, <1>6, <1>7, <1>8, <1>9, <1>10, <1>11

LEMMA EndFilesWords ==
  ASSUME StateOK, HandlersOK, NEW p \in Posts,
         OnEndedMissing(p) \/ OnEnded(p) \/ CloseAgent(p) \/ Forget(p) \/
         OnRecording(p) \/ SaveRecording(p) \/ SaveTranscript(p) \/ Throw(p)
  PROVE  FilesWords(p)
<1>. USE PostFields, InHand
    DEF FilesWords, HandlersOK, StateOK, telephone, memory, store, flags, tables, handlers,
        Goto, GotoAt, Return, Finished,
        InTool, InAgent, InAnswered, InEnded, InCall, Disclosing
<1>1. CASE OnEndedMissing(p)
  BY <1>1 DEF OnEndedMissing, Starts
<1>2. CASE OnEnded(p)
  BY <1>2 DEF OnEnded, Starts, OutcomeOrOther
<1>3. CASE CloseAgent(p)
  BY <1>3 DEF CloseAgent
<1>4. CASE Forget(p)
  BY <1>4 DEF Forget
<1>5. CASE OnRecording(p)
  BY <1>5, CopiesAssumption DEF OnRecording, Starts
<1>6. CASE SaveRecording(p)
  BY <1>6 DEF SaveRecording
<1>7. CASE SaveTranscript(p)
  BY <1>7 DEF SaveTranscript, AppendTranscript
<1>8. CASE Throw(p)
  BY <1>8 DEF Throw
<1>. QED
  BY <1>1, <1>2, <1>3, <1>4, <1>5, <1>6, <1>7, <1>8

LEMMA HandlerFiles ==
  ASSUME StateOK, HandlersOK, NEW p \in Posts, Handle(p) \/ Throw(p)
  PROVE  StaysWithSession(p) /\ FilesOutcome(p) /\ FilesWords(p)
<1>1. CASE OnInitiated(p) \/ ResolveUnknown(p) \/ AnswerUnknown(p) \/
           ResolveKnown(p) \/ Replied(p)
  BY <1>1, SetupStaysWithSession, SetupFilesOutcome, SetupFilesWords
<1>2. CASE OnAnsweredUnknown(p) \/ Drop(p) \/ Dropped(p) \/
           OnAnsweredMissing(p) \/ OnAnswered(p) \/ ConsentToAI(p) \/
           ConsentToRecording(p) \/ NoteDisclosure(p) \/ StartRecording(p) \/
           StartAgent(p)
  BY <1>2, AnsweredStaysWithSession, AnsweredFilesOutcome, AnsweredFilesWords
<1>3. CASE AgentDone(p) \/ Converse(p) \/ BargeIn(p) \/ InvokeTool(p) \/
           TraceTool(p) \/ IdentifySubscriber(p) \/ ToolSucceeded(p) \/
           ToolErred(p) \/ FinalHangUp(p) \/ FinalTransfer(p) \/ Transferred(p)
  BY <1>3, AgentStaysWithSession, AgentFilesOutcome, AgentFilesWords
<1>4. CASE OnEndedMissing(p) \/ OnEnded(p) \/ CloseAgent(p) \/ Forget(p) \/
           OnRecording(p) \/ SaveRecording(p) \/
           SaveTranscript(p) \/ Throw(p)
  BY <1>4, EndStaysWithSession, EndFilesOutcome, EndFilesWords
<1>. QED  BY <1>1, <1>2, <1>3, <1>4 DEF Handle

\* Sessions are opened one after the other, and none is taken back.
LEMMA OpenedStays ==
  ASSUME StateOK, NEW p \in Posts, StaysWithSession(p)
  PROVE  /\ \A s \in Sessions : Opened(s) => Opened(s)'
         /\ created' # created =>
              at'[p] \in Sessions /\ ~ Opened(at'[p]) /\ Opened(at[p])'
<1>. USE PostFields, CopiesAssumption DEF StaysWithSession, Opened, StateOK
<1>1. \A c \in Calls : created[c] \in Nat /\ created'[c] \in Nat /\ created[c] <= created'[c]
  OBVIOUS
<1>2. \A s \in Sessions : s[1] \in Calls /\ s[2] \in Nat
  BY DEF Sessions, Copies
<1>3. \A s \in Sessions : Opened(s) => Opened(s)'
  BY <1>1, <1>2
<1>4. ASSUME created' # created
      PROVE  at'[p] \in Sessions /\ ~ Opened(at'[p]) /\ Opened(at[p])'
  <2>1. /\ created[p.call] < MaxCopies /\ created'[p.call] = created[p.call] + 1
        /\ at'[p] = <<p.call, created[p.call] + 1>>
    BY <1>4
  <2>2. created[p.call] + 1 \in Copies
    BY <1>1, <2>1 DEF Copies
  <2>3. at'[p][1] = p.call /\ at'[p][2] = created[p.call] + 1
    BY <2>1
  <2>4. at'[p] \in Sessions
    BY <2>1, <2>2 DEF Sessions
  <2>. QED  BY <1>1, <2>1, <2>3, <2>4
<1>. QED  BY <1>3, <1>4

LEMMA HandlerKeepsApart ==
  ASSUME StateOK, HandlersOK, NEW p \in Posts, Handle(p) \/ Throw(p),
         SessionsApart, Unregistered
  PROVE  SessionsApart'
<1>1. MovesAlone(p) /\ StaysWithSession(p) /\ FilesOutcome(p) /\ StateOK' /\ HandlersOK'
  BY HandlerStep, HandlerFiles
<1>2. \A s \in Sessions : Opened(s) => Opened(s)'
  BY <1>1, OpenedStays
<1>3. created' # created => at'[p] \in Sessions /\ ~ Opened(at'[p]) /\ Opened(at[p])'
  BY <1>1, OpenedStays
<1>4. \A q \in Posts : q.call \in Calls
  BY PostFields
<1>5. \A q \in Posts : pc[q] \in InCall => at[q] \in Sessions /\ Opened(at[q])
  BY InHand DEF SessionsApart
<1>6. \A c \in Calls : live[c] # None => live[c] \in Sessions /\ Opened(live[c])
  BY SessionType DEF SessionsApart, HandlersOK
<1>7. \A c \in Calls : created[c] > 0 => <<c, 1>> \in Sessions /\ Opened(<<c, 1>>)
  BY CopiesAssumption DEF Opened, Sessions, Copies, StateOK
<1>8. {"resolving"} \cup InAgent \subseteq InCall
  BY DEF InCall
<1>a. ASSUME NEW q \in Posts, pc'[q] \in InCall
      PROVE  Opened(at[q])'
  <2>1. CASE q # p
    BY <1>1, <1>2, <1>5, <1>a, <2>1 DEF MovesAlone, Opened
  <2>2. CASE q = p
    <3>1. pc[p] \in InCall /\ at'[p] = at[p] => Opened(at[p])'
      BY <1>2, <1>5 DEF Opened
    <3>2. created' # created => Opened(at[p])'
      BY <1>3
    <3>3. live[p.call] # None /\ at'[p] = live[p.call] => Opened(at[p])'
      BY <1>2, <1>4, <1>6 DEF Opened
    <3>4. created[p.call] > 0 /\ at'[p] = <<p.call, 1>> => Opened(at[p])'
      BY <1>2, <1>4, <1>7 DEF Opened
    <3>. QED  BY <1>1, <1>a, <2>2, <3>1, <3>2, <3>3, <3>4 DEF StaysWithSession
  <2>. QED  BY <2>1, <2>2
<1>b. ASSUME NEW c \in Calls, live'[c] # None
      PROVE  Opened(live[c])'
  BY <1>1, <1>2, <1>5, <1>6, <1>8, <1>b DEF StaysWithSession, Opened
<1>c. ASSUME NEW s \in Sessions, ~ Opened(s)'
      PROVE  outcome'[s] = None /\ stored'[s] = None /\ agent'[s] = "none"
  <2>1. ~ Opened(s) /\ outcome[s] = None /\ stored[s] = None /\ agent[s] = "none"
    BY <1>2, <1>c DEF SessionsApart
  <2>2. s # live[p.call]
    BY <1>4, <1>6, <2>1, SessionType, NoneAssumption DEF Sessions, Copies
  <2>3. ~ (s = at[p] /\ pc[p] \in {"resolving", "closing"} \cup InAgent)
    BY <1>5, <1>8, <2>1 DEF InCall, InEnded
  <2>. QED  BY <1>1, <2>1, <2>2, <2>3 DEF FilesOutcome
<1>d. ASSUME NEW q \in Posts, pc'[q] = "resolving"
      PROVE  /\ outcome'[at'[q]] = None /\ stored'[at'[q]] = None /\ agent'[at'[q]] = "none"
             /\ live'[q.call] # at'[q]
             /\ \A r \in Posts : r # q /\ pc'[r] \in Holding => at'[r] # at'[q]
  <2>1. CASE q = p
    <3>1. /\ created' # created /\ live' = live
          /\ at'[p] = <<p.call, created[p.call] + 1>>
      BY <1>1, <1>d, <2>1 DEF StaysWithSession, InCall
    <3>2. at'[p] \in Sessions /\ ~ Opened(at'[p])
      BY <1>3, <3>1
    <3>3. outcome[at'[p]] = None /\ stored[at'[p]] = None /\ agent[at'[p]] = "none"
      BY <3>2 DEF SessionsApart
    <3>4. at'[p] # live[p.call]
      BY <1>4, <1>6, <3>2, SessionType, NoneAssumption DEF Sessions, Copies
    <3>5. pc[p] = "idle"
      BY <1>1, <3>1 DEF StaysWithSession
    <3>6. outcome'[at'[p]] = None /\ stored'[at'[p]] = None /\ agent'[at'[p]] = "none"
      BY <1>1, <3>2, <3>3, <3>4, <3>5
         DEF FilesOutcome, InAgent, InTool
    <3>7. \A r \in Posts : r # p /\ pc'[r] \in Holding => at'[r] # at'[p]
      BY <1>1, <1>5, <3>2 DEF MovesAlone, Holding, InCall
    <3>. QED  BY <2>1, <3>1, <3>4, <3>6, <3>7
  <2>2. CASE q # p
    <3>1. pc[q] = "resolving" /\ at'[q] = at[q]
      BY <1>1, <1>d, <2>2 DEF MovesAlone
    <3>2. /\ outcome[at[q]] = None /\ stored[at[q]] = None /\ agent[at[q]] = "none"
          /\ live[q.call] # at[q]
          /\ \A r \in Posts : r # q /\ pc[r] \in Holding => at[r] # at[q]
      BY <3>1 DEF SessionsApart
    <3>3. at[q] \in Sessions /\ Opened(at[q]) /\ at[q] \in SessionsOf(q.call)
      BY <1>5, <1>8, <3>1, InHand
    <3>4. pc[p] \in {"resolving"} \cup InAgent => at[p] # at[q]
      BY <2>2, <3>2 DEF Holding
    <3>5. at[q] # live[p.call]
      BY <1>4, <3>2, <3>3, SessionType DEF HandlersOK, SessionsOf
    <3>b. ~ (at[q] = at[p] /\ pc[p] = "closing")
      <4>1. SUFFICES ASSUME at[q] = at[p], pc[p] = "closing"
                     PROVE  FALSE
        OBVIOUS
      <4>. QED  BY <3>2, <3>3, <4>1 DEF Unregistered, Engaged, InEnded
    <3>6. outcome'[at[q]] = None /\ stored'[at[q]] = None /\ agent'[at[q]] = "none"
      BY <1>1, <3>2, <3>3, <3>4, <3>5, <3>b DEF FilesOutcome
    <3>7. live'[q.call] # at[q]
      <4>1. None # at[q]
        BY <3>3, NoneAssumption DEF Sessions, Copies
      <4>. QED  BY <1>1, <1>4, <3>2, <3>4, <4>1 DEF StaysWithSession
    <3>8. pc'[p] \in Holding => at'[p] # at[q]
      <4>1. SUFFICES ASSUME pc'[p] \in Holding
                     PROVE  at'[p] # at[q]
        OBVIOUS
      <4>2. pc'[p] \in InCall /\ pc'[p] # "locating"
        BY <4>1 DEF Holding, InCall, InAgent, InTool, Disclosing
      <4>3. pc[p] \in Holding /\ at'[p] = at[p] => at'[p] # at[q]
        BY <2>2, <3>2
      <4>4. created' # created => at'[p] # at[q]
        BY <1>1, <1>3, <3>3 DEF StaysWithSession
      <4>. QED  BY <1>1, <3>5, <4>1, <4>2, <4>3, <4>4 DEF StaysWithSession
    <3>9. ASSUME NEW r \in Posts, r # q, pc'[r] \in Holding
          PROVE  at'[r] # at[q]
      BY <1>1, <3>2, <3>8, <3>9 DEF MovesAlone
    <3>. QED  BY <3>1, <3>6, <3>7, <3>9
  <2>. QED  BY <2>1, <2>2
<1>. QED  BY <1>a, <1>b, <1>c, <1>d DEF SessionsApart

LEMMA HandlerKeepsUnregistered ==
  ASSUME StateOK, HandlersOK, NEW p \in Posts, Handle(p) \/ Throw(p),
         SessionsApart, Unregistered
  PROVE  Unregistered'
<1>1. MovesAlone(p) /\ StaysWithSession(p) /\ FilesOutcome(p)
  BY HandlerStep, HandlerFiles
<1>2. SUFFICES ASSUME NEW s \in Sessions, agent'[s] = "none"
               PROVE  /\ live'[s[1]] # s /\ outcome'[s] = None /\ s \notin ended'
                      /\ \A q \in Posts : at'[q] = s => pc'[q] \notin Engaged
  BY DEF Unregistered
<1>3. s[1] \in Calls /\ s # None
  BY NoneAssumption DEF Sessions
<1>4. InAgent \subseteq Engaged /\ "closing" \in Engaged
  BY DEF Engaged, InEnded
<1>5. p.call \in Calls /\ (live[p.call] = s => live[s[1]] = s)
  BY <1>3, PostFields DEF HandlersOK, SessionsOf
<1>6. agent[s] = "none"
  BY <1>1, <1>2 DEF FilesOutcome
<1>7. /\ live[s[1]] # s /\ outcome[s] = None /\ s \notin ended
      /\ \A q \in Posts : at[q] = s => pc[q] \notin Engaged
  BY <1>6 DEF Unregistered
<1>8. live'[s[1]] # s /\ outcome'[s] = None /\ s \notin ended'
  <2>1. ~ (s = live[p.call]) /\ ~ (s = at[p] /\ pc[p] \in InAgent)
    BY <1>4, <1>5, <1>7
  <2>2. pc[p] = "resolving" /\ s = at[p] => outcome[s] = None
    BY <1>7
  <2>. QED  BY <1>1, <1>2, <1>7, <2>1, <2>2 DEF FilesOutcome
<1>9. ASSUME NEW q \in Posts, at'[q] = s, pc'[q] \in Engaged
      PROVE  FALSE
  <2>1. CASE q # p
    BY <1>1, <1>7, <1>9, <2>1 DEF MovesAlone
  <2>2. CASE q = p
    <3>1. pc'[p] \in InCall /\ pc'[p] \notin {"resolving", "locating"}
      BY <1>9, <2>2 DEF Engaged, InCall, InEnded, InAgent, InTool, Disclosing
    <3>2. live[p.call] # s
      BY <1>5, <1>7
    <3>. QED  BY <1>1, <1>7, <1>9, <2>2, <3>1, <3>2 DEF StaysWithSession
  <2>. QED  BY <2>1, <2>2
<1>. QED  BY <1>8, <1>9

LEMMA HandlerKeepsOutcome ==
  ASSUME StateOK, HandlersOK, NEW p \in Posts, Handle(p) \/ Throw(p), OutcomeInv
  PROVE  OutcomeInv'
<1>1. FilesOutcome(p) /\ SessionsApart' /\ Unregistered'
  BY HandlerFiles, HandlerKeepsApart, HandlerKeepsUnregistered DEF OutcomeInv
<1>2. pc[p] = "resolving" =>
        outcome[at[p]] = None /\ stored[at[p]] = None /\ agent[at[p]] = "none"
  BY DEF OutcomeInv, SessionsApart
<1>3. \A s \in Sessions :
        (s = live[p.call] /\ s # None) \/ (s = at[p] /\ pc[p] \in InAgent \cup {"closing"})
        => agent[s] # "none"
  <2>1. \A s \in Sessions : live[p.call] = s => s[1] = p.call
    BY PostFields, NoneAssumption DEF HandlersOK, SessionsOf, Sessions
  <2>. QED  BY <2>1 DEF OutcomeInv, Unregistered, Engaged, InEnded
<1>4. ASSUME NEW s \in Sessions
      PROVE  /\ outcome'[s] = None /\ agent'[s] # "none" =>
                  stored'[s] = IF s \in ended' THEN "other" ELSE None
             /\ outcome'[s] \notin {None, stored'[s]} =>
                  /\ outcome'[s] = "transferred"
                  /\ stored'[s] = IF s \in ended' THEN "other" ELSE None
  <2>1. agent[s] # "none" /\ outcome[s] = None =>
          stored[s] = IF s \in ended THEN "other" ELSE None
    BY DEF OutcomeInv, BlankUntilTold
  <2>2. outcome[s] \notin {None, stored[s]} =>
          outcome[s] = "transferred" /\ stored[s] = IF s \in ended THEN "other" ELSE None
    BY DEF OutcomeInv, StoredOutcomeCurrent
  <2>3. agent[s] = "none" => outcome[s] = None /\ s \notin ended
    BY DEF OutcomeInv, Unregistered
  <2>4. CASE /\ outcome'[s] = outcome[s] /\ stored'[s] = stored[s]
             /\ s \in ended' <=> s \in ended
             /\ agent'[s] = agent[s] \/ (s = at[p] /\ pc[p] = "closing")
    <3>1. agent'[s] # "none" => agent[s] # "none"
      BY <1>3, <2>4
    <3>. QED  BY <2>1, <2>2, <2>4, <3>1
  <2>5. CASE /\ (s = live[p.call] /\ s # None) \/ (s = at[p] /\ pc[p] \in InAgent)
             /\ \/ stored'[s] = outcome'[s] /\ outcome'[s] # None
                \/ /\ outcome[s] = None /\ outcome'[s] = None
                   /\ stored'[s] = "other" /\ s \in ended'
                \/ /\ outcome[s] = None /\ outcome'[s] = "transferred"
                   /\ stored'[s] = stored[s] /\ (s \in ended' <=> s \in ended)
    <3>1. agent[s] # "none"
      BY <1>3, <2>5
    <3>. QED  BY <2>1, <2>5, <3>1
  <2>6. CASE /\ s = at[p] /\ pc[p] = "resolving"
             /\ s \in ended' <=> s \in ended
             /\ \/ outcome'[s] = None /\ stored'[s] = stored[s]
                \/ outcome'[s] = outcome[s] /\ agent'[s] = agent[s]
    <3>1. outcome[s] = None /\ stored[s] = None /\ agent[s] = "none" /\ s \notin ended
      BY <1>2, <2>3, <2>6
    <3>. QED  BY <2>6, <3>1
  <2>. QED  BY <1>1, <2>4, <2>5, <2>6 DEF FilesOutcome
<1>. QED  BY <1>1, <1>4 DEF OutcomeInv, BlankUntilTold, StoredOutcomeCurrent

LEMMA NextOutcomeInv == IInv /\ OutcomeInv /\ [Next]_vars => OutcomeInv'
<1>. SUFFICES ASSUME IInv, OutcomeInv, [Next]_vars PROVE OutcomeInv'
  OBVIOUS
<1>1. CASE \E p \in Posts : Handle(p) \/ Throw(p)
  BY <1>1, HandlerKeepsOutcome DEF IInv, TypeOK
<1>2. CASE (\E c \in Calls : Telephony(c)) \/ (\E p \in Posts : Redeliver(p))
  BY <1>2, TelephonyFrame
     DEF OutcomeInv, SessionsApart, Opened, Unregistered, BlankUntilTold,
         StoredOutcomeCurrent, handlers, memory, store, flags
<1>3. CASE UNCHANGED vars
  BY <1>3 DEF OutcomeInv, SessionsApart, Opened, Unregistered, BlankUntilTold,
         StoredOutcomeCurrent, vars, memory, store, flags
<1>. QED  BY <1>1, <1>2, <1>3, StepCases

LEMMA InitOutcomeInv == Init => OutcomeInv
<1>1. Init => SessionsApart
  BY SessionType DEF Init, SessionsApart, InCall, InAgent, InTool, InEnded, Disclosing
<1>2. Init => Unregistered
  BY NoneAssumption
     DEF Init, Unregistered, Engaged, InAgent, InTool, InEnded, Disclosing, Sessions
<1>3. Init => BlankUntilTold /\ StoredOutcomeCurrent
  BY DEF Init, BlankUntilTold, StoredOutcomeCurrent
<1>. QED  BY <1>1, <1>2, <1>3 DEF OutcomeInv

\* The stored outcome of a session is the one in memory, whichever of the call's
\* handlers ended it meanwhile; a transfer noted in memory alone finds nothing stored,
\* or the "other" of an end that was filed during it.
THEOREM OutcomeNotLost == Spec => []StoredOutcomeCurrent
<1>1. OutcomeInv => StoredOutcomeCurrent
  BY DEF OutcomeInv
<1>. QED  BY <1>1, InitOutcomeInv, NextOutcomeInv, Invariance, PTL DEF Spec
-----------------------------------------------------------------------------
(* Layer 5: the recording and the caller's words, filed with a session of the call. *)

\* A call that was opened once has one session.
LEMMA OnlySession ==
  ASSUME StateOK, NEW c \in Calls, created[c] <= 1,
         NEW s \in SessionsOf(c), NEW u \in SessionsOf(c), Opened(s), Opened(u)
  PROVE  s = u
<1>1. \A r \in SessionsOf(c) : r = <<c, r[2]>> /\ r[1] = c /\ r[2] \in Nat /\ r[2] >= 1
  BY CopiesAssumption DEF SessionsOf, Copies
<1>2. created[c] \in Nat
  BY CopiesAssumption DEF StateOK
<1>3. s[2] = 1 /\ u[2] = 1
  BY <1>1, <1>2 DEF Opened
<1>. QED  BY <1>1, <1>3

LEMMA HandlerKeepsFiling ==
  ASSUME IInv, OutcomeInv, NEW p \in Posts, Handle(p) \/ Throw(p), FilingInv
  PROVE  FilingInv'
<1>. USE DEF IInv, TypeOK, FilingInv
<1>1. /\ MovesAlone(p) /\ ThroughDisclosure(p) /\ FilesWords(p) /\ StaysWithSession(p)
      /\ StateOK' /\ HandlersOK' /\ SessionsApart'
  BY HandlerStep, HandlerFiles, HandlerKeepsApart DEF OutcomeInv
<1>2. \A s \in Sessions : (Disclosed(s) => Disclosed(s)') /\ (Opened(s) => Opened(s)')
  BY <1>1, OpenedStays DEF MovesAlone, Disclosed
<1>3. \A c \in Calls : SessionsOf(c) \subseteq Sessions /\ \A s \in SessionsOf(c) : s[1] = c
  BY SessionType DEF SessionsOf
<1>4. pc[p] \in InCall => /\ at[p] \in SessionsOf(p.call) /\ at[p] \in Sessions
                          /\ p.call \in Calls /\ at[p][1] = p.call /\ Opened(at[p])
  BY <1>3, InHand, PostFields DEF SessionsApart
<1>5. pc[p] \in InAgent => Disclosed(at[p])
  BY DEF DisclosureProgress
<1>6. pc[p] \in {"locating", "saving"} => \E u \in SessionsOf(p.call) : Disclosed(u)
  BY <1>1, <1>4 DEF RecordedCalls, MovesAlone, InCall, RecordingAfterConsent
<1>7. "next" \in InAgent /\ InAgent \cup Disclosing \cup {"locating", "saving"} \subseteq InCall
  BY DEF InAgent, InCall
<1>b. ASSUME NEW q \in posts', q.type = "recording"
      PROVE  q.call \in recording'
  BY <1>1, <1>b DEF MovesAlone, FilesWords, RecordedCalls
<1>c. ASSUME NEW q \in Posts, pc'[q] \in {"locating", "saving"}
      PROVE  q.type = "recording"
  BY <1>1, <1>c DEF MovesAlone, FilesWords, RecordedCalls
<1>d. ASSUME NEW s \in Sessions, s \in saved' \/ <<s, "caller">> \in transcripts'
      PROVE  Opened(s)' /\ \E u \in SessionsOf(s[1]) : Disclosed(u)'
  <2>1. s[1] \in Calls
    BY DEF Sessions
  <2>2. Opened(s) /\ \E u \in SessionsOf(s[1]) : Disclosed(u)
    <3>1. CASE s \in saved \/ <<s, "caller">> \in transcripts
      BY <3>1 DEF RecordedCalls
    <3>2. CASE s = at[p] /\ pc[p] \in {"locating", "next", "saving"}
      BY <1>4, <1>5, <1>6, <1>7, <3>2
    <3>. QED  BY <1>1, <1>d, <3>1, <3>2 DEF FilesWords
  <2>3. PICK u \in SessionsOf(s[1]) : Disclosed(u)
    BY <2>2
  <2>4. Disclosed(u)' /\ Opened(s)'
    BY <1>2, <1>3, <2>1, <2>2, <2>3
  <2>. QED  BY <2>4
<1>e. ASSUME NEW s \in Sessions, Disclosed(s)'
      PROVE  Opened(s)'
  <2>1. CASE Disclosed(s)
    BY <1>2, <2>1 DEF RecordedCalls
  <2>2. CASE s = at[p] /\ pc[p] \in Disclosing
    BY <1>2, <1>4, <1>7, <2>2
  <2>. QED  BY <1>1, <1>e, <2>1, <2>2 DEF FilesWords, Disclosed
<1>8. RecordedCalls'
  <2>1. \A s \in Sessions : s \in saved' \/ <<s, "caller">> \in transcripts' =>
          Opened(s)' /\ \E u \in SessionsOf(s[1]) : Disclosed(u)'
    BY <1>d
  <2>2. \A s \in Sessions : SessionsOf(s[1])' = SessionsOf(s[1])
    BY DEF SessionsOf
  <2>. QED  BY <1>b, <1>c, <1>e, <2>1, <2>2 DEF RecordedCalls
<1>. QED  BY <1>1, <1>8

LEMMA TelephonyKeepsFiling ==
  ASSUME StateOK, FilingInv,
         (\E c \in Calls : Telephony(c)) \/ (\E p \in Posts : Redeliver(p))
  PROVE  FilingInv'
<1>1. UNCHANGED <<recording, handlers, memory, store>>
  BY TelephonyFrame
<1>2. ASSUME NEW q \in posts', q.type = "recording"
      PROVE  q.call \in recording
  <2>1. CASE q \in posts
    BY <1>2, <2>1 DEF FilingInv, RecordedCalls
  <2>2. ASSUME NEW c \in Calls, Telephony(c), q \notin posts
        PROVE  q.call \in recording
    BY <1>2, <2>2 DEF Telephony, Arrive, Connect, CallerHangsUp, RecordingReady, Post
  <2>3. ASSUME NEW p \in Posts, Redeliver(p), q \notin posts
        PROVE  q.call \in recording
    BY <1>2, <2>3, CopyType DEF Redeliver, FilingInv, RecordedCalls
  <2>. QED  BY <2>1, <2>2, <2>3
<1>3. SessionsApart'
  BY <1>1 DEF FilingInv, SessionsApart, Opened, handlers, memory, store
<1>4. RecordedCalls'
  BY <1>1, <1>2 DEF FilingInv, RecordedCalls, Disclosed, Opened, SessionsOf,
     handlers, store, tables, flags
<1>. QED  BY <1>3, <1>4 DEF FilingInv

LEMMA InitFilingInv == Init => FilingInv
<1>1. Init => RecordedCalls
  BY DEF Init, RecordedCalls, Disclosed, ConsentKinds
<1>. QED  BY <1>1, InitOutcomeInv DEF FilingInv, OutcomeInv

LEMMA NextFilingInv == IInv /\ OutcomeInv /\ FilingInv /\ [Next]_vars => FilingInv'
<1>. SUFFICES ASSUME IInv, OutcomeInv, FilingInv, [Next]_vars PROVE FilingInv'
  OBVIOUS
<1>1. CASE \E p \in Posts : Handle(p) \/ Throw(p)
  BY <1>1, HandlerKeepsFiling
<1>2. CASE (\E c \in Calls : Telephony(c)) \/ (\E p \in Posts : Redeliver(p))
  BY <1>2, TelephonyKeepsFiling DEF IInv, TypeOK
<1>3. CASE UNCHANGED vars
  BY <1>3 DEF FilingInv, SessionsApart, Opened, RecordedCalls, SessionsOf, Disclosed,
     vars, telephone, memory, store, tables, flags
<1>. QED  BY <1>1, <1>2, <1>3, StepCases

LEMMA FilingInvFiles == IInv /\ FilingInv => RecordingFiledWithConsent
<1>. SUFFICES ASSUME IInv, FilingInv, NEW s \in Sessions,
                     s \in saved \/ <<s, "caller">> \in transcripts
              PROVE  /\ \E u \in SessionsOf(s[1]) : Disclosed(u)
                     /\ created[s[1]] = 1 => Disclosed(s)
  BY DEF RecordingFiledWithConsent
<1>1. s[1] \in Calls /\ s \in SessionsOf(s[1])
  BY DEF Sessions, SessionsOf
<1>2. Opened(s) /\ \E u \in SessionsOf(s[1]) : Disclosed(u)
  BY DEF FilingInv, RecordedCalls
<1>3. PICK u \in SessionsOf(s[1]) : Disclosed(u)
  BY <1>2
<1>4. Opened(u)
  BY <1>1, <1>3, SessionType DEF FilingInv, RecordedCalls
<1>5. created[s[1]] = 1 => s = u
  BY <1>1, <1>2, <1>4, OnlySession DEF IInv, TypeOK
<1>. QED  BY <1>3, <1>5

\* The recording and the caller's words are filed for a caller who agreed, with the very
\* session of the agreement unless the call was opened twice, however often ClawOps posts.
THEOREM FiledWithConsent == Spec => []RecordingFiledWithConsent
  BY InitOutcomeInv, NextOutcomeInv, InitFilingInv, NextFilingInv, FilingInvFiles,
     Invariance, PTL DEF Spec
-----------------------------------------------------------------------------
(* The ledger. *)

LEMMA LedgerMoves ==
  ASSUME NEW p \in Posts, Handle(p) \/ Throw(p)
  PROVE  \/ UNCHANGED <<created, consents, traces, saved, ended>>
         \/ OnInitiated(p) \/ ConsentToAI(p) \/ ConsentToRecording(p)
         \/ TraceTool(p) \/ OnEnded(p) \/ SaveRecording(p)
<1>. USE DEF store, flags, tables, Return
<1>1. CASE ResolveUnknown(p) \/ AnswerUnknown(p) \/ ResolveKnown(p) \/ Replied(p)
  BY <1>1 DEF ResolveUnknown, AnswerUnknown, ResolveKnown, Register, Replied
<1>2. CASE OnAnsweredUnknown(p) \/ Drop(p) \/ Dropped(p) \/ OnAnsweredMissing(p) \/
           OnAnswered(p) \/ NoteDisclosure(p) \/ StartRecording(p) \/ StartAgent(p)
  BY <1>2 DEF OnAnsweredUnknown, Drop, Dropped, OnAnsweredMissing, OnAnswered,
     NoteDisclosure, AppendTranscript, StartRecording, StartAgent
<1>3. CASE AgentDone(p) \/ Converse(p) \/ BargeIn(p) \/ InvokeTool(p) \/
           IdentifySubscriber(p) \/ ToolSucceeded(p) \/ ToolErred(p) \/
           FinalHangUp(p) \/ FinalTransfer(p) \/ Transferred(p)
  BY <1>3 DEF AgentDone, Converse, AppendTranscript, BargeIn, InvokeTool,
     IdentifySubscriber, ToolSucceeded, ToolErred, SetOutcome, FinalHangUp,
     FinalTransfer, Transferred
<1>4. CASE OnEndedMissing(p) \/ CloseAgent(p) \/ Forget(p) \/ OnRecording(p) \/
           SaveTranscript(p) \/ Throw(p)
  BY <1>4 DEF OnEndedMissing, CloseAgent, Forget, OnRecording, SaveTranscript,
     AppendTranscript, Throw
<1>. QED  BY <1>1, <1>2, <1>3, <1>4 DEF Handle

\* The ledger's variables, as the model's state has them.
OpenedSet   == {s \in Sessions : s[2] <= created[s[1]]}
ConsentedSet == {s \in Sessions : Disclosed(s)}
WorkedSet   == {s \in Sessions : Traced(s)}

LedgerUnchanged ==
  UNCHANGED <<OpenedSet, ConsentedSet, WorkedSet, saved, ended>>

LEMMA LedgerStutters ==
  ASSUME UNCHANGED <<created, consents, traces, saved, ended>>
  PROVE  LedgerUnchanged
  BY DEF LedgerUnchanged, OpenedSet, ConsentedSet, WorkedSet, Disclosed, Traced

LEMMA LedgerStep ==
  ASSUME IInv, OutcomeInv, FilingInv, NEW p \in Posts, Handle(p) \/ Throw(p)
  PROVE  Ledger!Next \/ LedgerUnchanged
<1>. USE DEF OpenedSet, ConsentedSet, WorkedSet, LedgerUnchanged
<1>1. StaysWithSession(p) /\ StateOK /\ HandlersOK /\ SessionsApart
  BY HandlerFiles DEF IInv, TypeOK, OutcomeInv
<1>2. pc[p] \in InCall => at[p] \in Sessions /\ at[p] \in OpenedSet
  BY <1>1, InHand DEF SessionsApart, Opened
<1>3. live[p.call] # None => live[p.call] \in Sessions /\ live[p.call] \in OpenedSet
  BY <1>1, InHand, PostFields DEF SessionsApart, Opened
<1>a. CASE OnInitiated(p)
  <2>1. created' = [created EXCEPT ![p.call] = @ + 1] /\ created[p.call] < MaxCopies
    BY <1>a DEF OnInitiated
  <2>2. UNCHANGED <<ConsentedSet, WorkedSet, saved, ended>>
    BY <1>a DEF OnInitiated, Disclosed, Traced, tables, flags
  <2>3. DEFINE s == <<p.call, created[p.call] + 1>>
  <2>4. s \in Sessions /\ s \notin OpenedSet
    BY <1>1, <2>1, PostFields, CopiesAssumption DEF Sessions, Copies, StateOK
  <2>5. OpenedSet' = OpenedSet \cup {s}
    <3>1. ASSUME NEW r \in Sessions
          PROVE  r[2] <= created'[r[1]] <=> r[2] <= created[r[1]] \/ r = s
      <4>1. /\ r[1] \in Calls /\ r[2] \in Nat /\ r = <<r[1], r[2]>>
            /\ created[r[1]] \in Nat
        BY <1>1 DEF Sessions, Copies, StateOK
      <4>2. CASE r[1] = p.call
        BY <1>1, <2>1, <4>1, <4>2 DEF StateOK
      <4>3. CASE r[1] # p.call
        BY <1>1, <2>1, <4>1, <4>3 DEF StateOK
      <4>. QED  BY <4>2, <4>3
    <3>. QED  BY <2>4, <3>1
  <2>. QED  BY <2>2, <2>4, <2>5 DEF Ledger!Next, Ledger!Open
<1>b. CASE ConsentToAI(p) \/ ConsentToRecording(p)
  <2>1. /\ pc[p] \in InCall
        /\ \E k \in ConsentKinds : consents' = consents \cup {<<at[p], k>>}
        /\ UNCHANGED <<created, traces, saved, ended>>
    BY <1>b DEF ConsentToAI, ConsentToRecording, RecordConsent, ConsentKinds, InCall,
       Disclosing, flags
  <2>2. UNCHANGED <<OpenedSet, WorkedSet, saved, ended>>
    BY <2>1 DEF Traced
  <2>3. ConsentedSet' \in {ConsentedSet, ConsentedSet \cup {at[p]}}
    <3>1. \A r \in Sessions : r # at[p] => (Disclosed(r)' <=> Disclosed(r))
      BY <2>1 DEF Disclosed
    <3>2. at[p] \in Sessions => (Disclosed(at[p]) => at[p] \in ConsentedSet')
      BY <2>1 DEF Disclosed
    <3>. QED  BY <1>2, <2>1, <3>1, <3>2
  <2>. QED  BY <1>2, <2>1, <2>2, <2>3 DEF Ledger!Next, Ledger!Consent
<1>c. CASE TraceTool(p)
  <2>1. /\ pc[p] \in InAgent /\ pc[p] \in InCall /\ pc[p] \in InTool
        /\ traces' = traces \cup {<<at[p], tool[p]>>}
        /\ UNCHANGED <<created, consents, saved, ended>>
    BY <1>c DEF TraceTool, InAgent, InTool, InCall, flags
  <2>2. at[p] \in ConsentedSet
    BY <1>2, <2>1 DEF IInv, DisclosureProgress
  <2>3. UNCHANGED <<OpenedSet, ConsentedSet, saved, ended>>
    BY <2>1 DEF Disclosed
  <2>4. tool[p] \in Tools
    BY <1>1, <2>1, InHand
  <2>5. WorkedSet' = WorkedSet \cup {at[p]}
    BY <1>2, <2>1, <2>4 DEF Traced
  <2>. QED  BY <1>2, <2>1, <2>2, <2>3, <2>5 DEF Ledger!Next, Ledger!Work
<1>d. CASE SaveRecording(p)
  <2>1. /\ pc[p] = "locating" /\ pc[p] \in InCall /\ saved' = saved \cup {at[p]}
        /\ UNCHANGED <<created, consents, traces, ended>>
    BY <1>d DEF SaveRecording, InCall, tables
  <2>2. p \in posts /\ p.type = "recording" /\ p.call \in Calls /\ at[p] \in SessionsOf(p.call)
    BY <1>1, <2>1, PostFields, InHand DEF HandlersOK, FilingInv, RecordedCalls
  <2>3. PICK u \in SessionsOf(p.call) : Disclosed(u)
    BY <2>2 DEF FilingInv, RecordedCalls, IInv, RecordingAfterConsent
  <2>4. u \in Sessions /\ u \in OpenedSet /\ u \in ConsentedSet /\ u[1] = p.call
    BY <2>2, <2>3, SessionType DEF FilingInv, RecordedCalls, Opened, SessionsOf
  <2>5. at[p][1] = p.call
    BY <2>2 DEF SessionsOf
  <2>6. \A s \in Sessions : [r \in Sessions |-> r[1]][s] = s[1]
    OBVIOUS
  <2>7. u \in Ledger!SameCall(at[p])
    BY <1>2, <2>1, <2>4, <2>5, <2>6 DEF Ledger!SameCall
  <2>8. UNCHANGED <<OpenedSet, ConsentedSet, WorkedSet, ended>>
    BY <2>1 DEF Disclosed, Traced
  <2>9. Ledger!Capture(at[p])
    BY <1>2, <2>1, <2>4, <2>7, <2>8 DEF Ledger!Capture
  <2>. QED  BY <1>2, <2>1, <2>9 DEF Ledger!Next
<1>e. CASE OnEnded(p)
  <2>1. /\ live[p.call] # None /\ ended' = ended \cup {live[p.call]}
        /\ UNCHANGED <<created, consents, traces, saved>>
    BY <1>e DEF OnEnded, tables
  <2>2. UNCHANGED <<OpenedSet, ConsentedSet, WorkedSet, saved>>
    BY <2>1 DEF Disclosed, Traced
  <2>. QED  BY <1>3, <2>1, <2>2 DEF Ledger!Next, Ledger!Close
<1>. QED  BY <1>a, <1>b, <1>c, <1>d, <1>e, LedgerMoves, LedgerStutters

\* SessionHandler keeps the ledger, however often ClawOps posts: every step of its
\* handlers is a step of CallLedger or leaves it alone.
THEOREM Refinement == Spec => ImplementsLedger
<1>1. Init => Ledger!Init
  BY CopiesAssumption
     DEF Init, Ledger!Init, Sessions, Copies, Disclosed, Traced, ConsentKinds
<1>2. IInv /\ OutcomeInv /\ FilingInv /\ [Next]_vars => [Ledger!Next]_(Ledger!ledger)
  <2>. SUFFICES ASSUME IInv, OutcomeInv, FilingInv, [Next]_vars
                PROVE  [Ledger!Next]_(Ledger!ledger)
    OBVIOUS
  <2>1. LedgerUnchanged => UNCHANGED Ledger!ledger
    BY DEF LedgerUnchanged, OpenedSet, ConsentedSet, WorkedSet, Ledger!ledger
  <2>2. CASE \E p \in Posts : Handle(p) \/ Throw(p)
    BY <2>1, <2>2, LedgerStep
  <2>3. CASE (\E c \in Calls : Telephony(c)) \/ (\E p \in Posts : Redeliver(p))
    BY <2>1, <2>3, TelephonyFrame, LedgerStutters DEF store, tables, flags
  <2>4. CASE UNCHANGED vars
    BY <2>1, <2>4, LedgerStutters DEF vars, store, tables, flags
  <2>. QED  BY <2>2, <2>3, <2>4, StepCases
<1>. QED
  BY <1>1, <1>2, Invariance, InitOutcomeInv, NextOutcomeInv, InitFilingInv, NextFilingInv,
     PTL DEF Spec, ImplementsLedger, Ledger!Spec

-----------------------------------------------------------------------------
(* Layer 6: the end of a call, whatever comes before, after or again.       *)

\* The step of a handler p takes a call up for its end as it is live, registers only
\* where it resolved, and closes the agent session before it forgets the call.
TearsDown(p) ==
  /\ pc'[p] \in {"resolving", "refusing", "answering"} =>
       p.type = "initiated" \/ pc[p] \in {"resolving", "refusing", "answering"}
  /\ p.type = "ended" /\ pc[p] = "idle" =>
       /\ p.call \notin unknown' /\ live' = live
       /\ \/ pc'[p] = "ignored" /\ live[p.call] = None
          \/ pc'[p] = "closing" /\ at'[p] = live[p.call]
  /\ pc'[p] \in InEnded => pc[p] = "idle" \/ (pc[p] \in InEnded /\ at'[p] = at[p])
  /\ pc'[p] \in {"done", "ignored"} => pc[p] \notin {"closing"}
  /\ pc[p] = "forgetting" /\ pc'[p] = "done" => live'[p.call] = None
  /\ pc'[p] = "forgetting" => at'[p] = at[p] /\ agent'[at[p]] # "open"
  /\ \A s \in Sessions : agent'[s] = "open" =>
       \/ agent[s] = "open"
       \/ s = at[p] /\ pc[p] = "resolving" /\ live'[p.call] = s
  /\ \A c \in Calls : live[c] # None /\ live'[c] # live[c] =>
       /\ c = p.call
       /\ pc[p] = "forgetting" \/ (pc[p] = "resolving" /\ live'[c] = at[p])

LEMMA SetupTearsDown ==
  ASSUME StateOK, HandlersOK, NEW p \in Posts,
         OnInitiated(p) \/ ResolveUnknown(p) \/ AnswerUnknown(p) \/
         ResolveKnown(p) \/ Replied(p)
  PROVE  TearsDown(p)
<1>. USE PostFields, InHand, SessionType
    DEF TearsDown, HandlersOK, StateOK, telephone, memory, store, flags, tables, handlers,
        Goto, GotoAt, Return, Finished,
        InTool, InAgent, InAnswered, InEnded, InCall, Disclosing
<1>1. CASE OnInitiated(p)
  BY <1>1, CopiesAssumption DEF OnInitiated, Starts
<1>2. CASE ResolveUnknown(p)
  BY <1>2 DEF ResolveUnknown
<1>3. CASE AnswerUnknown(p)
  BY <1>3 DEF AnswerUnknown, Answer
<1>4. CASE ResolveKnown(p)
  BY <1>4 DEF ResolveKnown, Register, Answer
<1>5. CASE Replied(p)
  BY <1>5 DEF Replied
<1>. QED
  BY <1>1, <1>2, <1>3, <1>4, <1>5

LEMMA AnsweredTearsDown ==
  ASSUME StateOK, HandlersOK, NEW p \in Posts,
         OnAnsweredUnknown(p) \/ Drop(p) \/ Dropped(p) \/
         OnAnsweredMissing(p) \/ OnAnswered(p) \/ ConsentToAI(p) \/
         ConsentToRecording(p) \/ NoteDisclosure(p) \/ StartRecording(p) \/
         StartAgent(p)
  PROVE  TearsDown(p)
<1>. USE PostFields, InHand, SessionType
    DEF TearsDown, HandlersOK, StateOK, telephone, memory, store, flags, tables, handlers,
        Goto, GotoAt, Return, Finished,
        InTool, InAgent, InAnswered, InEnded, InCall, Disclosing
<1>1. CASE OnAnsweredUnknown(p)
  BY <1>1 DEF OnAnsweredUnknown, Starts
<1>2. CASE Drop(p)
  BY <1>2, PostType DEF Drop, HangUp, EventTypes
<1>3. CASE Dropped(p)
  BY <1>3 DEF Dropped
<1>4. CASE OnAnsweredMissing(p)
  BY <1>4 DEF OnAnsweredMissing, Starts
<1>5. CASE OnAnswered(p)
  BY <1>5 DEF OnAnswered, Starts
<1>6. CASE ConsentToAI(p)
  BY <1>6 DEF ConsentToAI, RecordConsent
<1>7. CASE ConsentToRecording(p)
  BY <1>7 DEF ConsentToRecording, RecordConsent
<1>8. CASE NoteDisclosure(p)
  BY <1>8 DEF NoteDisclosure, AppendTranscript
<1>9. CASE StartRecording(p)
  BY <1>9 DEF StartRecording
<1>10. CASE StartAgent(p)
  BY <1>10, NextTurnMoves DEF StartAgent
<1>. QED
  BY <1>1, <1>2, <1>3, <1>4, <1>5, <1>6, <1>7, <1>8, <1>9, <1>10

LEMMA AgentTearsDown ==
  ASSUME StateOK, HandlersOK, NEW p \in Posts,
         AgentDone(p) \/ Converse(p) \/ BargeIn(p) \/ InvokeTool(p) \/
         TraceTool(p) \/ IdentifySubscriber(p) \/ ToolSucceeded(p) \/
         ToolErred(p) \/ FinalHangUp(p) \/ FinalTransfer(p) \/ Transferred(p)
  PROVE  TearsDown(p)
<1>. USE PostFields, InHand, SessionType
    DEF TearsDown, HandlersOK, StateOK, telephone, memory, store, flags, tables, handlers,
        Goto, GotoAt, Return, Finished,
        InTool, InAgent, InAnswered, InEnded, InCall, Disclosing
<1>1. CASE AgentDone(p)
  BY <1>1 DEF AgentDone
<1>2. CASE Converse(p)
  BY <1>2, NextTurnMoves DEF Converse, AppendTranscript
<1>3. CASE BargeIn(p)
  BY <1>3, NextTurnMoves DEF BargeIn
<1>4. CASE InvokeTool(p)
  BY <1>4 DEF InvokeTool
<1>5. CASE TraceTool(p)
  BY <1>5 DEF TraceTool
<1>6. CASE IdentifySubscriber(p)
  BY <1>6 DEF IdentifySubscriber
<1>7. CASE ToolSucceeded(p)
  BY <1>7, NextTurnMoves DEF ToolSucceeded, SetOutcome
<1>8. CASE ToolErred(p)
  BY <1>8, NextTurnMoves DEF ToolErred, SetOutcome
<1>9. CASE FinalHangUp(p)
  BY <1>9, PostType DEF FinalHangUp, HangUp, EventTypes
<1>10. CASE FinalTransfer(p)
  BY <1>10 DEF FinalTransfer
<1>11. CASE Transferred(p)
  BY <1>11 DEF Transferred
<1>. QED
  BY <1>1, <1>2, <1>3, <1>4, <1>5, <1>6, <1>7, <1>8, <1>9, <1>10, <1>11

LEMMA EndTearsDown ==
  ASSUME StateOK, HandlersOK, NEW p \in Posts,
         OnEndedMissing(p) \/ OnEnded(p) \/ CloseAgent(p) \/ Forget(p) \/
         OnRecording(p) \/ SaveRecording(p) \/ SaveTranscript(p) \/ Throw(p)
  PROVE  TearsDown(p)
<1>. USE PostFields, InHand, SessionType
    DEF TearsDown, HandlersOK, StateOK, telephone, memory, store, flags, tables, handlers,
        Goto, GotoAt, Return, Finished,
        InTool, InAgent, InAnswered, InEnded, InCall, Disclosing
<1>1. CASE OnEndedMissing(p)
  BY <1>1 DEF OnEndedMissing, Starts
<1>2. CASE OnEnded(p)
  BY <1>2 DEF OnEnded, Starts, OutcomeOrOther
<1>3. CASE CloseAgent(p)
  BY <1>3 DEF CloseAgent
<1>4. CASE Forget(p)
  BY <1>4 DEF Forget
<1>5. CASE OnRecording(p)
  BY <1>5, CopiesAssumption DEF OnRecording, Starts
<1>6. CASE SaveRecording(p)
  BY <1>6 DEF SaveRecording
<1>7. CASE SaveTranscript(p)
  BY <1>7 DEF SaveTranscript, AppendTranscript
<1>8. CASE Throw(p)
  BY <1>8 DEF Throw
<1>. QED
  BY <1>1, <1>2, <1>3, <1>4, <1>5, <1>6, <1>7, <1>8

LEMMA HandlerTearsDown ==
  ASSUME StateOK, HandlersOK, NEW p \in Posts, Handle(p) \/ Throw(p)
  PROVE  TearsDown(p)
<1>1. CASE OnInitiated(p) \/ ResolveUnknown(p) \/ AnswerUnknown(p) \/
           ResolveKnown(p) \/ Replied(p)
  BY <1>1, SetupTearsDown
<1>2. CASE OnAnsweredUnknown(p) \/ Drop(p) \/ Dropped(p) \/
           OnAnsweredMissing(p) \/ OnAnswered(p) \/ ConsentToAI(p) \/
           ConsentToRecording(p) \/ NoteDisclosure(p) \/ StartRecording(p) \/
           StartAgent(p)
  BY <1>2, AnsweredTearsDown
<1>3. CASE AgentDone(p) \/ Converse(p) \/ BargeIn(p) \/ InvokeTool(p) \/
           TraceTool(p) \/ IdentifySubscriber(p) \/ ToolSucceeded(p) \/
           ToolErred(p) \/ FinalHangUp(p) \/ FinalTransfer(p) \/ Transferred(p)
  BY <1>3, AgentTearsDown
<1>4. CASE OnEndedMissing(p) \/ OnEnded(p) \/ CloseAgent(p) \/ Forget(p) \/
           OnRecording(p) \/ SaveRecording(p) \/
           SaveTranscript(p) \/ Throw(p)
  BY <1>4, EndTearsDown
<1>. QED  BY <1>1, <1>2, <1>3, <1>4 DEF Handle

LEMMA HandlerKeepsTearDown ==
  ASSUME IInv, OutcomeInv, FilingInv, TearDownInv, Note,
         NEW p \in Posts, Handle(p) \/ Throw(p)
  PROVE  TearDownInv'
<1>1. /\ StateOK /\ HandlersOK /\ SessionsApart /\ Unregistered /\ RecordedCalls
      /\ StateOK' /\ HandlersOK'
      /\ MovesAlone(p) /\ StaysWithSession(p) /\ TearsDown(p)
  BY HandlerStep, HandlerFiles, HandlerTearsDown DEF IInv, TypeOK, OutcomeInv, FilingInv
<1>2. p.call \in Calls /\ p \in posts'
  BY <1>1, PostFields DEF MovesAlone
<1>3. \A q \in Posts : pc[q] # "idle" => q \in posts
  BY <1>1 DEF HandlersOK
<1>4. \A c \in Calls : c \notin late' =>
        /\ c \notin late
        /\ EndLookedUp(c) => live'[c] \in {live[c], None} /\ ~ (c \in unknown' \ unknown)
  BY DEF Note
<1>5. pc[p] = "resolving" => /\ at[p] \in Sessions /\ at[p] \in SessionsOf(p.call)
                             /\ agent[at[p]] = "none" /\ Opened(at[p])
  BY <1>1, InHand DEF SessionsApart, InCall
<1>6. pc[p] = "resolving" => \A q \in Posts : pc[q] \in InEnded => at[q] # at[p]
  BY <1>1, <1>5 DEF Unregistered, Engaged
<1>a. ASSUME NEW q \in Posts, pc'[q] \in {"resolving", "refusing", "answering"}
      PROVE  q.type = "initiated"
  BY <1>1, <1>a DEF TearsDown, TearDownInv, MovesAlone
<1>b. ASSUME NEW q \in Posts, q.type = "ended", pc'[q] # "idle", q.call \notin late'
      PROVE  /\ q.call \notin unknown'
             /\ pc'[q] \in {"done", "ignored"} => live'[q.call] = None
             /\ pc'[q] \in InEnded => live'[q.call] \in {at'[q], None}
  <2>0. q.call \in Calls /\ q.call \notin late
    BY <1>b, <1>4, PostFields
  <2>1. CASE pc[q] # "idle"
    <3>1. EndLookedUp(q.call)
      BY <1>b, <1>3, <2>1 DEF EndLookedUp
    <3>2. live'[q.call] \in {live[q.call], None} /\ ~ (q.call \in unknown' \ unknown)
      BY <1>4, <1>b, <2>0, <3>1
    <3>3. /\ q.call \notin unknown
          /\ pc[q] \in {"done", "ignored"} => live[q.call] = None
          /\ pc[q] \in InEnded => live[q.call] \in {at[q], None}
      BY <1>b, <2>0, <2>1 DEF TearDownInv
    <3>4. CASE q # p
      <4>1. pc'[q] = pc[q] /\ at'[q] = at[q]
        BY <1>1, <3>4 DEF MovesAlone
      <4>. QED  BY <3>2, <3>3, <4>1
    <3>5. CASE q = p
      <4>1. pc[p] \notin {"resolving", "refusing", "answering", "locating", "saving"}
                           \cup InAnswered \cup Finished
        BY <1>1, <1>b, <3>5 DEF TearDownInv, RecordedCalls, HandlersOK, MovesAlone
      <4>2. pc[p] \in InEnded
        BY <1>1, <2>1, <3>5, <4>1
           DEF StateOK, Running, InEnded, InAnswered, InAgent, InTool, Disclosing
      <4>3. pc'[p] \in {"done", "ignored"} => live'[p.call] = None
        <5>1. pc[p] = "idle" \/ (pc[p] \in {"closing", "forgetting"} /\ pc'[p] # "ignored")
          BY <1>1, <4>2 DEF InEnded, MovesAlone
        <5>. QED  BY <1>1, <2>1, <3>5, <5>1 DEF TearsDown
      <4>4. pc'[p] \in InEnded => at'[p] = at[p]
        BY <1>1, <2>1, <3>5 DEF TearsDown
      <4>. QED  BY <3>2, <3>3, <3>5, <4>2, <4>3, <4>4
    <3>. QED  BY <3>4, <3>5
  <2>2. CASE pc[q] = "idle"
    <3>1. q = p
      BY <1>1, <1>b, <2>2 DEF MovesAlone
    <3>2. /\ p.call \notin unknown' /\ live' = live
          /\ \/ pc'[p] = "ignored" /\ live[p.call] = None
             \/ pc'[p] = "closing" /\ at'[p] = live[p.call]
      BY <1>1, <1>b, <2>2, <3>1 DEF TearsDown
    <3>. QED  BY <3>1, <3>2 DEF InEnded
  <2>. QED  BY <2>1, <2>2
<1>c. ASSUME NEW q \in Posts, pc'[q] = "forgetting"
      PROVE  agent'[at'[q]] # "open"
  <2>1. CASE q = p
    BY <1>1, <1>c, <2>1 DEF TearsDown
  <2>2. CASE q # p
    <3>1. pc[q] = "forgetting" /\ at'[q] = at[q]
      BY <1>1, <1>c, <2>2 DEF MovesAlone
    <3>2. agent[at[q]] # "open" /\ at[q] \in Sessions
      BY <1>1, <3>1, InHand DEF TearDownInv, InCall, InEnded
    <3>3. ~ (pc[p] = "resolving" /\ at[p] = at[q])
      BY <1>6, <3>1 DEF InEnded
    <3>. QED  BY <1>1, <3>1, <3>2, <3>3 DEF TearsDown
  <2>. QED  BY <2>1, <2>2
<1>d. ASSUME NEW c \in Calls, created'[c] <= 1,
             NEW s \in SessionsOf(c), agent'[s] = "open"
      PROVE  live'[c] = s
  <2>0. s \in Sessions /\ s # None /\ s[1] = c /\ created[c] <= 1
    <3>1. created[c] \in Nat /\ (created'[c] = created[c] \/ created'[c] = created[c] + 1)
      BY <1>1, CopiesAssumption DEF StaysWithSession, StateOK
    <3>. QED  BY <1>d, <3>1, SessionType DEF SessionsOf
  <2>1. CASE s = at[p] /\ pc[p] = "resolving" /\ live'[p.call] = s
    <3>1. s[1] = p.call
      BY <1>5, <2>1 DEF SessionsOf
    <3>. QED  BY <2>0, <2>1, <3>1
  <2>2. CASE ~ (s = at[p] /\ pc[p] = "resolving" /\ live'[p.call] = s)
    <3>1. agent[s] = "open" /\ live[c] = s
      BY <1>1, <1>d, <2>0, <2>2 DEF TearsDown, TearDownInv
    <3>2. Opened(s)
      BY <1>1, <2>0, <3>1 DEF SessionsApart
    <3>3. CASE pc[p] = "forgetting" /\ c = p.call
      <4>1. at[p] \in SessionsOf(c) /\ Opened(at[p]) /\ agent[at[p]] # "open"
        BY <1>1, <3>3, InHand DEF SessionsApart, InCall, InEnded, TearDownInv
      <4>2. at[p] = s
        BY <1>1, <2>0, <3>2, <4>1, OnlySession
      <4>. QED  BY <3>1, <4>1, <4>2
    <3>4. CASE pc[p] = "resolving" /\ c = p.call
      <4>1. at[p] = s
        BY <1>1, <1>5, <2>0, <3>2, <3>4, OnlySession
      <4>. QED  BY <1>5, <3>1, <3>4, <4>1
    <3>5. CASE ~ (c = p.call /\ pc[p] \in {"resolving", "forgetting"})
      BY <1>1, <2>0, <3>1, <3>5 DEF TearsDown
    <3>. QED  BY <3>3, <3>4, <3>5
  <2>. QED  BY <2>1, <2>2
<1>. QED  BY <1>a, <1>b, <1>c, <1>d DEF TearDownInv, SessionsOf

LEMMA TelephonyKeepsTearDown ==
  ASSUME TearDownInv, Note,
         (\E c \in Calls : Telephony(c)) \/ (\E p \in Posts : Redeliver(p))
  PROVE  TearDownInv'
<1>1. UNCHANGED <<pc, at, live, unknown, agent, created>> /\ late \subseteq late'
  BY TelephonyFrame DEF handlers, memory, store, Note
<1>. QED  BY <1>1 DEF TearDownInv, SessionsOf

LEMMA InitTearDownInv == Init => TearDownInv
  BY SessionType DEF Init, TearDownInv

LEMMA NextTearDownInv ==
  IInv /\ OutcomeInv /\ FilingInv /\ TearDownInv /\ [Next]_vars => TearDownInv'
<1>. SUFFICES ASSUME IInv, OutcomeInv, FilingInv, TearDownInv, [Next]_vars
              PROVE  TearDownInv'
  OBVIOUS
<1>1. CASE Note /\ \E p \in Posts : Handle(p) \/ Throw(p)
  BY <1>1, HandlerKeepsTearDown
<1>2. CASE Note /\ ((\E c \in Calls : Telephony(c)) \/ (\E p \in Posts : Redeliver(p)))
  BY <1>2, TelephonyKeepsTearDown
<1>3. CASE UNCHANGED vars
  BY <1>3 DEF TearDownInv, SessionsOf, vars, memory, store
<1>. QED  BY <1>1, <1>2, <1>3, StepCases

LEMMA TearDownInvTornDown == IInv /\ TearDownInv => TornDown
<1>. SUFFICES ASSUME IInv, TearDownInv, NEW c \in Calls, EndReturned(c), c \notin late
              PROVE  /\ live[c] = None /\ c \notin unknown
                     /\ created[c] <= 1 => \A s \in SessionsOf(c) : agent[s] # "open"
  BY DEF TornDown
<1>1. PICK p \in posts : p.type = "ended" /\ p.call = c /\ pc[p] \in {"done", "ignored"}
  BY DEF EndReturned
<1>2. live[c] = None /\ c \notin unknown
  BY <1>1 DEF TearDownInv, IInv, TypeOK, StateOK
<1>. QED  BY <1>2, SessionType DEF TearDownInv

\* Once call.ended was handled nothing of the call is left behind, whichever webhooks
\* come again or overtake each other and whichever adapter calls are rejected, unless
\* the call was registered after call.ended had looked for it.
THEOREM NothingLeftBehind == Spec => []TornDown
  BY InitOutcomeInv, NextOutcomeInv, InitFilingInv, NextFilingInv, InitTearDownInv,
     NextTearDownInv, TearDownInvTornDown, Invariance, PTL DEF Spec
=============================================================================
