---------------------------- MODULE MCServices -----------------------------
\* Two services behind a call that share no state, each with a run of its own: the
\* execution of tools (ToolExecution) and the sending of messages (Notifications).
\* Where one is run the other has nobody to serve.
EXTENDS ToolExecution, TLC

CONSTANTS Ids, MaxAttempts, MayThrow

VARIABLES status, attempts, lastError, msgId, pc, i, sends, accepted

N == INSTANCE Notifications

ASSUME MessagesAssumption == MaxAttempts \in Nat /\ MayThrow \in BOOLEAN

message == <<status, attempts, lastError, msgId, pc, i, sends, accepted>>
allVars == <<vars, message>>

MCInit == Init /\ N!Init

ToolsSpec == MCInit /\ [][Next /\ UNCHANGED message]_allVars

\* The fairness is Notifications!FairSpec's.
MessagesSpec ==
  /\ MCInit /\ [][N!Next /\ UNCHANGED vars]_allVars
  /\ \A n \in Ids : WF_message(N!SendAlimtalk(n))

\* Requests differ in nothing but what they carry.
Symmetry == Permutations(Requests)

\* The properties of Notifications, by their names; the tools' own come with
\* ToolExecution.
ImplementsStatus == N!ImplementsStatus
AnsweredLeavesQueue == N!AnsweredLeavesQueue
=============================================================================
