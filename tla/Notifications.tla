---------------------------- MODULE Notifications ----------------------------
(***************************************************************************)
(* NotificationsService (services/notifications): one Alimtalk message is  *)
(* rendered, recorded as queued, sent with retries and recorded as sent or *)
(* failed; a receipt of the provider turns sent into delivered.            *)
(*                                                                         *)
(* Ids are the sendAlimtalk calls, each with its own record.  A step runs  *)
(* from the return of one await to the next; the repository applies an     *)
(* update when it is issued.  The provider numbers a message it takes over *)
(* by the attempt that carried it.  Texts, templates and delays are left   *)
(* out: a back-off only postpones the next attempt.                        *)
(***************************************************************************)
EXTENDS Naturals

CONSTANTS
  Ids,          \* the sendAlimtalk calls
  MaxAttempts,  \* RetryPolicy.maxAttempts, a natural number
  MayThrow      \* the provider or the repository may reject instead of answering

VARIABLES
  \* the Notification record
  status, attempts, lastError, msgId,
  \* the sendAlimtalk call: the await it is at, and the loop variable i
  pc, i,
  \* the provider: calls of send, and the messages it took over
  sends, accepted

record == <<status, attempts, lastError, msgId>>
vars   == <<record, pc, i, sends, accepted>>

Init ==
  /\ status = [n \in Ids |-> "none"]
  /\ attempts = [n \in Ids |-> 0]
  /\ lastError = {}                  \* the records with a lastError
  /\ msgId = [n \in Ids |-> 0]       \* 0: providerMsgId is null
  /\ pc = [n \in Ids |-> "idle"]
  /\ i = [n \in Ids |-> 0]
  /\ sends = [n \in Ids |-> 0]
  /\ accepted = {}

Goto(n, label) == pc' = [pc EXCEPT ![n] = label]

\* The record is created; the loop starts if it may run at all.
Enqueue(n) ==
  /\ pc[n] = "idle"
  /\ status' = [status EXCEPT ![n] = "queued"]
  /\ Goto(n, IF MaxAttempts > 0 THEN "calling" ELSE "exhausted")
  /\ UNCHANGED <<attempts, lastError, msgId, i, sends, accepted>>

\* await attempt(): the payload goes to the provider, without idempotency key.
Send(n) ==
  /\ pc[n] = "calling"
  /\ sends' = [sends EXCEPT ![n] = @ + 1]
  /\ Goto(n, "sending")
  /\ UNCHANGED <<record, i, accepted>>

\* The provider takes the message over; its answer may still get lost.
Accept(n) ==
  /\ pc[n] = "sending"
  /\ <<n, i[n] + 1>> \notin accepted
  /\ accepted' = accepted \cup {<<n, i[n] + 1>>}
  /\ UNCHANGED <<record, pc, i, sends>>

\* Mutant of NoteSuccess: the message id is stored with the attempt already.
NoteMessageId(n) ==
  /\ pc[n] = "sending" /\ <<n, i[n] + 1>> \in accepted
  /\ attempts' = [attempts EXCEPT ![n] = i[n] + 1]
  /\ lastError' = lastError \ {n}
  /\ msgId' = [msgId EXCEPT ![n] = i[n] + 1]
  /\ Goto(n, "succeeded")
  /\ UNCHANGED <<status, i, sends, accepted>>

\* onAttempt after an answer { ok: true, providerMsgId }.
NoteSuccess(n) ==
  /\ pc[n] = "sending" /\ <<n, i[n] + 1>> \in accepted
  /\ attempts' = [attempts EXCEPT ![n] = i[n] + 1]
  /\ lastError' = lastError \ {n}
  /\ Goto(n, "succeeded")
  /\ UNCHANGED <<status, msgId, i, sends, accepted>>

\* onAttempt after an error, whether or not the provider took the message over.
NoteError(n) ==
  /\ pc[n] = "sending"
  /\ attempts' = [attempts EXCEPT ![n] = i[n] + 1]
  /\ lastError' = lastError \cup {n}
  /\ Goto(n, "erred")
  /\ UNCHANGED <<status, msgId, i, sends, accepted>>

\* Not the last attempt: sleep, then the next turn of the loop.
Retry(n) ==
  /\ pc[n] = "erred" /\ i[n] + 1 < MaxAttempts
  /\ i' = [i EXCEPT ![n] = @ + 1]
  /\ Goto(n, "calling")
  /\ UNCHANGED <<record, sends, accepted>>

GiveUp(n) ==
  /\ pc[n] = "erred" /\ i[n] + 1 >= MaxAttempts
  /\ Goto(n, "exhausted")
  /\ UNCHANGED <<record, i, sends, accepted>>

RecordSent(n) ==
  /\ pc[n] = "succeeded"
  /\ status' = [status EXCEPT ![n] = "sent"]
  /\ msgId' = [msgId EXCEPT ![n] = i[n] + 1]
  /\ lastError' = lastError \ {n}
  /\ Goto(n, "done")
  /\ UNCHANGED <<attempts, i, sends, accepted>>

\* Mutant of RecordFailed: the final error is stored without the status.
RecordLastError(n) ==
  /\ pc[n] = "exhausted"
  /\ lastError' = lastError \cup {n}
  /\ Goto(n, "done")
  /\ UNCHANGED <<status, attempts, msgId, i, sends, accepted>>

\* "unknown error" when no attempt was made: lastError is set all the same.
RecordFailed(n) ==
  /\ pc[n] = "exhausted"
  /\ status' = [status EXCEPT ![n] = "failed"]
  /\ lastError' = lastError \cup {n}
  /\ Goto(n, "done")
  /\ UNCHANGED <<attempts, msgId, i, sends, accepted>>

\* The provider's or the repository's promise is rejected: sendAlimtalk rejects.
Throw(n) ==
  /\ MayThrow
  /\ pc[n] \in {"sending", "succeeded", "erred"}
  /\ Goto(n, "rejected")
  /\ UNCHANGED <<record, i, sends, accepted>>

\* The hook sets the status of whatever record it is called for.
MarkDelivered(n) ==
  /\ status' = [status EXCEPT ![n] = "delivered"]
  /\ UNCHANGED <<attempts, lastError, msgId, pc, i, sends, accepted>>

\* Its caller, the receipt webhook, is not in this repository. What is assumed of it
\* is what the comment above the hook says: it finds the record by providerMsgId,
\* and the provider sends receipts of messages it took over.
ReceiptIsKnown(n) == msgId[n] > 0 /\ <<n, msgId[n]>> \in accepted

Receipt(n) == ReceiptIsKnown(n) /\ MarkDelivered(n)

SendAlimtalk(n) ==
  \/ Enqueue(n) \/ Send(n) \/ NoteSuccess(n) \/ NoteError(n) \/ Retry(n)
  \/ GiveUp(n) \/ RecordSent(n) \/ RecordFailed(n)

Next == \E n \in Ids :
  SendAlimtalk(n) \/ Throw(n) \/ Accept(n) \/ Receipt(n)

Spec == Init /\ [][Next]_vars

\* The event loop and timers run the call on, and the provider answers.
FairSpec == Spec /\ \A n \in Ids : WF_vars(SendAlimtalk(n))

----------------------------------------------------------------------------
(* Properties. *)

TypeOK ==
  /\ status \in [Ids -> {"none", "queued", "sent", "delivered", "failed"}]
  /\ attempts \in [Ids -> 0 .. MaxAttempts]
  /\ lastError \subseteq Ids
  /\ msgId \in [Ids -> 0 .. MaxAttempts]
  /\ pc \in [Ids -> {"idle", "calling", "sending", "succeeded", "erred",
                     "exhausted", "done", "rejected"}]
  /\ i \in [Ids -> 0 .. MaxAttempts]
  /\ sends \in [Ids -> 0 .. MaxAttempts]
  /\ accepted \subseteq Ids \X (1 .. MaxAttempts)

\* Where a call stands against its record: the inductive part.
Progress ==
  \A n \in Ids :
    /\ pc[n] = "idle" <=> status[n] = "none"
    /\ pc[n] = "idle" => i[n] = 0
    /\ status[n] \in {"sent", "delivered", "failed"} <=> pc[n] = "done"
    /\ pc[n] \in {"idle", "calling"} => attempts[n] = i[n] /\ sends[n] = i[n]
    /\ pc[n] = "calling" => i[n] < MaxAttempts
    /\ pc[n] = "sending" =>
         attempts[n] = i[n] /\ sends[n] = i[n] + 1 /\ i[n] < MaxAttempts
    /\ pc[n] \in {"succeeded", "erred"} =>
         attempts[n] = i[n] + 1 /\ sends[n] = i[n] + 1 /\ i[n] < MaxAttempts
    /\ pc[n] = "succeeded" => <<n, i[n] + 1>> \in accepted
    /\ pc[n] = "exhausted" => attempts[n] = MaxAttempts /\ sends[n] = MaxAttempts
    /\ msgId[n] > 0 <=> status[n] \in {"sent", "delivered"}

\* A record that says sent or delivered names a message the provider took over
\* with the last attempt made, and carries no error; this holds whatever answers
\* were lost in between (service.ts:101-108, 138-140).
SentIsAccepted ==
  \A n \in Ids : status[n] \in {"sent", "delivered"} =>
    /\ <<n, msgId[n]>> \in accepted
    /\ msgId[n] = attempts[n] /\ attempts[n] = sends[n]
    /\ n \notin lastError

\* A record that says failed used up exactly the allowed attempts, none of them
\* answered with success, and carries the error (service.ts:118-124, retry.ts:65).
FailedIsExhausted ==
  \A n \in Ids : status[n] = "failed" =>
    attempts[n] = MaxAttempts /\ sends[n] = MaxAttempts
    /\ msgId[n] = 0 /\ n \in lastError

\* The attempts on record never run ahead of the calls to the provider and lag
\* by the one call in flight at most, also when a call was rejected half-way.
AttemptsAreSends ==
  \A n \in Ids : sends[n] \in {attempts[n], attempts[n] + 1}

IInv == /\ TypeOK /\ Progress
        /\ SentIsAccepted /\ FailedIsExhausted /\ AttemptsAreSends

\* The status moves along queued -> sent -> delivered or queued -> failed, and
\* no receipt, retry or late answer takes it back.
TakenOver == {n \in Ids : \E k \in 1 .. MaxAttempts : <<n, k>> \in accepted}

Abstract == INSTANCE DeliveryStatus WITH accepted <- TakenOver

ImplementsStatus == Abstract!Spec

\* A queued message leaves the queue however often its sends fail or their
\* answers are lost, unless a call of its own was rejected (retry.ts:66-77).
AnsweredLeavesQueue ==
  \A n \in Ids : status[n] = "queued" ~> status[n] # "queued" \/ pc[n] = "rejected"

=============================================================================
