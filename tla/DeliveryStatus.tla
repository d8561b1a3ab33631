--------------------------- MODULE DeliveryStatus ---------------------------
(***************************************************************************)
(* What a notification record promises to whoever reads its status         *)
(* (KakaoDeliveryStatus): it is queued once, leaves the queue once, as     *)
(* sent or as failed, and only a message the provider took over is ever    *)
(* called sent, and only a sent one delivered.                             *)
(***************************************************************************)
CONSTANT Ids

VARIABLES status, accepted

Init == status = [n \in Ids |-> "none"] /\ accepted = {}

Move(n, from, to) ==
  /\ status[n] = from
  /\ status' = [status EXCEPT ![n] = to]

Queue(n)   == Move(n, "none", "queued") /\ UNCHANGED accepted
Accept(n)  == /\ status[n] = "queued"
              /\ accepted' = accepted \cup {n}
              /\ UNCHANGED status
Sent(n)    == n \in accepted /\ Move(n, "queued", "sent") /\ UNCHANGED accepted
Fail(n)    == Move(n, "queued", "failed") /\ UNCHANGED accepted
Deliver(n) == Move(n, "sent", "delivered") /\ UNCHANGED accepted

Next == \E n \in Ids :
  Queue(n) \/ Accept(n) \/ Sent(n) \/ Fail(n) \/ Deliver(n)

Spec == Init /\ [][Next]_<<status, accepted>>
=============================================================================
