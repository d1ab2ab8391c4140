-------------------------- MODULE JetStreamConsumer --------------------------
(***************************************************************************)
(* Server side of the durable pull consumers that `subscribe` creates      *)
(* (bus-nats/src/subscriber.rs, consumer.rs).  JetStream is not part of    *)
(* the repository: this module is the part of it the subscriber relies on. *)
(* Explicit acknowledgement, delivery from the first message of the        *)
(* stream, redelivery of what is not acknowledged, at most MaxDeliver      *)
(* deliveries of a message to a durable.                                   *)
(*                                                                         *)
(* A slot <<d, s>> is the message with stream sequence s as durable d      *)
(* sees it.  Time is abstracted: the ack timer of an outstanding delivery, *)
(* or the delay of a NAK, may end in any later state.                      *)
(***************************************************************************)
EXTENDS Naturals

CONSTANTS
    Durables,     \* durable consumers of the stream
    Seqs,         \* stream sequences of the messages that match the filters
    MaxDeliver,   \* SubscribeOptions::max_deliver; 0 stands for "no limit"
    DeliveryCap   \* bound on the delivery counter, for model checking

ASSUME MaxDeliverAssumption == MaxDeliver \in Nat
ASSUME DeliveryCapAssumption == DeliveryCap \in Nat /\ MaxDeliver <= DeliveryCap

VARIABLES
    status,       \* where each slot is in its life on the server
    deliveries    \* how often each slot has been delivered

consumerVars == <<status, deliveries>>

Slots == Durables \X Seqs

Durable(m) == m[1]
Sequence(m) == m[2]

\* "outstanding": delivered, the ack timer runs; "redeliver": the timer or a
\* NAK delay ended or will end; "settled": acked or termed; "dropped": the
\* delivery limit is used up and the server never offers the slot again.
Statuses == {"new", "outstanding", "redeliver", "settled", "dropped"}

ConsumerTypeOK ==
    /\ status \in [Slots -> Statuses]
    /\ deliveries \in [Slots -> Nat]

ConsumerInit ==
    /\ status = [m \in Slots |-> "new"]
    /\ deliveries = [m \in Slots |-> 0]

-----------------------------------------------------------------------------
(* A delivery uses one attempt whatever the subscriber then does with it.  *)

LimitReached(n) == MaxDeliver > 0 /\ n >= MaxDeliver

Deliver(m) ==
    /\ status[m] \in {"new", "redeliver"}
    /\ ~LimitReached(deliveries[m])
    /\ deliveries[m] < DeliveryCap
    /\ status' = [status EXCEPT ![m] = "outstanding"]
    /\ deliveries' = [deliveries EXCEPT ![m] = @ + 1]

\* The limit is enforced when the next redelivery is due, not before: until
\* then a late acknowledgement still settles the slot.
DropExhausted(m) ==
    /\ status[m] = "redeliver"
    /\ LimitReached(deliveries[m])
    /\ status' = [status EXCEPT ![m] = "dropped"]
    /\ UNCHANGED deliveries

AckTimerExpires(m) ==
    /\ status[m] = "outstanding"
    /\ status' = [status EXCEPT ![m] = "redeliver"]
    /\ UNCHANGED deliveries

\* Acknowledgements name the stream sequence, so one sent for an earlier
\* delivery acts on the current one.  On a slot that is not waiting for an
\* acknowledgement they have no effect.
Awaiting(m) == status[m] \in {"outstanding", "redeliver"}

Settle(m) ==
    status' = IF Awaiting(m) THEN [status EXCEPT ![m] = "settled"] ELSE status

Requeue(m) ==
    status' = IF Awaiting(m) THEN [status EXCEPT ![m] = "redeliver"] ELSE status

\* The durable was deleted and the reconnect loop created it again: the new
\* consumer starts over from the first message with fresh counters.
Recreate(d) ==
    /\ status' = [m \in Slots |-> IF Durable(m) = d THEN "new" ELSE status[m]]
    /\ deliveries' = [m \in Slots |-> IF Durable(m) = d THEN 0 ELSE deliveries[m]]
=============================================================================
