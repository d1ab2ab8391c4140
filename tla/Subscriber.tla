----------------------------- MODULE Subscriber -----------------------------
(***************************************************************************)
(* The consumer side of the bus: every worker task that `subscribe` spawns *)
(* (bus-nats/src/subscriber.rs) and the one idempotency store they share.  *)
(*                                                                         *)
(* A worker runs process_message on one delivery.  The function is cut at  *)
(* its awaits: each action is one of them together with the code up to the *)
(* next one, so that the workers interleave as the tasks do.  The store is *)
(* the IdempotencyStore contract: one atomic step per call.                *)
(*                                                                         *)
(* What the environment may do wrong is switched on by Faults:             *)
(*   "store"        a store call fails, with or without its effect         *)
(*   "ack"          an ack, NAK or TERM does not reach the server          *)
(*   "dlq"          a dead-letter publish fails, stored or not             *)
(*   "info"         the reply subject of a delivery does not parse         *)
(*   "abort"        a worker dies: a crash, a panic in the handler, the    *)
(*                  handle dropped, the drain timeout                      *)
(*   "slow"         the ack timer ends while a worker still has the message*)
(*   "expiry"       an entry that no worker owns outlives the store's TTL  *)
(*   "early_expiry" so does an entry whose owner is still running          *)
(*   "recreate"     the durable is deleted and created again               *)
(***************************************************************************)
EXTENDS JetStreamConsumer, FiniteSets

CONSTANTS
    Workers,        \* permits of all the subscriptions of the bus
    Subscription,   \* the durable that each worker serves
    MsgIds,         \* message ids that publishers put in the header
    Header,         \* the Nats-Msg-Id header of each message of the stream
    NoHeader,       \* ... when it is missing or not a UUID
    NoMsg,          \* what an idle worker has
    Poison,         \* messages whose payload does not deserialize
    DlqDurables,    \* durables subscribed with SubscribeOptions::dlq
    Faults,         \* see above
    MaxRecreations  \* bound on "recreate", for model checking

ASSUME SubscriptionAssumption == Subscription \in [Workers -> Durables]
ASSUME HeaderAssumption == Header \in [Seqs -> MsgIds \union {NoHeader}]
ASSUME NoHeaderAssumption == NoHeader \notin MsgIds
ASSUME NoMsgAssumption == NoMsg \notin Slots
ASSUME PoisonAssumption == Poison \subseteq Seqs
ASSUME DlqAssumption == DlqDurables \subseteq Durables

VARIABLES
    entry,          \* the idempotency store, by key
    pc,             \* the await each worker is at
    msg,            \* the delivery it has
    attempt,        \* info.delivered of that delivery
    deadLetters,    \* the DLQ stream, by deduplication id
    succeeded,      \* history: slots whose handler returned Ok
    terminated,     \* history: slots dead-lettered, or discarded without a DLQ
    dlqFailed,      \* history: slots whose DLQ publish failed at the last delivery
    recreations     \* how often a durable was recreated

workerVars == <<pc, msg, attempt>>
historyVars == <<deadLetters, succeeded, terminated, dlqFailed>>
vars == <<status, deliveries, entry, pc, msg, attempt,
          deadLetters, succeeded, terminated, dlqFailed, recreations>>

-----------------------------------------------------------------------------
(* Idempotency keys *)

\* The header alone, or an id derived from stream, durable and sequence: the
\* slot itself stands for the latter.
Key(m) == IF Header[Sequence(m)] = NoHeader THEN m ELSE Header[Sequence(m)]

Keys == MsgIds \union Slots

EntryStates == {"absent", "pending", "done"}

\* "received" also covers a delivery waiting in the client's buffer.
PCs == {"idle", "received", "handling", "mark_ok", "ack",
        "dlq", "mark_term", "term", "release", "nak"}

\* Where a worker is between a successful try_claim and the call that ends it.
OwnerPCs == {"handling", "mark_ok", "dlq", "mark_term", "release"}

Owns(w, k) == pc[w] \in OwnerPCs /\ Key(msg[w]) = k
Owned(k) == \E w \in Workers : Owns(w, k)

\* The slot, or another one with the same key, was handled or given up.
Finished(k) == \E m \in succeeded \union terminated : Key(m) = k

TypeOK ==
    /\ ConsumerTypeOK
    /\ entry \in [Keys -> EntryStates]
    /\ pc \in [Workers -> PCs]
    /\ msg \in [Workers -> Slots \union {NoMsg}]
    /\ attempt \in [Workers -> Nat]
    /\ deadLetters \subseteq Slots \X Nat
    /\ succeeded \subseteq Slots
    /\ terminated \subseteq Slots
    /\ dlqFailed \subseteq Slots
    /\ recreations \in Nat
    /\ \A w \in Workers : pc[w] = "idle" <=> msg[w] = NoMsg

Init ==
    /\ ConsumerInit
    /\ entry = [k \in Keys |-> "absent"]
    /\ pc = [w \in Workers |-> "idle"]
    /\ msg = [w \in Workers |-> NoMsg]
    /\ attempt = [w \in Workers |-> 0]
    /\ deadLetters = {}
    /\ succeeded = {}
    /\ terminated = {}
    /\ dlqFailed = {}
    /\ recreations = 0

-----------------------------------------------------------------------------
(* Steps shared by several actions *)

Goto(w, label) ==
    /\ pc' = [pc EXCEPT ![w] = label]
    /\ UNCHANGED <<msg, attempt>>

\* Mutant: the permit is released, the delivery is kept.
FinishKeepsMessage(w) ==
    /\ pc' = [pc EXCEPT ![w] = "idle"]
    /\ UNCHANGED <<msg, attempt>>

\* process_message returns, or its task ends: the permit is free again.
Finish(w) ==
    /\ pc' = [pc EXCEPT ![w] = "idle"]
    /\ msg' = [msg EXCEPT ![w] = NoMsg]
    /\ attempt' = [attempt EXCEPT ![w] = 0]

HasDlq(m) == Durable(m) \in DlqDurables

\* handle_terminal_failure up to its first await.
GiveUp(w) ==
    IF HasDlq(msg[w])
    THEN Goto(w, "dlq") /\ UNCHANGED terminated
    ELSE Goto(w, "mark_term") /\ terminated' = terminated \union {msg[w]}

\* Mutant: off by one, the attempt after the last would be the final one.
IsFinalAttemptLate(n) == MaxDeliver > 0 /\ n > MaxDeliver

IsFinalAttempt(n) == MaxDeliver > 0 /\ n >= MaxDeliver

\* The NAK after a failed DLQ publish brings another delivery, or this was the last
\* and the logged error is all that is left.
LogDlqError(w) ==
    dlqFailed' = IF LimitReached(attempt[w]) THEN dlqFailed \union {msg[w]} ELSE dlqFailed

-----------------------------------------------------------------------------
(* The worker *)

\* A permit is taken and a task is spawned for the next delivery.
Receive(w, m) ==
    /\ pc[w] = "idle"
    /\ Subscription[w] = Durable(m)
    /\ Deliver(m)
    /\ pc' = [pc EXCEPT ![w] = "received"]
    /\ msg' = [msg EXCEPT ![w] = m]
    /\ attempt' = [attempt EXCEPT ![w] = deliveries[m] + 1]
    /\ UNCHANGED <<entry, historyVars, recreations>>

\* msg.info() fails: the delivery is left to its ack timer.
InfoError(w) ==
    /\ "info" \in Faults
    /\ pc[w] = "received"
    /\ Finish(w)
    /\ UNCHANGED <<consumerVars, entry, historyVars, recreations>>

\* Ok(Claimed), then the payload is deserialized.
Claimed(w) ==
    /\ pc[w] = "received"
    /\ entry[Key(msg[w])] = "absent"
    /\ entry' = [entry EXCEPT ![Key(msg[w])] = "pending"]
    /\ IF Sequence(msg[w]) \in Poison
       THEN GiveUp(w)
       ELSE Goto(w, "handling") /\ UNCHANGED terminated
    /\ UNCHANGED <<consumerVars, deadLetters, succeeded, dlqFailed, recreations>>

\* Mutant: a redelivery takes the claim over.
AlreadyPendingRuns(w) ==
    /\ pc[w] = "received"
    /\ entry[Key(msg[w])] = "pending"
    /\ Goto(w, "handling")
    /\ UNCHANGED <<consumerVars, entry, historyVars, recreations>>

\* Mutant: the last delivery gives the message up instead of a NAK.
AlreadyPendingGivesUp(w) ==
    /\ pc[w] = "received"
    /\ entry[Key(msg[w])] = "pending"
    /\ IF IsFinalAttempt(attempt[w])
       THEN GiveUp(w)
       ELSE Goto(w, "nak") /\ UNCHANGED terminated
    /\ UNCHANGED <<consumerVars, entry, deadLetters, succeeded, dlqFailed, recreations>>

AlreadyPending(w) ==
    /\ pc[w] = "received"
    /\ entry[Key(msg[w])] = "pending"
    /\ Goto(w, "nak")
    /\ UNCHANGED <<consumerVars, entry, historyVars, recreations>>

AlreadyDone(w) ==
    /\ pc[w] = "received"
    /\ entry[Key(msg[w])] = "done"
    /\ Goto(w, "ack")
    /\ UNCHANGED <<consumerVars, entry, historyVars, recreations>>

\* Mutant: the error path cleans up a claim it may not have.
ClaimErrorReleases(w) ==
    /\ "store" \in Faults
    /\ pc[w] = "received"
    /\ Goto(w, "release")
    /\ UNCHANGED <<consumerVars, entry, historyVars, recreations>>

\* Err from try_claim.  The claim may have been made before the answer was lost.
ClaimError(w) ==
    /\ "store" \in Faults
    /\ pc[w] = "received"
    /\ \/ UNCHANGED entry
       \/ /\ entry[Key(msg[w])] = "absent"
          /\ entry' = [entry EXCEPT ![Key(msg[w])] = "pending"]
    /\ Goto(w, "nak")
    /\ UNCHANGED <<consumerVars, historyVars, recreations>>

HandlerOk(w) ==
    /\ pc[w] = "handling"
    /\ succeeded' = succeeded \union {msg[w]}
    /\ Goto(w, "mark_ok")
    /\ UNCHANGED <<consumerVars, entry, deadLetters, terminated, dlqFailed, recreations>>

\* Mutant: a NAK without the release.
HandlerTransientKeepsClaim(w) ==
    /\ pc[w] = "handling"
    /\ IF IsFinalAttempt(attempt[w])
       THEN GiveUp(w)
       ELSE Goto(w, "nak") /\ UNCHANGED terminated
    /\ UNCHANGED <<consumerVars, entry, deadLetters, succeeded, dlqFailed, recreations>>

HandlerTransient(w) ==
    /\ pc[w] = "handling"
    /\ IF IsFinalAttempt(attempt[w])
       THEN GiveUp(w)
       ELSE Goto(w, "release") /\ UNCHANGED terminated
    /\ UNCHANGED <<consumerVars, entry, deadLetters, succeeded, dlqFailed, recreations>>

HandlerPermanent(w) ==
    /\ pc[w] = "handling"
    /\ GiveUp(w)
    /\ UNCHANGED <<consumerVars, entry, deadLetters, succeeded, dlqFailed, recreations>>

\* The DLQ stream keeps one copy per stream, sequence, durable and attempt.
DeadLettered(w) ==
    /\ pc[w] = "dlq"
    /\ deadLetters' = deadLetters \union {<<msg[w], attempt[w]>>}
    /\ terminated' = terminated \union {msg[w]}
    /\ Goto(w, "mark_term")
    /\ UNCHANGED <<consumerVars, entry, succeeded, dlqFailed, recreations>>

\* Mutant: the message is termed although its copy may be nowhere.
DlqErrorTerms(w) ==
    /\ "dlq" \in Faults
    /\ pc[w] = "dlq"
    /\ UNCHANGED deadLetters
    /\ LogDlqError(w)
    /\ Goto(w, "mark_term")
    /\ UNCHANGED <<consumerVars, entry, succeeded, terminated, recreations>>

\* The publish or its acknowledgement fails or times out: the error is logged,
\* and the copy may be in the DLQ nevertheless.
DlqError(w) ==
    /\ "dlq" \in Faults
    /\ pc[w] = "dlq"
    /\ \/ UNCHANGED deadLetters
       \/ deadLetters' = deadLetters \union {<<msg[w], attempt[w]>>}
    /\ LogDlqError(w)
    /\ Goto(w, "release")
    /\ UNCHANGED <<consumerVars, entry, succeeded, terminated, recreations>>

\* Mutant: a failed mark_done gives the claim back.
MarkDoneErrorReleases(w) ==
    /\ pc[w] \in {"mark_ok", "mark_term"}
    /\ \/ /\ entry' = [entry EXCEPT ![Key(msg[w])] = "done"]
          /\ Goto(w, IF pc[w] = "mark_ok" THEN "ack" ELSE "term")
       \/ /\ "store" \in Faults
          /\ Goto(w, "release")
          /\ UNCHANGED entry
    /\ UNCHANGED <<consumerVars, historyVars, recreations>>

\* mark_done writes whatever the entry holds; on an error the message is
\* acked or termed all the same.
MarkDone(w) ==
    /\ pc[w] \in {"mark_ok", "mark_term"}
    /\ \/ entry' = [entry EXCEPT ![Key(msg[w])] = "done"]
       \/ "store" \in Faults /\ UNCHANGED entry
    /\ Goto(w, IF pc[w] = "mark_ok" THEN "ack" ELSE "term")
    /\ UNCHANGED <<consumerVars, historyVars, recreations>>

\* release deletes whatever the entry holds.
Release(w) ==
    /\ pc[w] = "release"
    /\ \/ entry' = [entry EXCEPT ![Key(msg[w])] = "absent"]
       \/ "store" \in Faults /\ UNCHANGED entry
    /\ Goto(w, "nak")
    /\ UNCHANGED <<consumerVars, historyVars, recreations>>

Acknowledge(w) ==
    /\ pc[w] \in {"ack", "term"}
    /\ \/ Settle(msg[w])
       \/ "ack" \in Faults /\ UNCHANGED status
    /\ Finish(w)
    /\ UNCHANGED <<deliveries, entry, historyVars, recreations>>

\* Mutant: release and NAK are repeated until the NAK goes through.
NakRetries(w) ==
    /\ pc[w] = "nak"
    /\ \/ Requeue(msg[w]) /\ Finish(w)
       \/ "ack" \in Faults /\ UNCHANGED status /\ Goto(w, "release")
    /\ UNCHANGED <<deliveries, entry, historyVars, recreations>>

Nak(w) ==
    /\ pc[w] = "nak"
    /\ \/ Requeue(msg[w])
       \/ "ack" \in Faults /\ UNCHANGED status
    /\ Finish(w)
    /\ UNCHANGED <<deliveries, entry, historyVars, recreations>>

\* Mutant: a guard releases the claim when the task is dropped.
AbortReleases(w) ==
    /\ "abort" \in Faults
    /\ pc[w] # "idle"
    /\ Finish(w)
    /\ entry' = IF pc[w] \in OwnerPCs
                THEN [entry EXCEPT ![Key(msg[w])] = "absent"]
                ELSE entry
    /\ UNCHANGED <<consumerVars, historyVars, recreations>>

\* The task is dropped at an await.  Nothing cleans up its claim.
Abort(w) ==
    /\ "abort" \in Faults
    /\ pc[w] # "idle"
    /\ Finish(w)
    /\ UNCHANGED <<consumerVars, entry, historyVars, recreations>>

-----------------------------------------------------------------------------
(* The servers *)

Timeout(m) ==
    /\ "slow" \in Faults \/ \A w \in Workers : msg[w] # m
    /\ AckTimerExpires(m)
    /\ UNCHANGED <<entry, workerVars, historyVars, recreations>>

Drop(m) ==
    /\ DropExhausted(m)
    /\ UNCHANGED <<entry, workerVars, historyVars, recreations>>

Expire(k) ==
    /\ entry[k] # "absent"
    /\ "early_expiry" \in Faults \/ ("expiry" \in Faults /\ ~Owned(k))
    /\ entry' = [entry EXCEPT ![k] = "absent"]
    /\ UNCHANGED <<consumerVars, workerVars, historyVars, recreations>>

RecreateConsumer(d) ==
    /\ "recreate" \in Faults
    /\ recreations < MaxRecreations
    /\ recreations' = recreations + 1
    /\ Recreate(d)
    /\ UNCHANGED <<entry, workerVars, historyVars>>

-----------------------------------------------------------------------------
Step(w) ==
    \/ InfoError(w)
    \/ Claimed(w)
    \/ AlreadyPending(w)
    \/ AlreadyDone(w)
    \/ ClaimError(w)
    \/ HandlerOk(w)
    \/ HandlerTransient(w)
    \/ HandlerPermanent(w)
    \/ DeadLettered(w)
    \/ DlqError(w)
    \/ MarkDone(w)
    \/ Release(w)
    \/ Acknowledge(w)
    \/ Nak(w)

Server ==
    \/ \E m \in Slots : Timeout(m) \/ Drop(m)
    \/ \E k \in Keys : Expire(k)
    \/ \E d \in Durables : RecreateConsumer(d)

Next ==
    \/ \E w \in Workers, m \in Slots : Receive(w, m)
    \/ \E w \in Workers : Step(w) \/ Abort(w)
    \/ Server

Spec == Init /\ [][Next]_vars

\* Workers that hold a delivery are polled, the server redelivers and drops
\* what is due, and a free worker pulls: none of them waits for ever.
Fairness ==
    /\ \A w \in Workers : WF_vars(Step(w))
    /\ \A m \in Slots : WF_vars(\E w \in Workers : Receive(w, m))
    /\ \A m \in Slots : WF_vars(Timeout(m)) /\ WF_vars(Drop(m))

FairSpec == Spec /\ Fairness

-----------------------------------------------------------------------------
(* What the subscriber promises *)

\* The message that a key stands for has an outcome an operator can find: some
\* delivery of it was handled, or it is in the DLQ, or no DLQ was asked for and
\* it was discarded for good.
Accounted(k) ==
    \/ \E m \in succeeded : Key(m) = k
    \/ \E d \in deadLetters : Key(d[1]) = k
    \/ \E m \in terminated : Key(m) = k /\ ~HasDlq(m)

\* The last delivery of the message was to be dead-lettered and the publish failed.
LostToDlq(k) == \E m \in dlqFailed : Key(m) = k

\* Two workers never run the handler for one message id at the same time
\* (try_claim before the handler, process_message), however often the message
\* is redelivered and whatever was lost: as long as no claim expires under its
\* owner.
HandlerExclusion ==
    \A v, w \in Workers :
        /\ pc[v] = "handling"
        /\ pc[w] = "handling"
        /\ Key(msg[v]) = Key(msg[w])
        => v = w

\* A message whose handler succeeded, or that was given up, never enters the
\* handler again: neither by a redelivery nor by a duplicate under another
\* sequence, even when mark_done failed or the ack was lost.  Needs an entry
\* that outlives the stream (no "expiry").
NoRerun ==
    \A w \in Workers : pc[w] = "handling" => ~Finished(Key(msg[w]))

\* The outcomes exclude each other: no message id is reported as handled by one
\* delivery and as given up by another.
OneOutcome ==
    \A m \in succeeded, n \in terminated : Key(m) # Key(n)

\* The server may forget a message (ack or TERM) only when the handler ran to
\* success for it or its copy is in the DLQ: nothing is acked on the strength of
\* a claim alone.
SettledIsAccounted ==
    \A m \in Slots : status[m] = "settled" => Accounted(Key(m))

\* A `done` entry stays `done`: no release of a worker that lost track of its
\* claim, and no second claim, reopens a finished message.
DoneIsPermanent ==
    [][\A k \in Keys : entry[k] = "done" => entry'[k] = "done"]_vars

\* A message that was handled does not turn up in the DLQ afterwards: no retry,
\* duplicate or late worker dead-letters it.  The other order is possible: a
\* publish that failed after it was stored is retried, and the retry may succeed.
HandledIsNotDeadLettered ==
    [][\A d \in deadLetters' \ deadLetters, m \in succeeded :
           Key(m) # Key(d[1])]_vars

\* Every path of process_message ends the claim it took: a pending entry has a
\* worker that still owns it, also when a claim expired under its owner and
\* another worker took it again.  Holds while no store call fails and no worker
\* dies.
PendingHasOwner ==
    \A k \in Keys : entry[k] = "pending" => Owned(k)

\* A message that the server stops offering, under every sequence it has, was
\* handled or is in the DLQ: exhausted retries do not vanish.  The one exception
\* is in the log: the dead letter of a last delivery could not be published.
NoSilentLoss ==
    \A m \in Slots :
        /\ \A n \in Slots : Key(n) = Key(m) => status[n] = "dropped"
        /\ \A w \in Workers : msg[w] # NoMsg => Key(msg[w]) # Key(m)
        => Accounted(Key(m)) \/ LostToDlq(Key(m))

\* A delivery that finds the claim pending is NAKed so that a later one observes
\* the final state of the claim (released or done): so it is not the last delivery
\* in front of a claim that no worker will ever end.
RedeliverySeesFinalState ==
    \A w \in Workers :
        /\ pc[w] = "nak"
        /\ LimitReached(attempt[w])
        /\ entry[Key(msg[w])] = "pending"
        => Owned(Key(msg[w]))

\* Each durable handles (or gives up) by itself every message that it settles:
\* two subscriptions are two consumers of the stream.
EveryDurableHandles ==
    \A m \in Slots : status[m] = "settled" =>
        \E n \in succeeded \union terminated :
            Durable(n) = Durable(m) /\ Key(n) = Key(m)

\* Every message is in the end handled or dead-lettered, although acks are lost and
\* claims expire, or its last dead letter has failed with an error in the log.
EventuallyAccounted == \A m \in Slots : <>(Accounted(Key(m)) \/ LostToDlq(Key(m)))

\* Whatever fails, retries end: each message is at last settled or dropped, and
\* the workers are free again.
ComesToRest ==
    <>[](/\ \A m \in Slots : status[m] \in {"settled", "dropped"}
         /\ \A w \in Workers : pc[w] = "idle")
=============================================================================
