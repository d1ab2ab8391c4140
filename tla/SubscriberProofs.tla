-------------------------- MODULE SubscriberProofs --------------------------
(***************************************************************************)
(* Safety of Subscriber for every number of workers, durables, messages    *)
(* and duplicates, every delivery limit and every choice of Faults that a  *)
(* theorem does not exclude.                                               *)
(***************************************************************************)
EXTENDS Subscriber, TLAPS

\* Slots are pairs, keys are ids or slots: facts about the operators.
LEMMA SlotFacts ==
    ASSUME NEW m \in Slots
    PROVE  /\ Durable(m) \in Durables
           /\ Sequence(m) \in Seqs
           /\ Key(m) \in Keys
BY HeaderAssumption DEF Slots, Durable, Sequence, Key, Keys

\* What a busy worker has is a delivery.
LEMMA BusyHasSlot ==
    ASSUME TypeOK, NEW w \in Workers, pc[w] # "idle"
    PROVE  /\ msg[w] \in Slots
           /\ Key(msg[w]) \in Keys
BY SlotFacts DEF TypeOK

-----------------------------------------------------------------------------
(* Type correctness *)

LEMMA InitType == Init => TypeOK
BY DEF Init, TypeOK, ConsumerInit, ConsumerTypeOK, EntryStates, PCs, Statuses

LEMMA NextType == TypeOK /\ [Next]_vars => TypeOK'
<1> SUFFICES ASSUME TypeOK, [Next]_vars PROVE TypeOK'
  OBVIOUS
<1> USE SlotFacts, NoMsgAssumption DEF TypeOK, ConsumerTypeOK, EntryStates, PCs, Statuses,
        consumerVars, workerVars, historyVars
<1>1. ASSUME NEW w \in Workers, NEW m \in Slots, Receive(w, m) PROVE TypeOK'
  BY <1>1 DEF Receive, Deliver
<1>2. ASSUME NEW w \in Workers, Step(w) PROVE TypeOK'
  <2>0. pc[w] # "idle" => msg[w] \in Slots /\ Key(msg[w]) \in Keys
    OBVIOUS
  <2>1. CASE InfoError(w)
    BY <2>1 DEF InfoError, Finish
  <2>2. CASE Claimed(w)
    BY <2>0, <2>2 DEF Claimed, Goto, GiveUp
  <2>3. CASE AlreadyPending(w) \/ AlreadyDone(w)
    BY <2>3 DEF AlreadyPending, AlreadyDone, Goto
  <2>4. CASE ClaimError(w)
    BY <2>0, <2>4 DEF ClaimError, Goto
  <2>5. CASE HandlerOk(w)
    BY <2>0, <2>5 DEF HandlerOk, Goto
  <2>6. CASE HandlerTransient(w)
    BY <2>0, <2>6 DEF HandlerTransient, GiveUp, Goto
  <2>7. CASE HandlerPermanent(w)
    BY <2>0, <2>7 DEF HandlerPermanent, GiveUp, Goto
  <2>8. CASE DeadLettered(w)
    BY <2>0, <2>8 DEF DeadLettered, Goto
  <2>9. CASE DlqError(w)
    BY <2>0, <2>9 DEF DlqError, LogDlqError, Goto
  <2>10. CASE MarkDone(w)
    BY <2>0, <2>10 DEF MarkDone, Goto
  <2>11. CASE Release(w)
    BY <2>0, <2>11 DEF Release, Goto
  <2>12. CASE Acknowledge(w)
    BY <2>0, <2>12 DEF Acknowledge, Finish, Settle
  <2>13. CASE Nak(w)
    BY <2>0, <2>13 DEF Nak, Finish, Requeue
  <2> QED
    BY <1>2, <2>1, <2>2, <2>3, <2>4, <2>5, <2>6, <2>7, <2>8, <2>9, <2>10, <2>11, <2>12, <2>13
    DEF Step
<1>3. ASSUME NEW w \in Workers, Abort(w) PROVE TypeOK'
  BY <1>3 DEF Abort, Finish
<1>4. ASSUME NEW m \in Slots, Timeout(m) \/ Drop(m) PROVE TypeOK'
  BY <1>4 DEF Timeout, Drop, AckTimerExpires, DropExhausted
<1>5. ASSUME NEW k \in Keys, Expire(k) PROVE TypeOK'
  BY <1>5 DEF Expire
<1>6. ASSUME NEW d \in Durables, RecreateConsumer(d) PROVE TypeOK'
  BY <1>6 DEF RecreateConsumer, Recreate
<1>7. CASE UNCHANGED vars
  BY <1>7 DEF vars
<1> QED
  BY <1>1, <1>2, <1>3, <1>4, <1>5, <1>6, <1>7 DEF Next, Server

\* The variables keep their types, and a worker is idle exactly when it has no
\* delivery.
THEOREM TypeCorrect == Spec => []TypeOK
BY InitType, NextType, PTL DEF Spec

-----------------------------------------------------------------------------
(* Nothing is settled on the strength of a claim alone *)

\* What can lead to an ack or a TERM: a `done` entry, and the awaits after the
\* handler succeeded or the message was given up.
DoneIsAccounted ==
    \A k \in Keys : entry[k] = "done" => Accounted(k)

PastOutcome == {"mark_ok", "ack", "mark_term", "term"}

OutcomeIsAccounted ==
    \A w \in Workers : pc[w] \in PastOutcome => Accounted(Key(msg[w]))

AccountInv == SettledIsAccounted /\ DoneIsAccounted /\ OutcomeIsAccounted

\* Outcomes are only ever added.
LEMMA AccountedGrows ==
    ASSUME succeeded \subseteq succeeded', deadLetters \subseteq deadLetters',
           terminated \subseteq terminated', NEW k, Accounted(k)
    PROVE  Accounted(k)'
BY DEF Accounted

LEMMA InitAccount == Init => AccountInv
BY DEF Init, ConsumerInit, AccountInv, SettledIsAccounted, DoneIsAccounted,
       OutcomeIsAccounted, PastOutcome, Slots

LEMMA NextAccount == TypeOK /\ TypeOK' /\ AccountInv /\ [Next]_vars => AccountInv'
<1> SUFFICES ASSUME TypeOK, TypeOK', AccountInv, [Next]_vars PROVE AccountInv'
  OBVIOUS
<1> USE DEF TypeOK, ConsumerTypeOK, AccountInv, SettledIsAccounted, DoneIsAccounted,
        OutcomeIsAccounted, PastOutcome, consumerVars, workerVars, historyVars
<1>0. /\ succeeded \subseteq succeeded'
      /\ deadLetters \subseteq deadLetters'
      /\ terminated \subseteq terminated'
  BY DEF Next, Server, Step, Receive, InfoError, Claimed, AlreadyPending, AlreadyDone,
         ClaimError, HandlerOk, HandlerTransient, HandlerPermanent, DeadLettered, DlqError,
         MarkDone, Release, Acknowledge, Nak, Abort, Timeout, Drop, Expire,
         RecreateConsumer, GiveUp, vars
<1>k. \A k : Accounted(k) => Accounted(k)'
  BY <1>0, AccountedGrows
<1>1. ASSUME NEW w \in Workers, NEW m \in Slots, Receive(w, m) PROVE AccountInv'
  BY <1>1, <1>k DEF Receive, Deliver
<1>2. ASSUME NEW w \in Workers, Step(w) PROVE AccountInv'
  <2>0. pc[w] # "idle" => msg[w] \in Slots /\ Key(msg[w]) \in Keys
    BY BusyHasSlot
  <2>1. CASE InfoError(w)
    BY <1>k, <2>1 DEF InfoError, Finish
  <2>g. ASSUME GiveUp(w), pc[w] # "idle", UNCHANGED <<consumerVars>>,
               \A k \in Keys : entry'[k] = "done" => entry[k] = "done"
        PROVE  AccountInv'
    <3>1. CASE HasDlq(msg[w])
      BY <1>k, <2>g, <3>1 DEF GiveUp, Goto
    <3>2. CASE ~HasDlq(msg[w])
      <4>1. Accounted(Key(msg[w]))'
        BY <2>g, <3>2 DEF GiveUp, Goto, Accounted
      <4> QED
        BY <1>k, <2>0, <2>g, <3>2, <4>1 DEF GiveUp, Goto
    <3> QED
      BY <3>1, <3>2
  <2>2. CASE Claimed(w)
    <3>1. CASE Sequence(msg[w]) \in Poison
      BY <2>0, <2>2, <2>g, <3>1 DEF Claimed
    <3>2. CASE Sequence(msg[w]) \notin Poison
      BY <1>k, <2>0, <2>2, <3>2 DEF Claimed, Goto
    <3> QED
      BY <3>1, <3>2
  <2>3. CASE AlreadyPending(w)
    BY <1>k, <2>3 DEF AlreadyPending, Goto
  <2>4. CASE AlreadyDone(w)
    BY <1>k, <2>0, <2>4 DEF AlreadyDone, Goto
  <2>5. CASE ClaimError(w)
    BY <1>k, <2>0, <2>5 DEF ClaimError, Goto
  <2>6. CASE HandlerOk(w)
    <3>1. Accounted(Key(msg[w]))'
      BY <2>6 DEF HandlerOk, Goto, Accounted
    <3> QED
      BY <1>k, <2>0, <2>6, <3>1 DEF HandlerOk, Goto
  <2>7. CASE HandlerTransient(w)
    <3>1. CASE IsFinalAttempt(attempt[w])
      BY <2>7, <2>g, <3>1 DEF HandlerTransient
    <3>2. CASE ~IsFinalAttempt(attempt[w])
      BY <1>k, <2>7, <3>2 DEF HandlerTransient, Goto
    <3> QED
      BY <3>1, <3>2
  <2>8. CASE HandlerPermanent(w)
    BY <2>8, <2>g DEF HandlerPermanent
  <2>9. CASE DeadLettered(w)
    <3>1. <<msg[w], attempt[w]>> \in deadLetters'
      BY <2>9 DEF DeadLettered
    <3>2. Accounted(Key(msg[w]))'
      BY <3>1, <2>9 DEF DeadLettered, Goto, Accounted
    <3> QED
      BY <1>k, <2>0, <2>9, <3>2 DEF DeadLettered, Goto
  <2>10. CASE DlqError(w)
    BY <1>k, <2>10 DEF DlqError, Goto
  <2>11. CASE MarkDone(w)
    BY <1>k, <2>0, <2>11 DEF MarkDone, Goto
  <2>12. CASE Release(w)
    BY <1>k, <2>0, <2>12 DEF Release, Goto
  <2>13. CASE Acknowledge(w)
    BY <1>k, <2>0, <2>13 DEF Acknowledge, Finish, Settle
  <2>14. CASE Nak(w)
    BY <1>k, <2>0, <2>14 DEF Nak, Finish, Requeue
  <2> QED
    BY <1>2, <2>1, <2>2, <2>3, <2>4, <2>5, <2>6, <2>7, <2>8, <2>9, <2>10, <2>11, <2>12,
       <2>13, <2>14
    DEF Step
<1>3. ASSUME NEW w \in Workers, Abort(w) PROVE AccountInv'
  BY <1>3, <1>k DEF Abort, Finish
<1>4. ASSUME NEW m \in Slots, Timeout(m) \/ Drop(m) PROVE AccountInv'
  BY <1>4, <1>k DEF Timeout, Drop, AckTimerExpires, DropExhausted
<1>5. ASSUME NEW k \in Keys, Expire(k) PROVE AccountInv'
  BY <1>5, <1>k DEF Expire
<1>6. ASSUME NEW d \in Durables, RecreateConsumer(d) PROVE AccountInv'
  BY <1>6, <1>k DEF RecreateConsumer, Recreate
<1>7. CASE UNCHANGED vars
  BY <1>7, <1>k DEF vars
<1> QED
  BY <1>1, <1>2, <1>3, <1>4, <1>5, <1>6, <1>7 DEF Next, Server

\* Whatever fails, expires or dies, a message that is acked or termed was handled
\* to success or has its copy in the DLQ (or was discarded without one).
THEOREM SettledAccounted == Spec => []SettledIsAccounted
<1>1. TypeOK /\ AccountInv /\ [Next]_vars => (TypeOK /\ AccountInv)'
  BY NextType, NextAccount
<1>2. Init => TypeOK /\ AccountInv
  BY InitType, InitAccount
<1>3. AccountInv => SettledIsAccounted
  BY DEF AccountInv
<1> QED
  BY <1>1, <1>2, <1>3, PTL DEF Spec

-----------------------------------------------------------------------------
(* One owner for each claim *)

NoEarlyExpiry == "early_expiry" \notin Faults

OwnersHold ==
    \A w \in Workers : pc[w] \in OwnerPCs => entry[Key(msg[w])] = "pending"

OwnersDistinct ==
    \A v, w \in Workers :
        pc[v] \in OwnerPCs /\ pc[w] \in OwnerPCs /\ Key(msg[v]) = Key(msg[w]) => v = w

ClaimInv == OwnersHold /\ OwnersDistinct

LEMMA InitClaim == Init => ClaimInv
BY DEF Init, ClaimInv, OwnersHold, OwnersDistinct, OwnerPCs

\* A step that makes no new owner and leaves the entries of the remaining owners
\* alone preserves the invariant.
LEMMA FewerOwners ==
    ASSUME ClaimInv,
           \A v \in Workers : pc'[v] \in OwnerPCs =>
               /\ pc[v] \in OwnerPCs
               /\ msg'[v] = msg[v]
               /\ entry'[Key(msg[v])] = entry[Key(msg[v])]
    PROVE  ClaimInv'
BY DEF ClaimInv, OwnersHold, OwnersDistinct

\* A claim is made only on an absent entry, which nobody owns, and the entry of
\* an owner changes only by the call that ends its ownership.
LEMMA NextClaim ==
    ASSUME NoEarlyExpiry, TypeOK, TypeOK', ClaimInv, [Next]_vars
    PROVE  ClaimInv'
<1> DEFINE Keeps(v) == pc'[v] \in OwnerPCs =>
                /\ pc[v] \in OwnerPCs
                /\ msg'[v] = msg[v]
                /\ entry'[Key(msg[v])] = entry[Key(msg[v])]
<1>f. (\A v \in Workers : Keeps(v)) => ClaimInv'
  BY FewerOwners
<1>1. ASSUME NEW w \in Workers, NEW m \in Slots, Receive(w, m) PROVE ClaimInv'
  BY <1>1, <1>f DEF Receive, OwnerPCs, TypeOK
<1>2. ASSUME NEW w \in Workers, Step(w) PROVE ClaimInv'
  <2> USE DEF TypeOK, OwnerPCs
  <2>0. pc[w] # "idle" => msg[w] \in Slots /\ Key(msg[w]) \in Keys
    BY BusyHasSlot
  <2>1. CASE InfoError(w)
    BY <1>f, <2>1 DEF InfoError, Finish
  <2>2. CASE Claimed(w)
    <3>1. pc[w] = "received" /\ entry[Key(msg[w])] = "absent" /\ msg' = msg
      BY <2>2 DEF Claimed, GiveUp, Goto
    <3>2. \A v \in Workers : v # w => pc'[v] = pc[v]
      BY <2>2 DEF Claimed, GiveUp, Goto
    <3>3. entry' = [entry EXCEPT ![Key(msg[w])] = "pending"]
      BY <2>2 DEF Claimed
    <3>4. \A v \in Workers : pc[v] \in OwnerPCs => Key(msg[v]) # Key(msg[w])
      BY <3>1 DEF ClaimInv, OwnersHold
    <3>5. OwnersHold'
      BY <2>0, <3>1, <3>2, <3>3, <3>4 DEF ClaimInv, OwnersHold
    <3>6. OwnersDistinct'
      BY <3>1, <3>2, <3>4 DEF ClaimInv, OwnersDistinct
    <3> QED
      BY <3>5, <3>6 DEF ClaimInv
  <2>3. CASE AlreadyPending(w) \/ AlreadyDone(w)
    BY <1>f, <2>3 DEF AlreadyPending, AlreadyDone, Goto
  <2>4. CASE ClaimError(w)
    <3>1. pc[w] = "received" /\ msg' = msg /\ pc' = [pc EXCEPT ![w] = "nak"]
      BY <2>4 DEF ClaimError, Goto
    <3>2. \/ entry' = entry
          \/ /\ entry[Key(msg[w])] = "absent"
             /\ entry' = [entry EXCEPT ![Key(msg[w])] = "pending"]
      BY <2>4 DEF ClaimError
    <3>3. \A v \in Workers : pc[v] \in OwnerPCs => entry'[Key(msg[v])] = entry[Key(msg[v])]
      BY <2>0, <3>1, <3>2, BusyHasSlot DEF ClaimInv, OwnersHold
    <3> QED
      BY <1>f, <3>1, <3>3
  <2>5. CASE HandlerOk(w)
    BY <1>f, <2>5 DEF HandlerOk, Goto
  <2>6. CASE HandlerTransient(w) \/ HandlerPermanent(w)
    <3>1. pc[w] = "handling" /\ msg' = msg /\ entry' = entry
      BY <2>6 DEF HandlerTransient, HandlerPermanent, GiveUp, Goto
    <3>2. \A v \in Workers : v # w => pc'[v] = pc[v]
      BY <2>6 DEF HandlerTransient, HandlerPermanent, GiveUp, Goto
    <3> QED
      BY <1>f, <3>1, <3>2
  <2>7. CASE DeadLettered(w)
    BY <1>f, <2>7 DEF DeadLettered, Goto
  <2>8. CASE DlqError(w)
    BY <1>f, <2>8 DEF DlqError, Goto
  <2>9. CASE MarkDone(w) \/ Release(w)
    <3>1. pc[w] \in OwnerPCs /\ pc'[w] \notin OwnerPCs /\ msg' = msg
      BY <2>9 DEF MarkDone, Release, Goto
    <3>2. \A v \in Workers : v # w => pc'[v] = pc[v]
      BY <2>9 DEF MarkDone, Release, Goto
    <3>3. \A k \in Keys : k # Key(msg[w]) => entry'[k] = entry[k]
      BY <2>9 DEF MarkDone, Release
    <3>4. \A v \in Workers : v # w /\ pc[v] \in OwnerPCs => Key(msg[v]) # Key(msg[w])
      BY <3>1 DEF ClaimInv, OwnersDistinct
    <3> QED
      BY <1>f, <3>1, <3>2, <3>3, <3>4, BusyHasSlot
  <2>10. CASE Acknowledge(w) \/ Nak(w)
    BY <1>f, <2>10 DEF Acknowledge, Nak, Finish
  <2> QED
    BY <1>2, <2>1, <2>2, <2>3, <2>4, <2>5, <2>6, <2>7, <2>8, <2>9, <2>10 DEF Step
<1>3. ASSUME NEW w \in Workers, Abort(w) PROVE ClaimInv'
  BY <1>3, <1>f DEF Abort, Finish, TypeOK, OwnerPCs
<1>4. ASSUME NEW m \in Slots, Timeout(m) \/ Drop(m) PROVE ClaimInv'
  BY <1>4, <1>f DEF Timeout, Drop, workerVars
<1>5. ASSUME NEW k \in Keys, Expire(k) PROVE ClaimInv'
  <2>1. ~Owned(k) /\ UNCHANGED workerVars /\ entry' = [entry EXCEPT ![k] = "absent"]
    BY <1>5 DEF Expire, NoEarlyExpiry
  <2>2. \A v \in Workers : pc[v] \in OwnerPCs => Key(msg[v]) # k /\ Key(msg[v]) \in Keys
    BY <2>1, BusyHasSlot DEF Owned, Owns, OwnerPCs
  <2> QED
    BY <1>f, <2>1, <2>2 DEF workerVars, TypeOK
<1>6. ASSUME NEW d \in Durables, RecreateConsumer(d) PROVE ClaimInv'
  BY <1>6, <1>f DEF RecreateConsumer, workerVars
<1>7. CASE UNCHANGED vars
  BY <1>7, <1>f DEF vars
<1> QED
  BY <1>1, <1>2, <1>3, <1>4, <1>5, <1>6, <1>7 DEF Next, Server

\* No message id is handled by two workers at once, if no claim expires under a
\* worker that owns it.  Redeliveries, duplicates, lost acks, failing store calls
\* and deaths of workers do not matter.
THEOREM OneHandlerAtATime == ASSUME NoEarlyExpiry PROVE Spec => []HandlerExclusion
<1>1. TypeOK /\ ClaimInv /\ [Next]_vars => (TypeOK /\ ClaimInv)'
  BY NextType, NextClaim, NoEarlyExpiry
<1>2. Init => TypeOK /\ ClaimInv
  BY InitType, InitClaim
<1>3. ClaimInv => HandlerExclusion
  BY DEF ClaimInv, OwnersDistinct, OwnerPCs, HandlerExclusion
<1> QED
  BY <1>1, <1>2, <1>3, PTL DEF Spec

-----------------------------------------------------------------------------
(* What is finished stays finished *)

NoExpiry == "early_expiry" \notin Faults /\ "expiry" \notin Faults

\* The entry of a finished message still bars the way to the handler, and its
\* last owner, if there is one, is about to mark it.
FinishInv ==
    \A m \in succeeded \union terminated :
        /\ entry[Key(m)] # "absent"
        /\ \A w \in Workers :
             pc[w] \in OwnerPCs /\ Key(msg[w]) = Key(m) => pc[w] \in {"mark_ok", "mark_term"}

LEMMA InitFinish == Init => FinishInv /\ OneOutcome
BY DEF Init, FinishInv, OneOutcome

LEMMA NextFinish ==
    ASSUME NoExpiry, TypeOK, TypeOK', ClaimInv, FinishInv, [Next]_vars
    PROVE  FinishInv'
<1> USE DEF TypeOK, ConsumerTypeOK, FinishInv, OwnerPCs, consumerVars, workerVars, historyVars
<1>1. ASSUME NEW w \in Workers, NEW m \in Slots, Receive(w, m) PROVE FinishInv'
  BY <1>1 DEF Receive
<1>2. ASSUME NEW w \in Workers, Step(w) PROVE FinishInv'
  <2>0. pc[w] # "idle" => msg[w] \in Slots /\ Key(msg[w]) \in Keys
    BY BusyHasSlot
  <2>k. \A m \in succeeded \union terminated : m \in Slots /\ Key(m) \in Keys
    BY SlotFacts
  <2> USE <2>0, <2>k
  <2>1. CASE InfoError(w)
    BY <2>1 DEF InfoError, Finish
  <2>2. CASE Claimed(w)
    BY <2>2 DEF Claimed, GiveUp, Goto, ClaimInv, OwnersHold
  <2>3. CASE AlreadyPending(w) \/ AlreadyDone(w)
    BY <2>3 DEF AlreadyPending, AlreadyDone, Goto
  <2>4. CASE ClaimError(w)
    BY <2>4 DEF ClaimError, Goto
  <2>5. CASE HandlerOk(w)
    BY <2>5 DEF HandlerOk, Goto, ClaimInv, OwnersHold, OwnersDistinct
  <2>6. CASE HandlerTransient(w)
    BY <2>6 DEF HandlerTransient, GiveUp, Goto, ClaimInv, OwnersHold, OwnersDistinct
  <2>7. CASE HandlerPermanent(w)
    BY <2>7 DEF HandlerPermanent, GiveUp, Goto, ClaimInv, OwnersHold, OwnersDistinct
  <2>8. CASE DeadLettered(w)
    BY <2>8 DEF DeadLettered, Goto, ClaimInv, OwnersHold, OwnersDistinct
  <2>9. CASE DlqError(w)
    BY <2>9 DEF DlqError, Goto
  <2>10. CASE MarkDone(w)
    BY <2>10 DEF MarkDone, Goto
  <2>11. CASE Release(w)
    BY <2>11 DEF Release, Goto
  <2>12. CASE Acknowledge(w) \/ Nak(w)
    BY <2>12 DEF Acknowledge, Nak, Finish
  <2> QED
    BY <1>2, <2>1, <2>2, <2>3, <2>4, <2>5, <2>6, <2>7, <2>8, <2>9, <2>10, <2>11, <2>12 DEF Step
<1>3. ASSUME NEW w \in Workers, Abort(w) PROVE FinishInv'
  BY <1>3 DEF Abort, Finish
<1>4. ASSUME NEW m \in Slots, Timeout(m) \/ Drop(m) PROVE FinishInv'
  BY <1>4 DEF Timeout, Drop
<1>5. ASSUME NEW k \in Keys, Expire(k) PROVE FinishInv'
  BY <1>5 DEF Expire, NoExpiry
<1>6. ASSUME NEW d \in Durables, RecreateConsumer(d) PROVE FinishInv'
  BY <1>6 DEF RecreateConsumer
<1>7. CASE UNCHANGED vars
  BY <1>7 DEF vars
<1> QED
  BY <1>1, <1>2, <1>3, <1>4, <1>5, <1>6, <1>7 DEF Next, Server

\* Only a worker that holds an unfinished claim can add an outcome.
LEMMA NextOneOutcome ==
    ASSUME TypeOK, FinishInv, OneOutcome, [Next]_vars
    PROVE  OneOutcome'
<1> USE DEF TypeOK, FinishInv, OneOutcome, OwnerPCs, historyVars
<1>1. ASSUME NEW w \in Workers,
             HandlerOk(w) \/ HandlerTransient(w) \/ HandlerPermanent(w)
               \/ DeadLettered(w) \/ Claimed(w)
      PROVE  OneOutcome'
  <2>0. msg[w] \in Slots /\ Key(msg[w]) \in Keys
    BY <1>1, BusyHasSlot
    DEF HandlerOk, HandlerTransient, HandlerPermanent, DeadLettered, Claimed
  <2>1. ~Finished(Key(msg[w]))
    BY <1>1 DEF HandlerOk, HandlerTransient, HandlerPermanent, DeadLettered, Claimed, Finished
  <2>2. \/ succeeded' \subseteq succeeded \union {msg[w]} /\ terminated' = terminated
        \/ terminated' \subseteq terminated \union {msg[w]} /\ succeeded' = succeeded
    BY <1>1 DEF HandlerOk, HandlerTransient, HandlerPermanent, DeadLettered, Claimed, GiveUp
  <2>3. ASSUME NEW m \in succeeded', NEW n \in terminated' PROVE Key(m) # Key(n)
    BY <2>1, <2>2 DEF Finished
  <2> QED
    BY <2>3
<1>2. CASE UNCHANGED <<succeeded, terminated>>
  BY <1>2
<1> QED
  BY <1>1, <1>2
  DEF Next, Server, Step, Receive, InfoError, AlreadyPending, AlreadyDone, ClaimError, DlqError,
      MarkDone, Release, Acknowledge, Nak, Abort, Timeout, Drop, Expire, RecreateConsumer, vars

SafeInv == TypeOK /\ ClaimInv /\ FinishInv /\ OneOutcome

LEMMA NoExpiryIsNotEarly == NoExpiry => NoEarlyExpiry
BY DEF NoExpiry, NoEarlyExpiry

LEMMA InitSafe == Init => SafeInv
BY InitType, InitClaim, InitFinish DEF SafeInv

LEMMA NextSafe == ASSUME NoExpiry PROVE SafeInv /\ [Next]_vars => SafeInv'
BY NextType, NextClaim, NextFinish, NextOneOutcome, NoExpiryIsNotEarly, NoExpiry DEF SafeInv

THEOREM SafeInvariant == ASSUME NoExpiry PROVE Spec => []SafeInv
<1>1. SafeInv /\ [Next]_vars => SafeInv'
  BY NextSafe, NoExpiry
<1> QED
  BY <1>1, InitSafe, PTL DEF Spec

\* With entries that outlive the stream, a message that was handled or given up
\* never enters the handler again.
THEOREM FinishedNeverReruns == ASSUME NoExpiry PROVE Spec => []NoRerun
<1>1. SafeInv => NoRerun
  BY DEF SafeInv, FinishInv, NoRerun, Finished, OwnerPCs
<1>2. Spec => []SafeInv
  BY SafeInvariant, NoExpiry
<1> QED
  BY <1>1, <1>2, PTL

\* ... and it is not both handled and given up.
THEOREM OutcomesExclude == ASSUME NoExpiry PROVE Spec => []OneOutcome
<1>1. SafeInv => OneOutcome
  BY DEF SafeInv
<1>2. Spec => []SafeInv
  BY SafeInvariant, NoExpiry
<1> QED
  BY <1>1, <1>2, PTL

\* ... and its `done` entry is never reopened, although release deletes and
\* try_claim writes without looking at who wrote the entry.
THEOREM DoneStays == ASSUME NoExpiry PROVE Spec => DoneIsPermanent
<1>1. ASSUME SafeInv, [Next]_vars
      PROVE  \A k \in Keys : entry[k] = "done" => entry'[k] = "done"
  <2> USE DEF SafeInv, TypeOK
  <2>1. ASSUME NEW w \in Workers,
               Claimed(w) \/ ClaimError(w) \/ MarkDone(w) \/ Release(w)
        PROVE  \A k \in Keys : entry[k] = "done" => entry'[k] = "done"
    BY <1>1, <2>1, BusyHasSlot
    DEF Claimed, ClaimError, MarkDone, Release, ClaimInv, OwnersHold, OwnerPCs
  <2>2. CASE UNCHANGED entry
    BY <2>2
  <2> QED
    BY <1>1, <2>1, <2>2, NoExpiry
    DEF NoExpiry, Next, Server, Step, Receive, InfoError, AlreadyPending, AlreadyDone, HandlerOk,
        HandlerTransient, HandlerPermanent, DeadLettered, DlqError, Acknowledge, Nak, Abort,
        Timeout, Drop, Expire, RecreateConsumer, vars
<1>2. SafeInv /\ [Next]_vars
        => [\A k \in Keys : entry[k] = "done" => entry'[k] = "done"]_vars
  BY <1>1
<1>3. Spec => []SafeInv
  BY SafeInvariant, NoExpiry
<1> QED
  BY <1>2, <1>3, PTL DEF Spec, DoneIsPermanent

\* ... and once it was handled, no retry, duplicate or late worker puts it into the
\* DLQ: only the owner of an unfinished claim publishes there.
THEOREM DeadLettersAreUnhandled == ASSUME NoExpiry PROVE Spec => HandledIsNotDeadLettered
<1> DEFINE KeepApart == \A d \in deadLetters' \ deadLetters, m \in succeeded : Key(m) # Key(d[1])
<1>1. ASSUME SafeInv, [Next]_vars PROVE KeepApart
  <2>1. ASSUME NEW w \in Workers, DeadLettered(w) \/ DlqError(w) PROVE KeepApart
    <3>1. pc[w] = "dlq" /\ deadLetters' \subseteq deadLetters \union {<<msg[w], attempt[w]>>}
      BY <2>1 DEF DeadLettered, DlqError
    <3>2. \A m \in succeeded : Key(m) # Key(msg[w])
      BY <1>1, <3>1 DEF SafeInv, FinishInv, OwnerPCs
    <3> QED
      BY <3>1, <3>2
  <2>2. CASE UNCHANGED deadLetters
    BY <2>2
  <2> QED
    BY <1>1, <2>1, <2>2
    DEF Next, Server, Step, Receive, InfoError, Claimed, AlreadyPending, AlreadyDone, ClaimError,
        HandlerOk, HandlerTransient, HandlerPermanent, MarkDone, Release, Acknowledge, Nak, Abort,
        Timeout, Drop, Expire, RecreateConsumer, historyVars, vars
<1>2. SafeInv /\ [Next]_vars => [KeepApart]_vars
  BY <1>1
<1>3. Spec => []SafeInv
  BY SafeInvariant, NoExpiry
<1> QED
  BY <1>2, <1>3, PTL DEF Spec, HandledIsNotDeadLettered

-----------------------------------------------------------------------------
(* When retries do not vanish.  Claims are ended as long as no store call   *)
(* fails and no worker dies; nothing is lost without a trace as long as,    *)
(* besides, every handler is faster than the ack timer and the durable is   *)
(* not created again, whatever acks, NAKs and dead letters are lost and     *)
(* whenever claims expire; and every durable gets its own outcomes as long  *)
(* as no two of them share a key, whatever fails.                           *)

NoneDies == Faults \subseteq {"ack", "dlq", "expiry", "early_expiry"}

LEMMA NoneDiesFacts ==
    ASSUME NoneDies
    PROVE  /\ "store" \notin Faults
           /\ "info" \notin Faults
           /\ "abort" \notin Faults
           /\ "slow" \notin Faults
           /\ "recreate" \notin Faults
BY DEF NoneDies

-----------------------------------------------------------------------------
(* Every pending entry has an owner *)

\* The store answers and workers live.  Dead letters may fail, acks may be lost,
\* handlers may be slow, claims may expire under their owners, durables may be
\* recreated.
ClaimsSurvive == Faults \intersect {"store", "abort"} = {}

LEMMA ClaimsSurviveFacts ==
    ASSUME ClaimsSurvive
    PROVE  "store" \notin Faults /\ "abort" \notin Faults
BY DEF ClaimsSurvive

LEMMA NoneDiesIsMild == NoneDies => ClaimsSurvive
BY DEF NoneDies, ClaimsSurvive

\* Two workers may own one claim when it expired under the first: whoever ends it
\* first leaves no pending entry behind.

LEMMA NextPendingHasOwner ==
    ASSUME ClaimsSurvive, TypeOK, TypeOK', PendingHasOwner, [Next]_vars
    PROVE  PendingHasOwner'
<1> DEFINE SameOwners == \A w \in Workers :
        pc[w] \in OwnerPCs => pc'[w] \in OwnerPCs /\ msg'[w] = msg[w]
<1> DEFINE NoNewPending == \A k \in Keys : entry'[k] = "pending" => entry[k] = "pending"
<1>s. ASSUME SameOwners, NoNewPending PROVE PendingHasOwner'
  BY <1>s DEF PendingHasOwner, Owned, Owns
<1>1. ASSUME NEW w \in Workers, NEW m \in Slots, Receive(w, m) PROVE PendingHasOwner'
  BY <1>1, <1>s DEF Receive, OwnerPCs, TypeOK
<1>2. ASSUME NEW w \in Workers, Step(w) PROVE PendingHasOwner'
  <2> USE DEF TypeOK, OwnerPCs
  <2>0. pc[w] # "idle" => msg[w] \in Slots /\ Key(msg[w]) \in Keys
    BY BusyHasSlot
  <2>1. CASE InfoError(w)
    BY <1>s, <2>1 DEF InfoError, Finish
  <2>9. CASE ClaimError(w)
    BY <2>9, ClaimsSurviveFacts DEF ClaimError
  <2>10. CASE DlqError(w)
    BY <1>s, <2>10 DEF DlqError, Goto
  <2>2. CASE Claimed(w)
    <3>1. /\ pc[w] = "received" /\ pc'[w] \in OwnerPCs /\ msg' = msg
          /\ entry' = [entry EXCEPT ![Key(msg[w])] = "pending"]
      BY <2>2 DEF Claimed, GiveUp, Goto
    <3>2. \A v \in Workers : v # w => pc'[v] = pc[v]
      BY <2>2 DEF Claimed, GiveUp, Goto
    <3>3. Owned(Key(msg[w]))'
      BY <3>1 DEF Owned, Owns
    <3>4. \A k \in Keys : Owned(k) => Owned(k)'
      BY <3>1, <3>2 DEF Owned, Owns
    <3> QED
      BY <2>0, <3>1, <3>3, <3>4 DEF PendingHasOwner
  <2>3. CASE AlreadyPending(w) \/ AlreadyDone(w)
    BY <1>s, <2>3 DEF AlreadyPending, AlreadyDone, Goto
  <2>4. CASE HandlerOk(w)
    BY <1>s, <2>4 DEF HandlerOk, Goto
  <2>5. CASE HandlerTransient(w) \/ HandlerPermanent(w)
    <3>1. pc'[w] \in OwnerPCs /\ msg' = msg /\ entry' = entry
      BY <2>5 DEF HandlerTransient, HandlerPermanent, GiveUp, Goto
    <3>2. \A v \in Workers : v # w => pc'[v] = pc[v]
      BY <2>5 DEF HandlerTransient, HandlerPermanent, GiveUp, Goto
    <3> QED
      BY <1>s, <3>1, <3>2
  <2>6. CASE DeadLettered(w)
    BY <1>s, <2>6 DEF DeadLettered, Goto
  <2>7. CASE MarkDone(w) \/ Release(w)
    <3>1. pc[w] \in OwnerPCs /\ msg' = msg /\ entry'[Key(msg[w])] # "pending"
      BY <2>0, <2>7, ClaimsSurviveFacts DEF MarkDone, Release, Goto
    <3>2. \A v \in Workers : v # w => pc'[v] = pc[v]
      BY <2>7 DEF MarkDone, Release, Goto
    <3>3. \A k \in Keys : k # Key(msg[w]) => entry'[k] = entry[k]
      BY <2>7 DEF MarkDone, Release
    <3>4. ASSUME NEW k \in Keys, entry'[k] = "pending" PROVE Owned(k)'
      <4>1. k # Key(msg[w]) /\ entry[k] = "pending"
        BY <3>1, <3>3, <3>4
      <4>2. PICK v \in Workers : Owns(v, k)
        BY <4>1 DEF PendingHasOwner, Owned
      <4>3. v # w
        BY <4>1, <4>2 DEF Owns
      <4> QED
        BY <3>1, <3>2, <4>2, <4>3 DEF Owned, Owns
    <3> QED
      BY <3>4 DEF PendingHasOwner
  <2>8. CASE Acknowledge(w) \/ Nak(w)
    BY <1>s, <2>8 DEF Acknowledge, Nak, Finish
  <2> QED
    BY <1>2, <2>1, <2>2, <2>3, <2>4, <2>5, <2>6, <2>7, <2>8, <2>9, <2>10 DEF Step
<1>3. ASSUME NEW w \in Workers, Abort(w) PROVE PendingHasOwner'
  BY <1>3, ClaimsSurviveFacts DEF Abort
<1>4. ASSUME NEW m \in Slots, Timeout(m) \/ Drop(m) PROVE PendingHasOwner'
  BY <1>4, <1>s DEF Timeout, Drop, workerVars
<1>5. ASSUME NEW k \in Keys, Expire(k) PROVE PendingHasOwner'
  BY <1>5, <1>s DEF Expire, workerVars, TypeOK
<1>6. ASSUME NEW d \in Durables, RecreateConsumer(d) PROVE PendingHasOwner'
  BY <1>6, <1>s DEF RecreateConsumer, workerVars
<1>7. CASE UNCHANGED vars
  BY <1>7, <1>s DEF vars
<1> QED
  BY <1>1, <1>2, <1>3, <1>4, <1>5, <1>6, <1>7 DEF Next, Server

\* While no store call fails and no worker dies, every path of process_message
\* ends the claim that it took, also the one by a failed dead letter.
THEOREM ClaimsAreEnded == ASSUME ClaimsSurvive PROVE Spec => []PendingHasOwner
<1>1. Init => PendingHasOwner
  BY DEF Init, PendingHasOwner
<1>2. TypeOK /\ PendingHasOwner /\ [Next]_vars => (TypeOK /\ PendingHasOwner)'
  BY NextType, NextPendingHasOwner, ClaimsSurvive
<1> QED
  BY <1>1, <1>2, InitType, PTL DEF Spec

\* Nothing else is needed for the NAK of a pending claim to make sense: a last
\* delivery that is NAKed before a claim without an owner comes from a store call
\* that failed or from a worker that died.
THEOREM RedeliveriesSeeTheEnd ==
    ASSUME ClaimsSurvive PROVE Spec => []RedeliverySeesFinalState
<1>1. TypeOK /\ PendingHasOwner => RedeliverySeesFinalState
  BY BusyHasSlot DEF PendingHasOwner, RedeliverySeesFinalState
<1>2. Spec => []PendingHasOwner
  BY ClaimsAreEnded, ClaimsSurvive
<1> QED
  BY <1>1, <1>2, TypeCorrect, PTL

-----------------------------------------------------------------------------
(* Every message has a delivery to come, or one being worked on *)

\* A delivery in progress is the only one of its slot, and its number is that of
\* the server.
HeldOnce ==
    \A v, w \in Workers : pc[v] # "idle" /\ pc[w] # "idle" /\ msg[v] = msg[w] => v = w

HeldIsCurrent ==
    \A w \in Workers : pc[w] # "idle" =>
        status[msg[w]] = "outstanding" /\ attempt[w] = deliveries[msg[w]]

\* The last attempt is never released for another one, unless its dead letter
\* failed.
ReleaseIsRetried ==
    \A w \in Workers : pc[w] = "release" =>
        ~LimitReached(attempt[w]) \/ msg[w] \in dlqFailed

DroppedIsExhausted ==
    \A m \in Slots : status[m] = "dropped" => LimitReached(deliveries[m])

HeldInv == HeldOnce /\ HeldIsCurrent /\ ReleaseIsRetried /\ DroppedIsExhausted

LEMMA InitHeld == Init => HeldInv
BY DEF Init, ConsumerInit, HeldInv, HeldOnce, HeldIsCurrent, ReleaseIsRetried,
       DroppedIsExhausted

LEMMA NextHeld ==
    ASSUME NoneDies, TypeOK, HeldInv, [Next]_vars
    PROVE  HeldInv'
<1> USE DEF TypeOK, ConsumerTypeOK, HeldInv, HeldOnce, HeldIsCurrent, ReleaseIsRetried,
        DroppedIsExhausted, consumerVars, workerVars, historyVars
<1>1. ASSUME NEW w \in Workers, NEW m \in Slots, Receive(w, m) PROVE HeldInv'
  BY <1>1 DEF Receive, Deliver
<1>2. ASSUME NEW w \in Workers, Step(w) PROVE HeldInv'
  <2>0. pc[w] # "idle" => msg[w] \in Slots
    BY BusyHasSlot
  <2>m. ASSUME pc[w] # "idle", pc'[w] \notin {"idle", "release"},
               \A v \in Workers : v # w => pc'[v] = pc[v],
               UNCHANGED <<msg, attempt, status, deliveries, dlqFailed>>
        PROVE  HeldInv'
    BY <2>m
  <2>1. CASE InfoError(w) \/ ClaimError(w)
    BY <2>1, NoneDiesFacts DEF InfoError, ClaimError
  <2>11. CASE DlqError(w)
    BY <2>11 DEF DlqError, LogDlqError, Goto
  <2>2. CASE Claimed(w)
    BY <2>m, <2>2 DEF Claimed, GiveUp, Goto
  <2>3. CASE AlreadyPending(w) \/ AlreadyDone(w)
    BY <2>m, <2>3 DEF AlreadyPending, AlreadyDone, Goto
  <2>4. CASE HandlerOk(w)
    BY <2>m, <2>4 DEF HandlerOk, Goto
  <2>5. CASE HandlerTransient(w)
    <3>1. CASE IsFinalAttempt(attempt[w])
      BY <2>m, <2>5, <3>1 DEF HandlerTransient, GiveUp, Goto
    <3>2. CASE ~IsFinalAttempt(attempt[w])
      BY <2>5, <3>2 DEF HandlerTransient, Goto, IsFinalAttempt, LimitReached
    <3> QED
      BY <3>1, <3>2
  <2>6. CASE HandlerPermanent(w)
    BY <2>m, <2>6 DEF HandlerPermanent, GiveUp, Goto
  <2>7. CASE DeadLettered(w)
    BY <2>m, <2>7 DEF DeadLettered, Goto
  <2>8. CASE MarkDone(w) \/ Release(w)
    BY <2>m, <2>8 DEF MarkDone, Release, Goto
  <2>9. CASE Acknowledge(w)
    BY <2>0, <2>9 DEF Acknowledge, Finish, Settle
  <2>10. CASE Nak(w)
    BY <2>0, <2>10 DEF Nak, Finish, Requeue
  <2> QED
    BY <1>2, <2>1, <2>2, <2>3, <2>4, <2>5, <2>6, <2>7, <2>8, <2>9, <2>10, <2>11 DEF Step
<1>3. ASSUME NEW w \in Workers, Abort(w) PROVE HeldInv'
  BY <1>3, NoneDiesFacts DEF Abort
<1>4. ASSUME NEW m \in Slots, Timeout(m) PROVE HeldInv'
  BY <1>4, NoneDiesFacts, NoMsgAssumption DEF Timeout, AckTimerExpires
<1>5. ASSUME NEW m \in Slots, Drop(m) PROVE HeldInv'
  BY <1>5 DEF Drop, DropExhausted
<1>6. ASSUME NEW k \in Keys, Expire(k) PROVE HeldInv'
  BY <1>6 DEF Expire
<1>7. ASSUME NEW d \in Durables, RecreateConsumer(d) PROVE HeldInv'
  BY <1>7, NoneDiesFacts DEF RecreateConsumer
<1>8. CASE UNCHANGED vars
  BY <1>8 DEF vars
<1> QED
  BY <1>1, <1>2, <1>3, <1>4, <1>5, <1>6, <1>7, <1>8 DEF Next, Server

\* A slot that can still lead to an outcome: the server will deliver it again, or
\* a worker has not yet decided about it.
Hopeful(n) ==
    \/ ~LimitReached(deliveries[n])
    \/ \E w \in Workers : msg[w] = n /\ pc[w] \in {"received"} \union OwnerPCs

Ended(k) == Accounted(k) \/ LostToDlq(k)

HopeInv ==
    \A m \in Slots : ~Ended(Key(m)) =>
        \E n \in Slots : Key(n) = Key(m) /\ Hopeful(n)

LossInv == TypeOK /\ AccountInv /\ PendingHasOwner /\ HeldInv /\ HopeInv

LEMMA InitHope == Init => HopeInv
BY MaxDeliverAssumption DEF Init, ConsumerInit, HopeInv, Hopeful, LimitReached

LEMMA EndIsKept ==
    ASSUME [Next]_vars, NEW k, Ended(k)
    PROVE  Ended(k)'
<1>1. /\ succeeded \subseteq succeeded'
      /\ deadLetters \subseteq deadLetters'
      /\ terminated \subseteq terminated'
      /\ dlqFailed \subseteq dlqFailed'
  BY DEF Next, Server, Step, Receive, InfoError, Claimed, AlreadyPending, AlreadyDone,
         ClaimError, HandlerOk, HandlerTransient, HandlerPermanent, DeadLettered, DlqError,
         LogDlqError, MarkDone, Release, Acknowledge, Nak, Abort, Timeout, Drop, Expire,
         RecreateConsumer, GiveUp, Goto, vars, historyVars
<1> QED
  BY <1>1, AccountedGrows DEF Ended, LostToDlq

\* A delivery leaves its worker without an outcome only where the server will
\* deliver the slot again, or where the owner of the claim has another slot with
\* the same key.
LEMMA NextHope ==
    ASSUME NoneDies, LossInv, [Next]_vars
    PROVE  HopeInv'
<1> USE DEF LossInv, TypeOK, ConsumerTypeOK
<1>k. \A k : Ended(k) => Ended(k)'
  BY EndIsKept
<1>h. ASSUME \A n \in Slots : Hopeful(n) => Hopeful(n)' PROVE HopeInv'
  BY <1>h, <1>k DEF HopeInv
\* Only the slot that w has may lose hope: then another one or an outcome is named.
<1>o. ASSUME NEW w \in Workers, msg[w] \in Slots, msg' = msg,
             \A n \in Slots : n # msg[w] /\ Hopeful(n) => Hopeful(n)',
             \/ Hopeful(msg[w])'
             \/ Ended(Key(msg[w]))
             \/ \E n \in Slots : Key(n) = Key(msg[w]) /\ Hopeful(n)'
      PROVE  HopeInv'
  <2> SUFFICES ASSUME NEW m \in Slots, ~Ended(Key(m))'
               PROVE  \E n \in Slots : Key(n) = Key(m) /\ Hopeful(n)'
    BY DEF HopeInv
  <2>1. PICK n \in Slots : Key(n) = Key(m) /\ Hopeful(n)
    BY <1>k DEF HopeInv
  <2>2. CASE n # msg[w]
    BY <1>o, <2>1, <2>2
  <2>3. CASE n = msg[w]
    BY <1>k, <1>o, <2>1, <2>3
  <2> QED
    BY <2>2, <2>3
<1>1. ASSUME NEW w \in Workers, NEW m \in Slots, Receive(w, m) PROVE HopeInv'
  <2>1. ASSUME NEW n \in Slots, Hopeful(n) PROVE Hopeful(n)'
    <3>1. CASE n = m
      BY <1>1, <3>1 DEF Receive, Hopeful
    <3>2. CASE n # m
      BY <1>1, <2>1, <3>2 DEF Receive, Deliver, Hopeful, OwnerPCs
    <3> QED
      BY <3>1, <3>2
  <2> QED
    BY <1>h, <2>1
<1>2. ASSUME NEW w \in Workers, Step(w) PROVE HopeInv'
  <2> USE DEF OwnerPCs
  <2>0. pc[w] # "idle" => msg[w] \in Slots /\ Key(msg[w]) \in Keys
    BY BusyHasSlot
  <2>1. CASE InfoError(w) \/ ClaimError(w)
    BY <2>1, NoneDiesFacts DEF InfoError, ClaimError
  <2>2. CASE \/ Claimed(w) \/ HandlerOk(w) \/ HandlerTransient(w) \/ HandlerPermanent(w)
             \/ DeadLettered(w) \/ DlqError(w)
    <3>1. pc'[w] \in OwnerPCs /\ msg' = msg /\ deliveries' = deliveries
      BY <2>2 DEF Claimed, HandlerOk, HandlerTransient, HandlerPermanent, DeadLettered, DlqError, GiveUp,
                  Goto, consumerVars
    <3>2. \A v \in Workers : v # w => pc'[v] = pc[v]
      BY <2>2 DEF Claimed, HandlerOk, HandlerTransient, HandlerPermanent, DeadLettered, DlqError, GiveUp,
                  Goto
    <3> QED
      BY <1>h, <3>1, <3>2 DEF Hopeful
  <2>3. CASE AlreadyPending(w)
    <3>1. pc[w] = "received" /\ entry[Key(msg[w])] = "pending"
      BY <2>3 DEF AlreadyPending
    <3>2. PICK v \in Workers : Owns(v, Key(msg[w]))
      BY <2>0, <3>1 DEF PendingHasOwner, Owned
    <3>3. v # w /\ msg[v] \in Slots /\ Hopeful(msg[v])'
      BY <2>3, <3>1, <3>2, BusyHasSlot DEF Owns, AlreadyPending, Goto, Hopeful
    <3>4. \A n \in Slots : n # msg[w] /\ Hopeful(n) => Hopeful(n)'
      BY <2>3 DEF AlreadyPending, Goto, Hopeful, consumerVars
    <3> QED
      BY <1>o, <2>0, <2>3, <3>1, <3>2, <3>3, <3>4 DEF Owns, AlreadyPending, Goto
  <2>4. CASE AlreadyDone(w)
    <3>1. Ended(Key(msg[w]))
      BY <2>0, <2>4 DEF AlreadyDone, AccountInv, DoneIsAccounted, Ended
    <3>2. \A n \in Slots : n # msg[w] /\ Hopeful(n) => Hopeful(n)'
      BY <2>4 DEF AlreadyDone, Goto, Hopeful, consumerVars
    <3> QED
      BY <1>o, <2>0, <2>4, <3>1, <3>2 DEF AlreadyDone, Goto
  <2>5. CASE MarkDone(w)
    <3>1. Ended(Key(msg[w]))
      BY <2>0, <2>5 DEF MarkDone, AccountInv, OutcomeIsAccounted, PastOutcome, Ended
    <3>2. \A n \in Slots : n # msg[w] /\ Hopeful(n) => Hopeful(n)'
      BY <2>5 DEF MarkDone, Goto, Hopeful, consumerVars
    <3> QED
      BY <1>o, <2>0, <2>5, <3>1, <3>2 DEF MarkDone, Goto
  <2>6. CASE Release(w)
    <3>1. Hopeful(msg[w])' \/ Ended(Key(msg[w]))
      BY <2>0, <2>6
      DEF Release, Goto, Hopeful, HeldInv, ReleaseIsRetried, HeldIsCurrent, consumerVars,
          Ended, LostToDlq
    <3>2. \A n \in Slots : n # msg[w] /\ Hopeful(n) => Hopeful(n)'
      BY <2>6 DEF Release, Goto, Hopeful, consumerVars
    <3> QED
      BY <1>o, <2>0, <2>6, <3>1, <3>2 DEF Release, Goto
  <2>7. CASE Acknowledge(w) \/ Nak(w)
    <3>1. \A n \in Slots : Hopeful(n) => Hopeful(n)'
      BY <2>7 DEF Acknowledge, Nak, Finish, Hopeful
    <3> QED
      BY <1>h, <3>1
  <2> QED
    BY <1>2, <2>1, <2>2, <2>3, <2>4, <2>5, <2>6, <2>7 DEF Step
<1>3. ASSUME NEW w \in Workers, Abort(w) PROVE HopeInv'
  BY <1>3, NoneDiesFacts DEF Abort
<1>4. ASSUME NEW d \in Durables, RecreateConsumer(d) PROVE HopeInv'
  BY <1>4, NoneDiesFacts DEF RecreateConsumer
<1>5. ASSUME UNCHANGED <<deliveries, msg, pc>> PROVE HopeInv'
  BY <1>h, <1>5 DEF Hopeful
<1> QED
  BY <1>1, <1>2, <1>3, <1>4, <1>5
  DEF Next, Server, Timeout, Drop, AckTimerExpires, DropExhausted, Expire, workerVars,
      consumerVars, vars

\* A message that the server stops offering was handled or is in the DLQ (or was
\* discarded where no DLQ was asked for), or the dead letter of its last delivery
\* failed: whatever acks are lost and whenever claims expire.
THEOREM NothingIsLost == ASSUME NoneDies PROVE Spec => []NoSilentLoss
<1>1. Init => LossInv
  <2>1. Init => PendingHasOwner
    BY DEF Init, PendingHasOwner
  <2> QED
    BY <2>1, InitType, InitAccount, InitHeld, InitHope DEF LossInv
<1>3. LossInv /\ [Next]_vars => LossInv'
  BY NoneDies, NoneDiesIsMild, NextType, NextAccount, NextPendingHasOwner, NextHeld, NextHope
  DEF LossInv
<1>4. LossInv => NoSilentLoss
  <2> SUFFICES ASSUME LossInv, NEW m \in Slots, ~Ended(Key(m)),
                      \A n \in Slots : Key(n) = Key(m) => status[n] = "dropped",
                      \A w \in Workers : msg[w] # NoMsg => Key(msg[w]) # Key(m)
               PROVE  FALSE
    BY DEF NoSilentLoss, Ended
  <2>1. PICK n \in Slots : Key(n) = Key(m) /\ Hopeful(n)
    BY DEF LossInv, HopeInv
  <2>2. LimitReached(deliveries[n])
    BY <2>1 DEF LossInv, HeldInv, DroppedIsExhausted
  <2>3. PICK w \in Workers : msg[w] = n
    BY <2>1, <2>2 DEF Hopeful
  <2> QED
    BY <2>1, <2>3, NoMsgAssumption
<1> QED
  BY <1>1, <1>3, <1>4, PTL DEF Spec

-----------------------------------------------------------------------------
(* Every durable has its own outcomes *)

\* What is acked, marked done, or past its outcome has a delivery behind it that was
\* handled or given up, by whatever durable.
FinishedBehind ==
    /\ \A m \in Slots : status[m] = "settled" => Finished(Key(m))
    /\ \A k \in Keys : entry[k] = "done" => Finished(k)
    /\ \A w \in Workers : pc[w] \in PastOutcome => Finished(Key(msg[w]))

LEMMA FinishedGrows ==
    ASSUME succeeded \subseteq succeeded', terminated \subseteq terminated', NEW k, Finished(k)
    PROVE  Finished(k)'
BY DEF Finished

LEMMA NextFinishedBehind == TypeOK /\ FinishedBehind /\ [Next]_vars => FinishedBehind'
<1> SUFFICES ASSUME TypeOK, FinishedBehind, [Next]_vars PROVE FinishedBehind'
  OBVIOUS
<1> USE DEF TypeOK, ConsumerTypeOK, FinishedBehind, PastOutcome, consumerVars, workerVars,
        historyVars
<1>0. succeeded \subseteq succeeded' /\ terminated \subseteq terminated'
  BY DEF Next, Server, Step, Receive, InfoError, Claimed, AlreadyPending, AlreadyDone,
         ClaimError, HandlerOk, HandlerTransient, HandlerPermanent, DeadLettered, DlqError,
         MarkDone, Release, Acknowledge, Nak, Abort, Timeout, Drop, Expire,
         RecreateConsumer, GiveUp, vars
<1>k. \A k : Finished(k) => Finished(k)'
  BY <1>0, FinishedGrows
<1>1. ASSUME NEW w \in Workers, NEW m \in Slots, Receive(w, m) PROVE FinishedBehind'
  BY <1>1, <1>k DEF Receive, Deliver
<1>2. ASSUME NEW w \in Workers, Step(w) PROVE FinishedBehind'
  <2>0. pc[w] # "idle" => msg[w] \in Slots /\ Key(msg[w]) \in Keys
    BY BusyHasSlot
  <2>1. CASE InfoError(w)
    BY <1>k, <2>1 DEF InfoError, Finish
  \* A worker that gives up passes the outcome only where it adds it.
  <2>g. ASSUME GiveUp(w), pc[w] # "idle", UNCHANGED <<consumerVars>>,
               \A k \in Keys : entry'[k] = "done" => entry[k] = "done"
        PROVE  FinishedBehind'
    <3>1. CASE HasDlq(msg[w])
      BY <1>k, <2>g, <3>1 DEF GiveUp, Goto
    <3>2. CASE ~HasDlq(msg[w])
      <4>1. Finished(Key(msg[w]))'
        BY <2>g, <3>2 DEF GiveUp, Goto, Finished
      <4> QED
        BY <1>k, <2>0, <2>g, <3>2, <4>1 DEF GiveUp, Goto
    <3> QED
      BY <3>1, <3>2
  <2>2. CASE Claimed(w)
    <3>1. CASE Sequence(msg[w]) \in Poison
      BY <2>0, <2>2, <2>g, <3>1 DEF Claimed
    <3>2. CASE Sequence(msg[w]) \notin Poison
      BY <1>k, <2>0, <2>2, <3>2 DEF Claimed, Goto
    <3> QED
      BY <3>1, <3>2
  <2>3. CASE AlreadyPending(w)
    BY <1>k, <2>3 DEF AlreadyPending, Goto
  <2>4. CASE AlreadyDone(w)
    BY <1>k, <2>0, <2>4 DEF AlreadyDone, Goto
  <2>5. CASE ClaimError(w)
    BY <1>k, <2>0, <2>5 DEF ClaimError, Goto
  <2>6. CASE HandlerOk(w)
    <3>1. Finished(Key(msg[w]))'
      BY <2>6 DEF HandlerOk, Goto, Finished
    <3> QED
      BY <1>k, <2>0, <2>6, <3>1 DEF HandlerOk, Goto
  <2>7. CASE HandlerTransient(w)
    <3>1. CASE IsFinalAttempt(attempt[w])
      BY <2>7, <2>g, <3>1 DEF HandlerTransient
    <3>2. CASE ~IsFinalAttempt(attempt[w])
      BY <1>k, <2>7, <3>2 DEF HandlerTransient, Goto
    <3> QED
      BY <3>1, <3>2
  <2>8. CASE HandlerPermanent(w)
    BY <2>8, <2>g DEF HandlerPermanent
  <2>9. CASE DeadLettered(w)
    <3>1. Finished(Key(msg[w]))'
      BY <2>9 DEF DeadLettered, Goto, Finished
    <3> QED
      BY <1>k, <2>0, <2>9, <3>1 DEF DeadLettered, Goto
  <2>10. CASE DlqError(w)
    BY <1>k, <2>10 DEF DlqError, Goto
  <2>11. CASE MarkDone(w)
    BY <1>k, <2>0, <2>11 DEF MarkDone, Goto
  <2>12. CASE Release(w)
    BY <1>k, <2>0, <2>12 DEF Release, Goto
  <2>13. CASE Acknowledge(w)
    BY <1>k, <2>0, <2>13 DEF Acknowledge, Finish, Settle
  <2>14. CASE Nak(w)
    BY <1>k, <2>0, <2>14 DEF Nak, Finish, Requeue
  <2> QED
    BY <1>2, <2>1, <2>2, <2>3, <2>4, <2>5, <2>6, <2>7, <2>8, <2>9, <2>10, <2>11, <2>12,
       <2>13, <2>14
    DEF Step
<1>3. ASSUME NEW w \in Workers, Abort(w) PROVE FinishedBehind'
  BY <1>3, <1>k DEF Abort, Finish
<1>4. ASSUME NEW m \in Slots, Timeout(m) \/ Drop(m) PROVE FinishedBehind'
  BY <1>4, <1>k DEF Timeout, Drop, AckTimerExpires, DropExhausted
<1>5. ASSUME NEW k \in Keys, Expire(k) PROVE FinishedBehind'
  BY <1>5, <1>k DEF Expire
<1>6. ASSUME NEW d \in Durables, RecreateConsumer(d) PROVE FinishedBehind'
  BY <1>6, <1>k DEF RecreateConsumer, Recreate
<1>7. CASE UNCHANGED vars
  BY <1>7, <1>k DEF vars
<1> QED
  BY <1>1, <1>2, <1>3, <1>4, <1>5, <1>6, <1>7 DEF Next, Server

\* No two durables use the same key: there is one durable on the bus, or publishers
\* send no header.
KeysAreLocal == \A m, n \in Slots : Key(m) = Key(n) => Durable(m) = Durable(n)

\* Under every fault, each durable handles or gives up by itself what it settles, as
\* long as no two durables share a key: that the key does not name the durable is the
\* only thing that lets a second subscription of a bus skip messages.
THEOREM DurablesHandle == ASSUME KeysAreLocal PROVE Spec => []EveryDurableHandles
<1>1. Init => FinishedBehind
  BY DEF Init, ConsumerInit, FinishedBehind, PastOutcome
<1>2. TypeOK /\ FinishedBehind => EveryDurableHandles
  BY KeysAreLocal DEF TypeOK, FinishedBehind, EveryDurableHandles, Finished, KeysAreLocal
<1> QED
  BY <1>1, <1>2, TypeCorrect, NextFinishedBehind, PTL DEF Spec
=============================================================================
