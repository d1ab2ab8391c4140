--------------------- MODULE SubscriberRefinementProofs ---------------------
(***************************************************************************)
(* Subscriber implements EffectivelyOnce, and keeps the contract of the    *)
(* store below it, for every value of the constants under which no entry   *)
(* of the idempotency store expires.                                       *)
(***************************************************************************)
EXTENDS SubscriberRefinement, SubscriberProofs

RunPCs == {"handling", "dlq"}

LEMMA RunningIs ==
    ASSUME NEW v, NEW k
    PROVE  <<v, k>> \in Running
             <=> v \in Workers /\ k \in Keys /\ pc[v] \in RunPCs /\ Key(msg[v]) = k
BY DEF Running, RunPCs

\* The two halves of the mapping change only with these variables.
LEMMA SameRunning ==
    ASSUME \A v \in Workers :
               /\ (pc[v] \in RunPCs \/ pc'[v] \in RunPCs) => msg'[v] = msg[v]
               /\ pc[v] \in RunPCs <=> pc'[v] \in RunPCs
    PROVE  Running' = Running
BY DEF Running, RunPCs

LEMMA SameFinished ==
    ASSUME UNCHANGED <<succeeded, terminated>>
    PROVE  FinishedKeys' = FinishedKeys
BY DEF FinishedKeys, Finished

\* An id is free for the abstract specification when its entry is absent.
LEMMA AbsentIsFree ==
    ASSUME SafeInv, NEW k \in Keys, entry[k] = "absent"
    PROVE  EO!Free(k)
<1>1. k \notin FinishedKeys
  BY DEF SafeInv, FinishInv, FinishedKeys, Finished
<1>2. \A v \in Workers : <<v, k>> \notin Running
  BY RunningIs DEF SafeInv, ClaimInv, OwnersHold, OwnerPCs, RunPCs
<1> QED
  BY <1>1, <1>2 DEF EO!Free

\* What the runs of worker w do when its label changes and no other's does.
LEMMA RunBegins ==
    ASSUME TypeOK, NEW w \in Workers, pc[w] \notin RunPCs, pc'[w] \in RunPCs, msg' = msg,
           Key(msg[w]) \in Keys, \A v \in Workers : v # w => pc'[v] = pc[v]
    PROVE  Running' = Running \union {<<w, Key(msg[w])>>}
BY DEF Running, RunPCs

LEMMA RunEnds ==
    ASSUME TypeOK, NEW w \in Workers, pc[w] \in RunPCs, pc'[w] \notin RunPCs,
           \A v \in Workers : v # w => pc'[v] = pc[v] /\ msg'[v] = msg[v]
    PROVE  /\ <<w, Key(msg[w])>> \in Running
           /\ Running' = Running \ {<<w, Key(msg[w])>>}
<1>1. Key(msg[w]) \in Keys
  BY BusyHasSlot DEF RunPCs
<1> QED
  BY <1>1 DEF Running, RunPCs

\* One more outcome finishes one more id.
LEMMA IdFinished ==
    ASSUME NEW m \in Slots,
           \/ succeeded' = succeeded \union {m} /\ terminated' = terminated
           \/ terminated' = terminated \union {m} /\ succeeded' = succeeded
    PROVE  FinishedKeys' = FinishedKeys \union {Key(m)}
BY SlotFacts DEF FinishedKeys, Finished

-----------------------------------------------------------------------------
LEMMA InitRefines == Init => EO!Init
BY DEF Init, EO!Init, Running, FinishedKeys, Finished

LEMMA NextRefines ==
    ASSUME SafeInv, [Next]_vars
    PROVE  [EO!Next]_(EO!vars)
<1> USE DEF RunPCs
<1>t. TypeOK
  BY DEF SafeInv
<1>0. \A w \in Workers : pc[w] # "idle" => msg[w] \in Slots /\ Key(msg[w]) \in Keys
  BY <1>t, BusyHasSlot
\* A step that starts, ends or skips no run and adds no outcome is a stutter.
<1>s. ASSUME NEW w \in Workers, pc[w] \notin RunPCs, pc'[w] \notin RunPCs,
             \A v \in Workers : v # w => pc'[v] = pc[v] /\ msg'[v] = msg[v],
             UNCHANGED <<succeeded, terminated>>
      PROVE  UNCHANGED (EO!vars)
  BY <1>s, SameRunning, SameFinished DEF EO!vars
\* A run that ends without an outcome leaves its id open.
<1>l. ASSUME NEW w \in Workers, pc[w] \in RunPCs, pc'[w] \notin RunPCs,
             \A v \in Workers : v # w => pc'[v] = pc[v] /\ msg'[v] = msg[v],
             UNCHANGED <<succeeded, terminated>>
      PROVE  EO!Next
  <2>1. EO!Leave(w, Key(msg[w]))
    BY <1>l, <1>t, RunEnds, SameFinished DEF EO!Leave
  <2> QED
    BY <2>1, <1>0, <1>l DEF EO!Next
\* A run that ends with an outcome completes its id.
<1>c. ASSUME NEW w \in Workers, pc[w] \in RunPCs, pc'[w] \notin RunPCs,
             \A v \in Workers : v # w => pc'[v] = pc[v] /\ msg'[v] = msg[v],
             \/ succeeded' = succeeded \union {msg[w]} /\ terminated' = terminated
             \/ terminated' = terminated \union {msg[w]} /\ succeeded' = succeeded
      PROVE  EO!Next
  <2>1. msg[w] \in Slots /\ Key(msg[w]) \in Keys
    BY <1>0, <1>c
  <2>2. EO!Complete(w, Key(msg[w]))
    BY <1>c, <1>t, <2>1, RunEnds, IdFinished DEF EO!Complete
  <2> QED
    BY <2>1, <2>2, <1>c DEF EO!Next
<1>1. ASSUME NEW w \in Workers, NEW m \in Slots, Receive(w, m) PROVE UNCHANGED (EO!vars)
  BY <1>1, <1>s, <1>t DEF Receive, TypeOK, historyVars
<1>2. ASSUME NEW w \in Workers, Step(w) PROVE EO!Next \/ UNCHANGED (EO!vars)
  <2> USE <1>t DEF TypeOK
  <2>1. CASE InfoError(w)
    BY <1>s, <2>1 DEF InfoError, Finish, historyVars
  <2>2. CASE Claimed(w)
    <3>1. pc[w] = "received" /\ msg' = msg /\ succeeded' = succeeded
      BY <2>2 DEF Claimed, GiveUp, Goto
    <3>2. \A v \in Workers : v # w => pc'[v] = pc[v]
      BY <2>2 DEF Claimed, GiveUp, Goto
    <3>3. msg[w] \in Slots /\ Key(msg[w]) \in Keys /\ EO!Free(Key(msg[w]))
      BY <1>0, <2>2, <3>1, AbsentIsFree DEF Claimed
    <3>4. CASE pc'[w] \in RunPCs
      <4>1. terminated' = terminated
        BY <2>2, <3>4 DEF Claimed, GiveUp, Goto
      <4>2. EO!Begin(w, Key(msg[w]))
        BY <3>1, <3>2, <3>3, <3>4, <4>1, RunBegins, SameFinished DEF EO!Begin
      <4> QED
        BY <3>3, <4>2 DEF EO!Next
    <3>5. CASE pc'[w] \notin RunPCs
      <4>1. terminated' = terminated \union {msg[w]}
        BY <2>2, <3>1, <3>5 DEF Claimed, GiveUp, Goto
      <4>2. Running' = Running
        BY <3>1, <3>2, <3>5, SameRunning
      <4>3. EO!Reject(Key(msg[w]))
        BY <3>1, <3>3, <4>1, <4>2, IdFinished DEF EO!Reject
      <4> QED
        BY <3>3, <4>3 DEF EO!Next
    <3> QED
      BY <3>4, <3>5
  <2>3. CASE AlreadyPending(w) \/ AlreadyDone(w) \/ ClaimError(w)
    BY <1>s, <2>3 DEF AlreadyPending, AlreadyDone, ClaimError, Goto, historyVars
  <2>4. CASE HandlerOk(w)
    BY <1>c, <2>4 DEF HandlerOk, Goto
  <2>g. ASSUME GiveUp(w), pc[w] = "handling", succeeded' = succeeded
        PROVE  EO!Next \/ UNCHANGED (EO!vars)
    <3>1. CASE HasDlq(msg[w])
      BY <2>g, <3>1, SameRunning, SameFinished DEF GiveUp, Goto, EO!vars
    <3>2. CASE ~HasDlq(msg[w])
      BY <1>c, <2>g, <3>2 DEF GiveUp, Goto
    <3> QED
      BY <3>1, <3>2
  <2>5. CASE HandlerTransient(w)
    <3>1. CASE IsFinalAttempt(attempt[w])
      BY <2>5, <2>g, <3>1 DEF HandlerTransient
    <3>2. CASE ~IsFinalAttempt(attempt[w])
      BY <1>l, <2>5, <3>2 DEF HandlerTransient, Goto
    <3> QED
      BY <3>1, <3>2
  <2>6. CASE HandlerPermanent(w)
    BY <2>6, <2>g DEF HandlerPermanent
  <2>7. CASE DeadLettered(w)
    BY <1>c, <2>7 DEF DeadLettered, Goto
  <2>8. CASE DlqError(w)
    BY <1>l, <2>8 DEF DlqError, Goto
  <2>9. CASE MarkDone(w) \/ Release(w)
    BY <1>s, <2>9 DEF MarkDone, Release, Goto, historyVars
  <2>10. CASE Acknowledge(w) \/ Nak(w)
    BY <1>s, <2>10 DEF Acknowledge, Nak, Finish, historyVars
  <2> QED
    BY <1>2, <2>1, <2>2, <2>3, <2>4, <2>5, <2>6, <2>7, <2>8, <2>9, <2>10 DEF Step
<1>3. ASSUME NEW w \in Workers, Abort(w) PROVE EO!Next \/ UNCHANGED (EO!vars)
  <2>1. /\ pc'[w] = "idle"
        /\ \A v \in Workers : v # w => pc'[v] = pc[v] /\ msg'[v] = msg[v]
        /\ UNCHANGED <<succeeded, terminated>>
    BY <1>3, <1>t DEF Abort, Finish, historyVars, TypeOK
  <2> QED
    BY <1>l, <1>s, <2>1
<1>4. CASE UNCHANGED <<pc, msg, succeeded, terminated>>
  BY <1>4, SameRunning, SameFinished DEF EO!vars
<1> QED
  BY <1>1, <1>2, <1>3, <1>4
  DEF Next, Server, Timeout, Drop, Expire, RecreateConsumer, workerVars, historyVars, vars

\* Every behaviour of the subscriber is one of effectively-once delivery, with
\* failing store calls, lost acks, slow handlers, recreated durables and deaths
\* of workers, as long as no entry of the store expires.
THEOREM EffectivelyOnceDelivery == ASSUME NoExpiry PROVE Spec => ImplementsEffectivelyOnce
<1>1. SafeInv /\ [Next]_vars => [EO!Next]_(EO!vars)
  BY NextRefines
<1>2. Spec => []SafeInv
  BY SafeInvariant, NoExpiry
<1> QED
  BY <1>1, <1>2, InitRefines, PTL DEF Spec, ImplementsEffectivelyOnce, EO!Spec

-----------------------------------------------------------------------------
(* What effectively-once delivery means *)

\* An id is run by one executor, and by none once it is finished.
OneRunUnfinished ==
    /\ Running \subseteq Workers \X Keys
    /\ \A v, w \in Workers, k \in Keys :
          <<v, k>> \in Running /\ <<w, k>> \in Running => v = w
    /\ \A v \in Workers, k \in FinishedKeys : <<v, k>> \notin Running

\* EffectivelyOnce says what its name promises: nothing is run twice at a time or
\* again after it was finished, and what is finished is finished for good.
THEOREM EffectivelyOnceMeans ==
    EO!Spec => []OneRunUnfinished /\ [][FinishedKeys \subseteq FinishedKeys']_(EO!vars)
<1>1. EO!Init => OneRunUnfinished
  BY DEF EO!Init, OneRunUnfinished
<1>2. ASSUME OneRunUnfinished, EO!Next
      PROVE  OneRunUnfinished' /\ FinishedKeys \subseteq FinishedKeys'
  <2> USE DEF OneRunUnfinished
  <2>1. ASSUME NEW v \in Workers, NEW k \in Keys, EO!Begin(v, k)
        PROVE  OneRunUnfinished' /\ FinishedKeys \subseteq FinishedKeys'
    BY <1>2, <2>1 DEF EO!Begin, EO!Free
  <2>2. ASSUME NEW v \in Workers, NEW k \in Keys, EO!Complete(v, k) \/ EO!Leave(v, k)
        PROVE  OneRunUnfinished' /\ FinishedKeys \subseteq FinishedKeys'
    BY <1>2, <2>2 DEF EO!Complete, EO!Leave
  <2>3. ASSUME NEW k \in Keys, EO!Reject(k)
        PROVE  OneRunUnfinished' /\ FinishedKeys \subseteq FinishedKeys'
    BY <1>2, <2>3 DEF EO!Reject, EO!Free
  <2> QED
    BY <1>2, <2>1, <2>2, <2>3 DEF EO!Next
<1>3. OneRunUnfinished /\ UNCHANGED (EO!vars) => OneRunUnfinished'
  BY DEF OneRunUnfinished, EO!vars
<1>4. OneRunUnfinished /\ [EO!Next]_(EO!vars)
        => OneRunUnfinished' /\ [FinishedKeys \subseteq FinishedKeys']_(EO!vars)
  BY <1>2, <1>3
<1> QED
  BY <1>1, <1>4, PTL DEF EO!Spec

\* So the workers neither run a handler nor hand a failure to the DLQ for an id that
\* was handled or given up, or that another worker is at.
THEOREM WorkersRunUnfinished == ASSUME NoExpiry PROVE Spec => []OneRunUnfinished
<1>1. Spec => ImplementsEffectivelyOnce
  BY EffectivelyOnceDelivery, NoExpiry
<1> QED
  BY <1>1, EffectivelyOnceMeans, PTL DEF ImplementsEffectivelyOnce

-----------------------------------------------------------------------------
(* The store below *)

LEMMA OwnersIs ==
    ASSUME NEW v, NEW k
    PROVE  <<v, k>> \in Owners
             <=> v \in Workers /\ k \in Keys /\ pc[v] \in OwnerPCs /\ Key(msg[v]) = k
BY DEF Owners, Owns

\* The owners change only where a worker starts or ends to own its key.
LEMMA StoreSameOwners ==
    ASSUME \A v \in Workers :
               /\ (pc[v] \in OwnerPCs \/ pc'[v] \in OwnerPCs) => msg'[v] = msg[v]
               /\ pc[v] \in OwnerPCs <=> pc'[v] \in OwnerPCs
    PROVE  Owners' = Owners
BY DEF Owners, Owns

LEMMA OwnerAdded ==
    ASSUME TypeOK, NEW w \in Workers, pc[w] \notin OwnerPCs, pc'[w] \in OwnerPCs, msg' = msg,
           Key(msg[w]) \in Keys, \A v \in Workers : v # w => pc'[v] = pc[v]
    PROVE  Owners' = Owners \union {<<w, Key(msg[w])>>}
BY DEF Owners, Owns

LEMMA OwnerRemoved ==
    ASSUME TypeOK, NEW w \in Workers, pc[w] \in OwnerPCs, pc'[w] \notin OwnerPCs,
           \A v \in Workers : v # w => pc'[v] = pc[v] /\ msg'[v] = msg[v]
    PROVE  /\ <<w, Key(msg[w])>> \in Owners
           /\ Owners' = Owners \ {<<w, Key(msg[w])>>}
<1>1. Key(msg[w]) \in Keys
  BY BusyHasSlot DEF OwnerPCs
<1> QED
  BY <1>1 DEF Owners, Owns

LEMMA AbsentHasNoOwner ==
    ASSUME SafeInv, NEW k \in Keys, entry[k] = "absent"
    PROVE  Store!Unowned(k)
BY OwnersIs DEF SafeInv, ClaimInv, OwnersHold, Store!Unowned

LEMMA NextKeepsContract ==
    ASSUME NoExpiry, SafeInv, [Next]_vars
    PROVE  [Store!Next]_(Store!vars)
<1> USE DEF OwnerPCs
<1>t. TypeOK
  BY DEF SafeInv
<1>0. \A w \in Workers : pc[w] # "idle" => msg[w] \in Slots /\ Key(msg[w]) \in Keys
  BY <1>t, BusyHasSlot
\* Only the key of the worker is concerned, and the others stay owners.
<1>s. ASSUME NEW w \in Workers, pc[w] \in OwnerPCs <=> pc'[w] \in OwnerPCs,
             pc[w] \in OwnerPCs => msg'[w] = msg[w],
             \A v \in Workers : v # w => pc'[v] = pc[v] /\ msg'[v] = msg[v],
             UNCHANGED entry
      PROVE  UNCHANGED (Store!vars)
  BY <1>s, StoreSameOwners DEF Store!vars
\* An owner that ends its claim, gives it up, or is gone.
<1>e. ASSUME NEW w \in Workers, pc[w] \in OwnerPCs, pc'[w] \notin OwnerPCs,
             \A v \in Workers : v # w => pc'[v] = pc[v] /\ msg'[v] = msg[v],
             \/ UNCHANGED entry
             \/ \E state \in {"done", "absent"} : entry' = [entry EXCEPT ![Key(msg[w])] = state]
      PROVE  Store!Next
  <2>1. Key(msg[w]) \in Keys
    BY <1>0, <1>e
  <2>2. CASE UNCHANGED entry
    BY <1>e, <1>t, <2>1, <2>2, OwnerRemoved DEF Store!Abandon, Store!Next
  <2>3. ASSUME NEW state \in {"done", "absent"}, entry' = [entry EXCEPT ![Key(msg[w])] = state]
        PROVE  Store!Next
    <3>1. Store!End(w, Key(msg[w]), state)
      BY <1>e, <1>t, <2>3, OwnerRemoved DEF Store!End
    <3> QED
      BY <2>1, <3>1 DEF Store!Next
  <2> QED
    BY <1>e, <2>2, <2>3
<1>1. ASSUME NEW w \in Workers, NEW m \in Slots, Receive(w, m) PROVE UNCHANGED (Store!vars)
  BY <1>1, <1>s, <1>t DEF Receive, TypeOK
<1>2. ASSUME NEW w \in Workers, Step(w) PROVE Store!Next \/ UNCHANGED (Store!vars)
  <2> USE <1>t DEF TypeOK
  <2>1. CASE InfoError(w)
    BY <1>s, <2>1 DEF InfoError, Finish
  <2>2. CASE Claimed(w)
    <3>1. /\ pc[w] = "received" /\ entry[Key(msg[w])] = "absent" /\ msg' = msg
          /\ entry' = [entry EXCEPT ![Key(msg[w])] = "pending"]
          /\ pc'[w] \in OwnerPCs
          /\ \A v \in Workers : v # w => pc'[v] = pc[v]
      BY <2>2 DEF Claimed, GiveUp, Goto
    <3>2. Key(msg[w]) \in Keys /\ Store!Unowned(Key(msg[w]))
      BY <1>0, <3>1, AbsentHasNoOwner
    <3>3. Owners' = Owners \union {<<w, Key(msg[w])>>}
      BY <3>1, <3>2, OwnerAdded
    <3>4. Store!Claim(w, Key(msg[w]))
      BY <3>1, <3>2, <3>3 DEF Store!Claim
    <3> QED
      BY <3>2, <3>4 DEF Store!Next
  <2>3. CASE AlreadyPending(w) \/ AlreadyDone(w)
    BY <1>s, <2>3 DEF AlreadyPending, AlreadyDone, Goto
  <2>4. CASE ClaimError(w)
    <3>1. pc[w] = "received" /\ msg' = msg /\ pc' = [pc EXCEPT ![w] = "nak"]
      BY <2>4 DEF ClaimError, Goto
    <3>2. CASE UNCHANGED entry
      BY <1>s, <3>1, <3>2
    <3>3. CASE /\ entry[Key(msg[w])] = "absent"
               /\ entry' = [entry EXCEPT ![Key(msg[w])] = "pending"]
      <4>1. Key(msg[w]) \in Keys /\ Store!Unowned(Key(msg[w]))
        BY <1>0, <3>1, <3>3, AbsentHasNoOwner
      <4>2. Owners' = Owners
        BY <3>1, StoreSameOwners
      <4>3. Store!ClaimUnseen(Key(msg[w]))
        BY <3>3, <4>1, <4>2 DEF Store!ClaimUnseen
      <4> QED
        BY <4>1, <4>3 DEF Store!Next
    <3> QED
      BY <2>4, <3>2, <3>3 DEF ClaimError
  <2>5. CASE HandlerOk(w)
    BY <1>s, <2>5 DEF HandlerOk, Goto
  <2>6. CASE HandlerTransient(w) \/ HandlerPermanent(w)
    <3>1. /\ pc[w] = "handling" /\ pc'[w] \in OwnerPCs /\ msg' = msg /\ entry' = entry
          /\ \A v \in Workers : v # w => pc'[v] = pc[v]
      BY <2>6 DEF HandlerTransient, HandlerPermanent, GiveUp, Goto
    <3> QED
      BY <1>s, <3>1
  <2>7. CASE DeadLettered(w)
    BY <1>s, <2>7 DEF DeadLettered, Goto
  <2>8. CASE DlqError(w)
    BY <1>s, <2>8 DEF DlqError, Goto
  <2>9. CASE MarkDone(w)
    BY <1>e, <2>9 DEF MarkDone, Goto
  <2>10. CASE Release(w)
    BY <1>e, <2>10 DEF Release, Goto
  <2>11. CASE Acknowledge(w) \/ Nak(w)
    BY <1>s, <2>11 DEF Acknowledge, Nak, Finish
  <2> QED
    BY <1>2, <2>1, <2>2, <2>3, <2>4, <2>5, <2>6, <2>7, <2>8, <2>9, <2>10, <2>11 DEF Step
<1>3. ASSUME NEW w \in Workers, Abort(w) PROVE Store!Next \/ UNCHANGED (Store!vars)
  <2>1. /\ pc[w] # "idle" /\ pc'[w] = "idle" /\ UNCHANGED entry
        /\ \A v \in Workers : v # w => pc'[v] = pc[v] /\ msg'[v] = msg[v]
    BY <1>3, <1>t DEF Abort, Finish, TypeOK
  <2> QED
    BY <1>e, <1>s, <2>1
<1>4. CASE UNCHANGED <<pc, msg, entry>>
  BY <1>4, StoreSameOwners DEF Store!vars
<1> QED
  BY <1>1, <1>2, <1>3, <1>4
  DEF NoExpiry, Next, Server, Timeout, Drop, Expire, RecreateConsumer, workerVars, vars

\* The workers of a bus, as callers of its store, keep the contract that the stores
\* implement: the layer that Inbox verifies is the one that Subscriber stands on.
THEOREM WorkersKeepContract == ASSUME NoExpiry PROVE Spec => KeepsStoreContract
<1>1. Init => Store!Init
  BY DEF Init, Store!Init, Owners, Owns, OwnerPCs
<1>2. SafeInv /\ [Next]_vars => [Store!Next]_(Store!vars)
  BY NextKeepsContract, NoExpiry
<1>3. Spec => []SafeInv
  BY SafeInvariant, NoExpiry
<1> QED
  BY <1>1, <1>2, <1>3, PTL DEF Spec, KeepsStoreContract, Store!Spec
=============================================================================
