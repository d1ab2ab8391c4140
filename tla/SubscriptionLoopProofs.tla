------------------------ MODULE SubscriptionLoopProofs ------------------------
(***************************************************************************)
(* Safety of SubscriptionLoop for every set of messages, every number of   *)
(* permits, every prefetch and any number of connection failures.          *)
(***************************************************************************)
EXTENDS SubscriptionLoop, FiniteSetTheorems, TLAPS

-----------------------------------------------------------------------------
(* A permit for every worker *)

\* A worker task has a permit of its own, so none is returned twice.
LEMMA PermitsPreserved ==
    ASSUME TypeOK, Apart, HandMeansPermit, IsFiniteSet(running), PermitsAreBalanced, [Next]_vars
    PROVE  IsFiniteSet(running)' /\ PermitsAreBalanced'
<1> DEFINE Balanced == IsFiniteSet(running)' /\ PermitsAreBalanced'
<1>0. permits \in Nat /\ Cardinality(running) \in Nat
  BY FS_CardinalityType, ConcurrencyAssumption DEF TypeOK
<1>1. CASE Spawn
  <2>1. hand \notin running /\ permits' = permits - 1 /\ running' = running \union {hand}
    BY <1>1 DEF Spawn, Apart
  <2>2. IsFiniteSet(running') /\ Cardinality(running') = Cardinality(running) + 1
    BY <2>1, FS_AddElement
  <2>3. QED
    BY <1>0, <2>1, <2>2, ConcurrencyAssumption DEF PermitsAreBalanced
<1>2. ASSUME NEW m \in Messages, WorkerEnds(m) \/ WorkerAborted(m) PROVE Balanced
  <2>1. m \in running /\ permits' = permits + 1 /\ running' = running \ {m}
    BY <1>2 DEF WorkerEnds, WorkerAborted
  <2>2. IsFiniteSet(running') /\ Cardinality(running') = Cardinality(running) - 1
    BY <2>1, FS_RemoveElement
  <2>3. QED
    BY <1>0, <2>1, <2>2, ConcurrencyAssumption DEF PermitsAreBalanced
<1>3. CASE UNCHANGED <<running, permits>>
  BY <1>3 DEF PermitsAreBalanced
<1>4. Loop => Spawn \/ UNCHANGED <<running, permits>>
  BY DEF Loop, Acquired, AcquireFails, Opened, OpenFails, SleepEnds, SeeShutdown, Join, Take,
         StreamEnds, End
<1>5. Cancelled \/ Handle => UNCHANGED <<running, permits>>
  BY DEF Cancelled, Handle, DrainCalled, DrainReturns, DrainTimesOut, DrainCancelled, Dropped
<1>6. \A m \in Messages : Deliver(m) => UNCHANGED <<running, permits>>
  BY DEF Deliver
<1>7. QED
  BY <1>1, <1>2, <1>3, <1>4, <1>5, <1>6 DEF Next, vars

-----------------------------------------------------------------------------
(* Types *)

\* A worker that ends gives back a permit that was taken.
LEMMA PermitOfWorker ==
    ASSUME TypeOK, IsFiniteSet(running), PermitsAreBalanced, NEW m \in running
    PROVE  permits + 1 \in 0 .. Concurrency
<1>1. Cardinality(running) \in Nat /\ Cardinality(running) # 0
  BY FS_CardinalityType, FS_EmptySet
<1>2. permits \in Nat
  BY ConcurrencyAssumption DEF TypeOK
<1>3. QED
  BY <1>1, <1>2, ConcurrencyAssumption DEF PermitsAreBalanced

\* Every step keeps the types; the backoff stays between its two constants.
LEMMA NextType ==
    ASSUME TypeOK, HandMeansPermit, IsFiniteSet(running), PermitsAreBalanced, [Next]_vars
    PROVE  TypeOK'
<1> DEFINE Backoffs == RECONNECT_BACKOFF_INITIAL .. RECONNECT_BACKOFF_MAX
<1>a. RECONNECT_BACKOFF_INITIAL \in Backoffs /\ \A b \in Backoffs : Doubled(b) \in Backoffs
  <2>1. /\ RECONNECT_BACKOFF_INITIAL \in Nat /\ RECONNECT_BACKOFF_MAX \in Nat
        /\ RECONNECT_BACKOFF_INITIAL <= RECONNECT_BACKOFF_MAX
    BY DEF RECONNECT_BACKOFF_INITIAL, RECONNECT_BACKOFF_MAX
  <2>2. ASSUME NEW b \in Backoffs PROVE Doubled(b) \in Backoffs
    BY <2>1, <2>2 DEF Doubled
  <2>3. QED
    BY <2>1, <2>2
<1>b. failures < MaxFailures => failures + 1 \in 0 .. MaxFailures
  BY MaxFailuresAssumption DEF TypeOK
<1>c. permits > 0 => permits - 1 \in 0 .. Concurrency
  BY ConcurrencyAssumption DEF TypeOK
<1> HIDE DEF Backoffs
<1> USE DEF TypeOK, Loops, Handles, serverVars, handleVars
<1>1. CASE Acquired
  BY <1>1 DEF Acquired
<1>2. CASE AcquireFails
  BY <1>b, <1>2 DEF AcquireFails, Fail
<1>3. CASE Opened
  BY <1>a, <1>3 DEF Opened, Backoffs
<1>4. CASE OpenFails
  BY <1>b, <1>4 DEF OpenFails, Fail
<1>5. CASE SleepEnds
  BY <1>a, <1>5 DEF SleepEnds, Backoffs
<1>6. CASE SeeShutdown
  BY <1>6 DEF SeeShutdown, DropStream
<1>7. CASE Join
  BY <1>7 DEF Join
<1>8. CASE Take
  BY <1>8 DEF Take
<1>9. CASE StreamEnds
  BY <1>b, <1>9 DEF StreamEnds, Fail, DropStream
<1>10. CASE Spawn
  BY <1>c, <1>10 DEF Spawn, HandMeansPermit
<1>11. CASE End
  BY <1>11 DEF End
<1>12. CASE Cancelled
  BY <1>12 DEF Cancelled, Alive
<1>13. CASE DrainCalled
  BY <1>13 DEF DrainCalled
<1>14. CASE DrainReturns
  BY <1>14 DEF DrainReturns
<1>15. CASE DrainTimesOut
  BY <1>15 DEF DrainTimesOut, Alive
<1>16. CASE DrainCancelled
  BY <1>16 DEF DrainCancelled
<1>17. CASE Dropped
  BY <1>17 DEF Dropped
<1>18. ASSUME NEW m \in Messages, WorkerEnds(m) PROVE TypeOK'
  BY <1>18, PermitOfWorker DEF WorkerEnds
<1>19. ASSUME NEW m \in Messages, WorkerAborted(m) PROVE TypeOK'
  BY <1>19, PermitOfWorker DEF WorkerAborted
<1>20. ASSUME NEW m \in Messages, Deliver(m) PROVE TypeOK'
  BY <1>20 DEF Deliver
<1>21. CASE UNCHANGED vars
  BY <1>21 DEF vars
<1> HIDE DEF TypeOK
<1>22. QED
  BY <1>1, <1>2, <1>3, <1>4, <1>5, <1>6, <1>7, <1>8, <1>9, <1>10, <1>11,
     <1>12, <1>13, <1>14, <1>15, <1>16, <1>17, <1>18, <1>19, <1>20, <1>21 DEF Next, Loop, Handle

-----------------------------------------------------------------------------
(* The shape of the states *)

\* A message is in one place, and what the loop holds it holds for a permit.
LEMMA NextShape ==
    ASSUME TypeOK, Apart, HandMeansPermit, [Next]_vars
    PROVE  Apart' /\ HandMeansPermit'
<1> USE NoMessageAssumption DEF TypeOK, Apart, HandMeansPermit, serverVars, handleVars
<1>1. CASE Acquired
  BY <1>1 DEF Acquired
<1>2. CASE AcquireFails
  BY <1>2 DEF AcquireFails, Fail
<1>3. CASE Opened
  BY <1>3 DEF Opened
<1>4. CASE OpenFails
  BY <1>4 DEF OpenFails, Fail
<1>5. CASE SleepEnds
  BY <1>5 DEF SleepEnds, Doubled
<1>6. CASE SeeShutdown
  BY <1>6 DEF SeeShutdown, DropStream
<1>7. CASE Join
  BY <1>7 DEF Join
<1>8. CASE Take
  BY <1>8 DEF Take
<1>9. CASE StreamEnds
  BY <1>9 DEF StreamEnds, Fail, DropStream
<1>10. CASE Spawn
  BY <1>10 DEF Spawn
<1>11. CASE End
  BY <1>11 DEF End
<1>12. CASE Cancelled
  BY <1>12 DEF Cancelled, Alive
<1>13. CASE DrainCalled
  BY <1>13 DEF DrainCalled
<1>14. CASE DrainReturns
  BY <1>14 DEF DrainReturns
<1>15. CASE DrainTimesOut
  BY <1>15 DEF DrainTimesOut, Alive
<1>16. CASE DrainCancelled
  BY <1>16 DEF DrainCancelled
<1>17. CASE Dropped
  BY <1>17 DEF Dropped
<1>18. ASSUME NEW m \in Messages, WorkerEnds(m) PROVE Apart' /\ HandMeansPermit'
  BY <1>18 DEF WorkerEnds
<1>19. ASSUME NEW m \in Messages, WorkerAborted(m) PROVE Apart' /\ HandMeansPermit'
  BY <1>19 DEF WorkerAborted
<1>20. ASSUME NEW m \in Messages, Deliver(m) PROVE Apart' /\ HandMeansPermit'
  BY <1>20 DEF Deliver
<1>21. CASE UNCHANGED vars
  BY <1>21 DEF vars
<1> HIDE DEF TypeOK, Apart, HandMeansPermit
<1>22. QED
  BY <1>1, <1>2, <1>3, <1>4, <1>5, <1>6, <1>7, <1>8, <1>9, <1>10, <1>11,
     <1>12, <1>13, <1>14, <1>15, <1>16, <1>17, <1>18, <1>19, <1>20, <1>21 DEF Next, Loop, Handle

\* The loop ends with no worker left and never moves again.
LEMMA NextQuiet ==
    ASSUME TypeOK, HandMeansPermit, ShutdownMeansUsed, EndedIsQuiet, [Next]_vars
    PROVE  ShutdownMeansUsed' /\ EndedIsQuiet'
<1> USE DEF TypeOK, HandMeansPermit, ShutdownMeansUsed, EndedIsQuiet, serverVars, handleVars
<1>1. CASE Acquired
  BY <1>1 DEF Acquired
<1>2. CASE AcquireFails
  BY <1>2 DEF AcquireFails, Fail
<1>3. CASE Opened
  BY <1>3 DEF Opened
<1>4. CASE OpenFails
  BY <1>4 DEF OpenFails, Fail
<1>5. CASE SleepEnds
  BY <1>5 DEF SleepEnds, Doubled
<1>6. CASE SeeShutdown
  BY <1>6 DEF SeeShutdown, DropStream
<1>7. CASE Join
  BY <1>7 DEF Join
<1>8. CASE Take
  BY <1>8 DEF Take
<1>9. CASE StreamEnds
  BY <1>9 DEF StreamEnds, Fail, DropStream
<1>10. CASE Spawn
  BY <1>10 DEF Spawn
<1>11. CASE End
  BY <1>11 DEF End
<1>12. CASE Cancelled
  BY <1>12 DEF Cancelled, Alive
<1>13. CASE DrainCalled
  BY <1>13 DEF DrainCalled
<1>14. CASE DrainReturns
  BY <1>14 DEF DrainReturns
<1>15. CASE DrainTimesOut
  BY <1>15 DEF DrainTimesOut, Alive
<1>16. CASE DrainCancelled
  BY <1>16 DEF DrainCancelled
<1>17. CASE Dropped
  BY <1>17 DEF Dropped
<1>18. ASSUME NEW m \in Messages, WorkerEnds(m) PROVE ShutdownMeansUsed' /\ EndedIsQuiet'
  BY <1>18 DEF WorkerEnds
<1>19. ASSUME NEW m \in Messages, WorkerAborted(m) PROVE ShutdownMeansUsed' /\ EndedIsQuiet'
  BY <1>19 DEF WorkerAborted
<1>20. ASSUME NEW m \in Messages, Deliver(m) PROVE ShutdownMeansUsed' /\ EndedIsQuiet'
  BY <1>20 DEF Deliver
<1>21. CASE UNCHANGED vars
  BY <1>21 DEF vars
<1> HIDE DEF TypeOK, HandMeansPermit, ShutdownMeansUsed, EndedIsQuiet
<1>22. QED
  BY <1>1, <1>2, <1>3, <1>4, <1>5, <1>6, <1>7, <1>8, <1>9, <1>10, <1>11,
     <1>12, <1>13, <1>14, <1>15, <1>16, <1>17, <1>18, <1>19, <1>20, <1>21 DEF Next, Loop, Handle

\* Once the channel is used, taking a message is no longer possible.
LEMMA NextLate ==
    ASSUME TypeOK, ShutdownMeansUsed, LateStartIsLast, [Next]_vars
    PROVE  LateStartIsLast'
<1> USE DEF TypeOK, ShutdownMeansUsed, LateStartIsLast, serverVars, handleVars
<1>1. CASE Acquired
  BY <1>1 DEF Acquired
<1>2. CASE AcquireFails
  BY <1>2 DEF AcquireFails, Fail
<1>3. CASE Opened
  BY <1>3 DEF Opened
<1>4. CASE OpenFails
  BY <1>4 DEF OpenFails, Fail
<1>5. CASE SleepEnds
  BY <1>5 DEF SleepEnds, Doubled
<1>6. CASE SeeShutdown
  BY <1>6 DEF SeeShutdown, DropStream
<1>7. CASE Join
  BY <1>7 DEF Join
<1>8. CASE Take
  BY <1>8 DEF Take
<1>9. CASE StreamEnds
  BY <1>9 DEF StreamEnds, Fail, DropStream
<1>10. CASE Spawn
  BY <1>10 DEF Spawn
<1>11. CASE End
  BY <1>11 DEF End
<1>12. CASE Cancelled
  BY <1>12 DEF Cancelled, Alive
<1>13. CASE DrainCalled
  BY <1>13 DEF DrainCalled
<1>14. CASE DrainReturns
  BY <1>14 DEF DrainReturns
<1>15. CASE DrainTimesOut
  BY <1>15 DEF DrainTimesOut, Alive
<1>16. CASE DrainCancelled
  BY <1>16 DEF DrainCancelled
<1>17. CASE Dropped
  BY <1>17 DEF Dropped
<1>18. ASSUME NEW m \in Messages, WorkerEnds(m) PROVE LateStartIsLast'
  BY <1>18 DEF WorkerEnds
<1>19. ASSUME NEW m \in Messages, WorkerAborted(m) PROVE LateStartIsLast'
  BY <1>19 DEF WorkerAborted
<1>20. ASSUME NEW m \in Messages, Deliver(m) PROVE LateStartIsLast'
  BY <1>20 DEF Deliver
<1>21. CASE UNCHANGED vars
  BY <1>21 DEF vars
<1> HIDE DEF TypeOK, ShutdownMeansUsed, LateStartIsLast
<1>22. QED
  BY <1>1, <1>2, <1>3, <1>4, <1>5, <1>6, <1>7, <1>8, <1>9, <1>10, <1>11,
     <1>12, <1>13, <1>14, <1>15, <1>16, <1>17, <1>18, <1>19, <1>20, <1>21 DEF Next, Loop, Handle

-----------------------------------------------------------------------------
(* The invariant and what follows from it *)

\* The strengthened invariant holds in every reachable state.
THEOREM LoopIsSafe == Spec => []LoopInvariant
<1>1. Init => LoopInvariant
  <2>1. Init => IsFiniteSet(running) /\ PermitsAreBalanced
    BY FS_EmptySet, ConcurrencyAssumption DEF Init, PermitsAreBalanced
  <2>2. Init => TypeOK
    <3>1. Concurrency \in 0 .. Concurrency /\ 0 \in 0 .. MaxFailures
      BY ConcurrencyAssumption, MaxFailuresAssumption
    <3>2. RECONNECT_BACKOFF_INITIAL \in RECONNECT_BACKOFF_INITIAL .. RECONNECT_BACKOFF_MAX
      BY DEF RECONNECT_BACKOFF_INITIAL, RECONNECT_BACKOFF_MAX
    <3>3. SUFFICES ASSUME Init PROVE TypeOK
      OBVIOUS
    <3>4. /\ loop \in Loops /\ handle \in Handles
          /\ shutdown \in BOOLEAN /\ abort \in BOOLEAN
      BY <3>3 DEF Init, Loops, Handles
    <3>5. permits \in 0 .. Concurrency /\ failures \in 0 .. MaxFailures /\ lateStarts \in Nat
      BY <3>1, <3>3 DEF Init
    <3>6. backoff \in RECONNECT_BACKOFF_INITIAL .. RECONNECT_BACKOFF_MAX
      BY <3>2, <3>3 DEF Init
    <3>7. /\ waiting \subseteq Messages /\ buffer \subseteq Messages
          /\ hand \in Messages \union {NoMessage}
          /\ running \subseteq Messages /\ exited \subseteq Messages /\ done \subseteq Messages
      BY <3>3 DEF Init
    <3>8. QED
      BY <3>4, <3>5, <3>6, <3>7 DEF TypeOK
  <2>3. QED
    BY <2>1, <2>2, NoMessageAssumption
       DEF Init, LoopInvariant, Apart, HandMeansPermit, ShutdownMeansUsed, EndedIsQuiet,
           LateStartIsLast
<1>2. LoopInvariant /\ [Next]_vars => LoopInvariant'
  BY PermitsPreserved, NextType, NextShape, NextQuiet, NextLate DEF LoopInvariant
<1>3. QED
  BY <1>1, <1>2, PTL DEF Spec

\* subscriber.rs:215-343: the loop is at one of its awaits with at most Concurrency free
\* permits, and no reconnection waits less than the initial backoff or more than the cap.
THEOREM LoopTypes == Spec => []TypeOK
BY LoopIsSafe, PTL DEF LoopInvariant

\* subscriber.rs:318-328: permits are neither lost nor made, whatever ends or is aborted.
THEOREM PermitsNeverLeak == Spec => []PermitsAreBalanced
BY LoopIsSafe, PTL DEF LoopInvariant

\* subscriber.rs:82-84 and 343: drain returns true only when nothing is running.
THEOREM DrainTrueIsQuiet == Spec => []DrainedIsQuiet
<1>1. LoopInvariant => DrainedIsQuiet
  BY DEF LoopInvariant, EndedIsQuiet, HandMeansPermit, DrainedIsQuiet
<1>2. QED
  BY <1>1, LoopIsSafe, PTL

\* subscriber.rs:284-292: after drain was called at most one more handler starts.
THEOREM OneLateStart == Spec => []AtMostOneLateStart
<1>1. LoopInvariant => AtMostOneLateStart
  BY DEF LoopInvariant, LateStartIsLast, AtMostOneLateStart
<1>2. QED
  BY <1>1, LoopIsSafe, PTL

-----------------------------------------------------------------------------
(* A semaphore without permits *)

NoWorkerEver ==
    /\ running = {}
    /\ done = {}
    /\ permits = 0

\* A loop that has a message in hand leaves this await only by being cancelled.
StuckAtPermit == loop = "permit" => loop' \in {"permit", "cancelled"}

\* subscriber.rs:325-329: nothing checks that concurrency is positive.  With 0 no handler
\* ever runs, and from its first message on the loop waits for a permit: neither the
\* watch channel nor the end of the message stream is looked at again.
THEOREM ZeroPermitsBlock ==
    ASSUME Concurrency = 0
    PROVE  Spec => []NoWorkerEver /\ [][StuckAtPermit]_vars
<1> USE DEF NoWorkerEver
<1>1. Init => NoWorkerEver
  BY DEF Init
<1>2. ASSUME NoWorkerEver, [Next]_vars
      PROVE  NoWorkerEver' /\ (StuckAtPermit \/ UNCHANGED vars)
  <2>1. CASE Loop
    BY <1>2, <2>1
       DEF Loop, Acquired, AcquireFails, Opened, OpenFails, SleepEnds, SeeShutdown, Join, Take,
           StreamEnds, Spawn, End, StuckAtPermit
  <2>2. CASE Cancelled
    BY <1>2, <2>2 DEF Cancelled, StuckAtPermit
  <2>3. ASSUME NEW m \in Messages, WorkerEnds(m) \/ WorkerAborted(m) \/ Deliver(m)
        PROVE  NoWorkerEver' /\ StuckAtPermit
    BY <1>2, <2>3 DEF WorkerEnds, WorkerAborted, Deliver, StuckAtPermit
  <2>4. CASE Handle
    BY <1>2, <2>4
       DEF Handle, DrainCalled, DrainReturns, DrainTimesOut, DrainCancelled, Dropped, StuckAtPermit
  <2>5. CASE UNCHANGED vars
    BY <1>2, <2>5 DEF vars
  <2>6. QED
    BY <1>2, <2>1, <2>2, <2>3, <2>4, <2>5 DEF Next
<1>3. NoWorkerEver /\ [Next]_vars => NoWorkerEver' /\ [StuckAtPermit]_vars
  BY <1>2
<1>4. QED
  BY <1>1, <1>3, PTL DEF Spec
=============================================================================
