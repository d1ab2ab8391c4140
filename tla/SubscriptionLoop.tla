--------------------------- MODULE SubscriptionLoop ---------------------------
(***************************************************************************)
(* The task that `subscribe` spawns (bus-nats/src/subscriber.rs) and its   *)
(* handle: pulling, permits, worker tasks in a JoinSet, reconnection with  *)
(* backoff, drain, drop.                                                   *)
(*                                                                         *)
(* What a worker does with its message is module Subscriber; here it only  *)
(* runs and ends.  Aborting a task takes effect later, at its next await.  *)
(***************************************************************************)
EXTENDS Naturals, FiniteSets

CONSTANTS
    Messages,       \* messages that match the filter
    NoMessage,
    Concurrency,    \* SubscribeOptions::concurrency
    Prefetch,       \* messages the client buffers ahead
    MaxFailures     \* bound on failures of the connection, for model checking

ASSUME ConcurrencyAssumption == Concurrency \in Nat
ASSUME PrefetchAssumption == Prefetch \in Nat \ {0}
ASSUME NoMessageAssumption == NoMessage \notin Messages
ASSUME MaxFailuresAssumption == MaxFailures \in Nat

VARIABLES
    loop,       \* the await the loop is at
    waiting,    \* messages the server will deliver, again or for the first time
    buffer,     \* delivered to the client's stream, not yet taken by the loop
    hand,       \* taken by the loop, waiting for a permit
    running,    \* worker tasks, by their message
    exited,     \* worker tasks that ended and are not joined
    done,       \* messages whose worker ran to its end
    permits,    \* free permits of the semaphore
    backoff,    \* reconnect_backoff, in milliseconds
    shutdown,   \* the watch channel has something new for the loop
    handle,     \* what became of the SubscriptionHandle
    abort,      \* the loop's task is to be cancelled
    failures,   \* failures so far
    lateStarts  \* history: workers spawned since drain was called

serverVars == <<waiting, buffer>>
handleVars == <<shutdown, handle, abort>>
vars == <<loop, waiting, buffer, hand, running, exited, done, permits, backoff,
          shutdown, handle, abort, failures, lateStarts>>

RECONNECT_BACKOFF_INITIAL == 200
RECONNECT_BACKOFF_MAX == 30000

Loops == {"acquire", "open", "backoff", "poll", "permit", "join", "ended", "cancelled"}
Handles == {"live", "draining", "drained", "timed_out", "detached", "dropped"}

TypeOK ==
    /\ loop \in Loops
    /\ waiting \subseteq Messages
    /\ buffer \subseteq Messages
    /\ hand \in Messages \union {NoMessage}
    /\ running \subseteq Messages
    /\ exited \subseteq Messages
    /\ done \subseteq Messages
    /\ permits \in 0 .. Concurrency
    /\ backoff \in RECONNECT_BACKOFF_INITIAL .. RECONNECT_BACKOFF_MAX
    /\ shutdown \in BOOLEAN
    /\ handle \in Handles
    /\ abort \in BOOLEAN
    /\ failures \in 0 .. MaxFailures
    /\ lateStarts \in Nat

\* The first consumer was created before the task was spawned.
Init ==
    /\ loop = "open"
    /\ waiting = Messages
    /\ buffer = {}
    /\ hand = NoMessage
    /\ running = {}
    /\ exited = {}
    /\ done = {}
    /\ permits = Concurrency
    /\ backoff = RECONNECT_BACKOFF_INITIAL
    /\ shutdown = FALSE
    /\ handle = "live"
    /\ abort = FALSE
    /\ failures = 0
    /\ lateStarts = 0

-----------------------------------------------------------------------------
(* Reconnection *)

Alive == loop \notin {"ended", "cancelled"}

\* The select of a failure: a shutdown that is already there wins over a sleep
\* that has only just begun.
Fail ==
    /\ failures < MaxFailures
    /\ failures' = failures + 1
    /\ loop' = IF shutdown THEN "join" ELSE "backoff"

Acquired ==
    /\ loop = "acquire"
    /\ loop' = "open"
    /\ UNCHANGED <<serverVars, hand, running, exited, done, permits, backoff, handleVars,
                   failures, lateStarts>>

\* Mutant: the loop gives up, as it once did.
AcquireFailsExits ==
    /\ loop = "acquire"
    /\ failures < MaxFailures
    /\ failures' = failures + 1
    /\ loop' = "ended"
    /\ UNCHANGED <<serverVars, hand, running, exited, done, permits, backoff, handleVars,
                   lateStarts>>

AcquireFails ==
    /\ loop = "acquire"
    /\ Fail
    /\ UNCHANGED <<serverVars, hand, running, exited, done, permits, backoff, handleVars,
                   lateStarts>>

Opened ==
    /\ loop = "open"
    /\ loop' = "poll"
    /\ backoff' = RECONNECT_BACKOFF_INITIAL
    /\ UNCHANGED <<serverVars, hand, running, exited, done, permits, handleVars, failures,
                   lateStarts>>

OpenFails ==
    /\ loop = "open"
    /\ Fail
    /\ UNCHANGED <<serverVars, hand, running, exited, done, permits, backoff, handleVars,
                   lateStarts>>

\* Mutant: the next sleep is not bounded.
DoubledForEver(b) == b * 2

Doubled(b) == IF b * 2 < RECONNECT_BACKOFF_MAX THEN b * 2 ELSE RECONNECT_BACKOFF_MAX

SleepEnds ==
    /\ loop = "backoff"
    /\ loop' = "acquire"
    /\ backoff' = Doubled(backoff)
    /\ UNCHANGED <<serverVars, hand, running, exited, done, permits, handleVars, failures,
                   lateStarts>>

-----------------------------------------------------------------------------
(* The select of the loop, in the order in which it is biased.  What the     *)
(* client has buffered is dropped with the message stream: the server         *)
(* delivers it again.                                                          *)

DropStream ==
    /\ waiting' = waiting \union buffer
    /\ buffer' = {}

\* Mutant: only the sleeps look at the channel.
SeeShutdownAsleep ==
    /\ loop = "backoff"
    /\ shutdown
    /\ loop' = "join"
    /\ DropStream
    /\ UNCHANGED <<hand, running, exited, done, permits, backoff, handleVars, failures,
                   lateStarts>>

SeeShutdown ==
    /\ loop \in {"poll", "backoff"}
    /\ shutdown
    /\ loop' = "join"
    /\ DropStream
    /\ UNCHANGED <<hand, running, exited, done, permits, backoff, handleVars, failures,
                   lateStarts>>

\* Joins in the loop, and the joins after it.
Join ==
    /\ loop = "join" \/ (loop = "poll" /\ ~shutdown)
    /\ \E m \in exited : exited' = exited \ {m}
    /\ UNCHANGED <<loop, serverVars, hand, running, done, permits, backoff, handleVars, failures,
                   lateStarts>>

\* Mutant: the select is not biased.
TakeUnbiased ==
    /\ loop = "poll"
    /\ \E m \in buffer :
          /\ buffer' = buffer \ {m}
          /\ hand' = m
    /\ loop' = "permit"
    /\ UNCHANGED <<waiting, running, exited, done, permits, backoff, handleVars, failures,
                   lateStarts>>

Take ==
    /\ loop = "poll"
    /\ ~shutdown
    /\ exited = {}
    /\ \E m \in buffer :
          /\ buffer' = buffer \ {m}
          /\ hand' = m
    /\ loop' = "permit"
    /\ UNCHANGED <<waiting, running, exited, done, permits, backoff, handleVars, failures,
                   lateStarts>>

StreamEnds ==
    /\ loop = "poll"
    /\ ~shutdown
    /\ exited = {}
    /\ Fail
    /\ DropStream
    /\ UNCHANGED <<hand, running, exited, done, permits, backoff, handleVars, lateStarts>>

\* Mutant: the permit is dropped when the task is spawned.
SpawnWithoutPermit ==
    /\ loop = "permit"
    /\ permits > 0
    /\ running' = running \union {hand}
    /\ hand' = NoMessage
    /\ loop' = "poll"
    /\ lateStarts' = IF handle = "live" THEN lateStarts ELSE lateStarts + 1
    /\ UNCHANGED <<serverVars, exited, done, permits, backoff, handleVars, failures>>

\* acquire_owned does not look at the watch channel.
Spawn ==
    /\ loop = "permit"
    /\ permits > 0
    /\ permits' = permits - 1
    /\ running' = running \union {hand}
    /\ hand' = NoMessage
    /\ loop' = "poll"
    /\ lateStarts' = IF handle = "live" THEN lateStarts ELSE lateStarts + 1
    /\ UNCHANGED <<serverVars, exited, done, backoff, handleVars, failures>>

\* Mutant: the loop returns without its last joins.
EndUnjoined ==
    /\ loop = "join"
    /\ loop' = "ended"
    /\ UNCHANGED <<serverVars, hand, running, exited, done, permits, backoff, handleVars,
                   failures, lateStarts>>

End ==
    /\ loop = "join"
    /\ running = {}
    /\ exited = {}
    /\ loop' = "ended"
    /\ UNCHANGED <<serverVars, hand, running, exited, done, permits, backoff, handleVars,
                   failures, lateStarts>>

\* The cancelled task drops the stream, the message in hand and its JoinSet.
Cancelled ==
    /\ abort
    /\ Alive
    /\ loop' = "cancelled"
    /\ waiting' = waiting \union buffer \union ({hand} \ {NoMessage})
    /\ buffer' = {}
    /\ hand' = NoMessage
    /\ exited' = {}
    /\ UNCHANGED <<running, done, permits, backoff, handleVars, failures, lateStarts>>

-----------------------------------------------------------------------------
(* Workers and the server *)

WorkerEnds(m) ==
    /\ m \in running
    /\ running' = running \ {m}
    /\ exited' = IF loop = "cancelled" THEN exited ELSE exited \union {m}
    /\ done' = done \union {m}
    /\ permits' = permits + 1
    /\ UNCHANGED <<loop, serverVars, hand, backoff, handleVars, failures, lateStarts>>

\* The JoinSet was dropped: its tasks are aborted one by one.
WorkerAborted(m) ==
    /\ loop = "cancelled"
    /\ m \in running
    /\ running' = running \ {m}
    /\ waiting' = waiting \union {m}
    /\ permits' = permits + 1
    /\ UNCHANGED <<loop, buffer, hand, exited, done, backoff, handleVars, failures, lateStarts>>

Deliver(m) ==
    /\ loop \in {"poll", "permit"}
    /\ m \in waiting
    /\ Cardinality(buffer) < Prefetch
    /\ waiting' = waiting \ {m}
    /\ buffer' = buffer \union {m}
    /\ UNCHANGED <<loop, hand, running, exited, done, permits, backoff, handleVars, failures,
                   lateStarts>>

-----------------------------------------------------------------------------
(* The handle *)

DrainCalled ==
    /\ handle = "live"
    /\ handle' = "draining"
    /\ shutdown' = TRUE
    /\ UNCHANGED <<loop, serverVars, hand, running, exited, done, permits, backoff, abort, failures,
                   lateStarts>>

DrainReturns ==
    /\ handle = "draining"
    /\ loop = "ended"
    /\ handle' = "drained"
    /\ UNCHANGED <<loop, serverVars, hand, running, exited, done, permits, backoff, shutdown, abort,
                   failures, lateStarts>>

\* Mutant: the task is detached instead of aborted.
DrainTimesOutDetaching ==
    /\ handle = "draining"
    /\ Alive
    /\ handle' = "timed_out"
    /\ UNCHANGED <<loop, serverVars, hand, running, exited, done, permits, backoff, shutdown, abort,
                   failures, lateStarts>>

DrainTimesOut ==
    /\ handle = "draining"
    /\ Alive
    /\ handle' = "timed_out"
    /\ abort' = TRUE
    /\ UNCHANGED <<loop, serverVars, hand, running, exited, done, permits, backoff, shutdown,
                   failures, lateStarts>>

\* The future of drain is dropped: it owns the JoinHandle by then, nothing is
\* aborted and the loop goes on to its end.
DrainCancelled ==
    /\ handle = "draining"
    /\ handle' = "detached"
    /\ UNCHANGED <<loop, serverVars, hand, running, exited, done, permits, backoff, shutdown, abort,
                   failures, lateStarts>>

\* The sender goes with the handle: the closed channel wakes the loop too.
Dropped ==
    /\ handle = "live"
    /\ handle' = "dropped"
    /\ abort' = TRUE
    /\ shutdown' = TRUE
    /\ UNCHANGED <<loop, serverVars, hand, running, exited, done, permits, backoff, failures,
                   lateStarts>>

-----------------------------------------------------------------------------
Loop ==
    \/ Acquired \/ AcquireFails \/ Opened \/ OpenFails \/ SleepEnds
    \/ SeeShutdown \/ Join \/ Take \/ StreamEnds \/ Spawn \/ End

Handle == DrainCalled \/ DrainReturns \/ DrainTimesOut \/ DrainCancelled \/ Dropped

Next ==
    \/ Loop
    \/ Cancelled
    \/ \E m \in Messages : WorkerEnds(m) \/ WorkerAborted(m) \/ Deliver(m)
    \/ Handle

Spec == Init /\ [][Next]_vars

\* The runtime polls the loop and cancels what was aborted, the server delivers.
\* Nothing obliges a handler to return, a user to drain, a timeout to fire or a
\* connection to fail.
Fairness ==
    /\ WF_vars(Loop)
    /\ WF_vars(Cancelled)
    /\ WF_vars(DrainReturns)
    /\ \A m \in Messages : WF_vars(WorkerAborted(m)) /\ WF_vars(Deliver(m))

FairSpec == Spec /\ Fairness

HandlersReturn == \A m \in Messages : WF_vars(WorkerEnds(m))

-----------------------------------------------------------------------------
(* What the loop promises *)

\* No more handlers run at once than there are permits, whatever ends, panics or
\* is aborted: a permit lives as long as the worker that has it.
PermitsAreBalanced == permits + Cardinality(running) = Concurrency

\* When drain returns true no handler of the subscription is running.
DrainedIsQuiet == handle = "drained" => running = {} /\ hand = NoMessage

\* After drain was called at most one more handler starts: the one whose message
\* was waiting for a permit.
AtMostOneLateStart == lateStarts <= 1

\* If handlers return, a drain ends and leaves the subscription at rest for good,
\* whether the loop is polling, reconnecting or waiting for a permit; also a drain
\* that timed out, and one whose caller dropped its future, which aborts nothing.
DrainEnds ==
    HandlersReturn =>
        (handle = "draining" ~> [](handle # "draining" /\ ~Alive /\ running = {}))

\* After a timeout or a drop no handler of the subscription goes on, even one that
\* would never return: the abort reaches it through the JoinSet.
AbortReachesWorkers ==
    handle \in {"timed_out", "dropped"} ~> [](running = {} /\ loop \in {"ended", "cancelled"})

\* If handlers return, every message gets its worker while the handle lives, across
\* reconnections and with fewer permits than messages.
EverythingHandled == HandlersReturn => <>(done = Messages \/ handle # "live")

-----------------------------------------------------------------------------
(* What makes these inductive; checked with TLC and used in the proofs. *)

\* A message is in one place only.
Apart ==
    /\ waiting \intersect buffer = {}
    /\ running \intersect (waiting \union buffer) = {}
    /\ hand \notin waiting \union buffer \union running

\* The loop holds a message exactly while it waits for a permit.
HandMeansPermit == hand # NoMessage <=> loop = "permit"

\* The channel has something new once the handle is used, and only then.
ShutdownMeansUsed == shutdown <=> handle # "live"

\* The loop ends quiet, and a drain that returned true saw it end.
EndedIsQuiet ==
    /\ loop = "ended" => running = {}
    /\ handle = "drained" => loop = "ended"

\* A late start uses up the only message the loop can still have in hand.
LateStartIsLast ==
    /\ lateStarts <= 1
    /\ ~shutdown \/ loop = "permit" => lateStarts = 0

LoopInvariant ==
    /\ TypeOK
    /\ Apart
    /\ HandMeansPermit
    /\ ShutdownMeansUsed
    /\ EndedIsQuiet
    /\ LateStartIsLast
    /\ IsFiniteSet(running)
    /\ PermitsAreBalanced
=============================================================================
