---------------------------- MODULE AdvisoryLogger ----------------------------
(***************************************************************************)
(* The advisory logger (bus-nats/src/advisory.rs): a task that logs what   *)
(* its subscription delivers and subscribes again, with backoff, when the  *)
(* subscription ends.  Dropping its handle aborts it.                       *)
(***************************************************************************)
EXTENDS Naturals

CONSTANT MaxLoggerFailures  \* bound on failures in a row, for model checking

ASSUME MaxLoggerFailuresAssumption == MaxLoggerFailures \in Nat

VARIABLES
    task,               \* the await the task is at
    unread,             \* the subscription has an advisory that is not logged
    loggerBackoff,      \* backoff_duration, in milliseconds
    loggerHandle,       \* what became of the AdvisoryLoggerHandle
    loggerFailures      \* failures in a row

loggerVars == <<task, unread, loggerBackoff, loggerHandle, loggerFailures>>

BACKOFF_INITIAL == 200
BACKOFF_MAX == 30000

Tasks == {"none", "listen", "sleep", "subscribe", "ended"}
LoggerHandles == {"none", "held", "dropped"}

LoggerTypeOK ==
    /\ task \in Tasks
    /\ unread \in BOOLEAN
    /\ loggerBackoff \in BACKOFF_INITIAL .. BACKOFF_MAX
    /\ loggerHandle \in LoggerHandles
    /\ loggerFailures \in 0 .. MaxLoggerFailures

NoLogger ==
    /\ task' = "none"
    /\ unread' = FALSE
    /\ loggerBackoff' = BACKOFF_INITIAL
    /\ loggerHandle' = "none"
    /\ loggerFailures' = 0

LoggerInit ==
    /\ task = "none"
    /\ unread = FALSE
    /\ loggerBackoff = BACKOFF_INITIAL
    /\ loggerHandle = "none"
    /\ loggerFailures = 0

-----------------------------------------------------------------------------
\* The first subscription was made before the task was spawned.
Spawn ==
    /\ task = "none"
    /\ task' = "listen"
    /\ loggerHandle' = "held"
    /\ UNCHANGED <<unread, loggerBackoff, loggerFailures>>

AdvisoryArrives ==
    /\ task = "listen"
    /\ unread' = TRUE
    /\ UNCHANGED <<task, loggerBackoff, loggerHandle, loggerFailures>>

LogAdvisory ==
    /\ task = "listen"
    /\ unread
    /\ unread' = FALSE
    /\ UNCHANGED <<task, loggerBackoff, loggerHandle, loggerFailures>>

LoggerFails ==
    /\ loggerFailures < MaxLoggerFailures
    /\ loggerFailures' = loggerFailures + 1
    /\ task' = "sleep"

SubscriptionEnds ==
    /\ task = "listen"
    /\ ~unread
    /\ LoggerFails
    /\ UNCHANGED <<unread, loggerBackoff, loggerHandle>>

\* Mutant: the next sleep is not bounded.
DoubledUnbounded(b) == b * 2

DoubledBackoff(b) == IF b * 2 < BACKOFF_MAX THEN b * 2 ELSE BACKOFF_MAX

Wakes ==
    /\ task = "sleep"
    /\ task' = "subscribe"
    /\ loggerBackoff' = DoubledBackoff(loggerBackoff)
    /\ UNCHANGED <<unread, loggerHandle, loggerFailures>>

Resubscribed ==
    /\ task = "subscribe"
    /\ task' = "listen"
    /\ loggerBackoff' = BACKOFF_INITIAL
    /\ loggerFailures' = 0
    /\ UNCHANGED <<unread, loggerHandle>>

\* Mutant: the task returns.
ResubscribeFailsEnds ==
    /\ task = "subscribe"
    /\ loggerFailures < MaxLoggerFailures
    /\ task' = "ended"
    /\ UNCHANGED <<unread, loggerBackoff, loggerHandle, loggerFailures>>

ResubscribeFails ==
    /\ task = "subscribe"
    /\ LoggerFails
    /\ UNCHANGED <<unread, loggerBackoff, loggerHandle>>

DropHandle ==
    /\ loggerHandle = "held"
    /\ loggerHandle' = "dropped"
    /\ UNCHANGED <<task, unread, loggerBackoff, loggerFailures>>

\* Mutant: a task is only aborted where it listens.
AbortedListening ==
    /\ loggerHandle = "dropped"
    /\ task = "listen"
    /\ task' = "ended"
    /\ unread' = FALSE
    /\ UNCHANGED <<loggerBackoff, loggerHandle, loggerFailures>>

\* The abort takes effect at the await the task is at.
Aborted ==
    /\ loggerHandle = "dropped"
    /\ task \in {"listen", "sleep", "subscribe"}
    /\ task' = "ended"
    /\ unread' = FALSE
    /\ UNCHANGED <<loggerBackoff, loggerHandle, loggerFailures>>

Task == LogAdvisory \/ SubscriptionEnds \/ Wakes \/ Resubscribed \/ ResubscribeFails

Logger == Task \/ AdvisoryArrives \/ DropHandle \/ Aborted
=============================================================================
