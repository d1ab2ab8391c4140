--------------------------- MODULE EffectivelyOnce ---------------------------
(***************************************************************************)
(* What README calls effectively-once delivery, without servers, claims or *)
(* acknowledgements: executors work on message ids.  One executor at a     *)
(* time has an id; a run either completes it, for good, or leaves it open  *)
(* for another run.                                                        *)
(***************************************************************************)
CONSTANTS
    Executors,   \* tasks that may run the handler
    Ids          \* idempotency keys

VARIABLES
    running,     \* <<executor, id>>: the handler runs, or its failure is handed over
    finished     \* ids whose handler succeeded or that were given up

vars == <<running, finished>>

Init ==
    /\ running = {}
    /\ finished = {}

Free(k) == k \notin finished /\ \A x \in Executors : <<x, k>> \notin running

Begin(x, k) ==
    /\ Free(k)
    /\ running' = running \union {<<x, k>>}
    /\ UNCHANGED finished

Complete(x, k) ==
    /\ <<x, k>> \in running
    /\ running' = running \ {<<x, k>>}
    /\ finished' = finished \union {k}

\* A failed attempt, or an executor that died.
Leave(x, k) ==
    /\ <<x, k>> \in running
    /\ running' = running \ {<<x, k>>}
    /\ UNCHANGED finished

\* Given up without a run: the payload cannot be handled.
Reject(k) ==
    /\ Free(k)
    /\ finished' = finished \union {k}
    /\ UNCHANGED running

Next ==
    \/ \E x \in Executors, k \in Ids : Begin(x, k) \/ Complete(x, k) \/ Leave(x, k)
    \/ \E k \in Ids : Reject(k)

Spec == Init /\ [][Next]_vars
=============================================================================
