------------------------------ MODULE EventLog ------------------------------
(***************************************************************************)
(* What a publisher of the bus is promised, without requests, answers and  *)
(* a deduplication window: a log of event ids that only grows, and a set   *)
(* of ids that are confirmed.                                              *)
(***************************************************************************)
EXTENDS Naturals, Sequences

CONSTANTS
    Ids,
    Once,          \* ids of which the log holds one copy
    Precedes(_, _) \* the first is stored before any copy of the second

VARIABLES log, confirmed

vars == <<log, confirmed>>

Stored(id) == \E i \in DOMAIN log : log[i] = id

Init ==
    /\ log = <<>>
    /\ confirmed = {}

Store(id) ==
    /\ id \in Once => ~Stored(id)
    /\ \A x \in Ids : Precedes(x, id) => Stored(x)
    /\ log' = Append(log, id)
    /\ UNCHANGED confirmed

Confirm(S) ==
    /\ \A id \in S : Stored(id)
    /\ confirmed' = confirmed \union S
    /\ UNCHANGED log

Next ==
    \/ \E id \in Ids : Store(id)
    \/ \E S \in SUBSET Ids : Confirm(S)

Spec == Init /\ [][Next]_vars
=============================================================================
