-------------------------- MODULE IdempotencyStore --------------------------
(***************************************************************************)
(* The contract of the IdempotencyStore trait (bus-core/src/idempotency.rs)*)
(* as the subscriber relies on it: a claim inserts the key atomically, its *)
(* caller then owns the pending claim, and only the owner ends it.         *)
(*                                                                         *)
(* Calls may fail: a claim may be made for a caller that never learns of   *)
(* it, an owner may give its claim up without ending it, and the end of    *)
(* such a claim may still take place later.                                *)
(***************************************************************************)
CONSTANTS
    Callers,    \* tasks that call the store
    Ids         \* keys

VARIABLES
    entry,      \* what the store holds for each key
    owners      \* <<caller, key>>: Claimed was answered and the claim is not ended

vars == <<entry, owners>>

Init ==
    /\ entry = [k \in Ids |-> "absent"]
    /\ owners = {}

Unowned(k) == \A c \in Callers : <<c, k>> \notin owners

\* try_claim answers Claimed.
Claim(c, k) ==
    /\ entry[k] = "absent"
    /\ Unowned(k)
    /\ entry' = [entry EXCEPT ![k] = "pending"]
    /\ owners' = owners \union {<<c, k>>}

\* try_claim inserts the key, and its caller is told nothing or is gone.
ClaimUnseen(k) ==
    /\ entry[k] = "absent"
    /\ Unowned(k)
    /\ entry' = [entry EXCEPT ![k] = "pending"]
    /\ UNCHANGED owners

\* mark_done and release: the owner ends its claim.
End(c, k, state) ==
    /\ <<c, k>> \in owners
    /\ entry' = [entry EXCEPT ![k] = state]
    /\ owners' = owners \ {<<c, k>>}

\* The owner fails to end its claim, or dies.
Abandon(c, k) ==
    /\ <<c, k>> \in owners
    /\ owners' = owners \ {<<c, k>>}
    /\ UNCHANGED entry

\* An end that its owner gave up waiting for takes place after all.
EndLate(k, state) ==
    /\ entry[k] = "pending"
    /\ Unowned(k)
    /\ entry' = [entry EXCEPT ![k] = state]
    /\ UNCHANGED owners

Next ==
    \/ \E c \in Callers, k \in Ids :
          \/ Claim(c, k)
          \/ Abandon(c, k)
          \/ \E state \in {"done", "absent"} : End(c, k, state)
    \/ \E k \in Ids :
          \/ ClaimUnseen(k)
          \/ \E state \in {"done", "absent"} : EndLate(k, state)

Spec == Init /\ [][Next]_vars
=============================================================================
