-------------------------------- MODULE Inbox --------------------------------
(***************************************************************************)
(* The two implementations of IdempotencyStore: Redis                      *)
(* (bus-nats/src/inbox/redis.rs) and a NATS key-value bucket               *)
(* (bus-nats/src/inbox/nats_kv.rs).                                        *)
(*                                                                         *)
(* A call is a request that the server executes at some later moment.  Its *)
(* caller waits for the answer, which may be lost, and may stop waiting    *)
(* while the request is still under way: such a request is stale, and the  *)
(* server may execute it at any time.                                      *)
(*                                                                         *)
(* Callers call as process_message does: mark_done or release only after   *)
(* Claimed.  The TTL of the entries is left out (see Subscriber).          *)
(***************************************************************************)
EXTENDS Naturals, FiniteSets

CONSTANTS
    Callers,    \* worker tasks
    Ids,        \* message ids
    Backend,    \* "redis" or "kv"
    Releases,   \* whether handlers fail, so that claims are released
    Timeouts    \* whether calls time out, lose their answer, or callers die

ASSUME BackendAssumption == Backend \in {"redis", "kv"}

VARIABLES
    store,      \* what the server holds for each key
    pc,         \* the call each caller waits for
    key,        \* the key it works on
    stale       \* requests nobody waits for: [op, key]

vars == <<store, pc, key, stale>>

\* In a bucket, release leaves a purge marker: an entry that reads as none and
\* on which create succeeds.
Entries == {"none", "pending", "done", "purged"}
Absent == {"none", "purged"}

\* "claim" is the script of Redis or the create of the bucket, "get" the read
\* of the bucket after a create that failed.
Ops == {"claim", "get", "mark_done", "release"}

Requests == [op : Ops, key : Ids]

TypeOK ==
    /\ store \in [Ids -> Entries]
    /\ pc \in [Callers -> {"idle", "owner"} \union Ops]
    /\ key \in [Callers -> Ids]
    /\ stale \subseteq Requests

Init ==
    /\ store = [k \in Ids |-> "none"]
    /\ pc = [c \in Callers |-> "idle"]
    /\ key \in [Callers -> Ids]
    /\ stale = {}

Goto(c, label) == pc' = [pc EXCEPT ![c] = label] /\ UNCHANGED key

-----------------------------------------------------------------------------
(* Effects on the server *)

Released == IF Backend = "redis" THEN "none" ELSE "purged"

\* Mutant: a claim that sets the key without looking at it.
AfterBlindClaim(op, value) ==
    CASE op = "claim" -> "pending"
      [] op = "get" -> value
      [] op = "mark_done" -> "done"
      [] op = "release" -> Released

\* The value of an entry after a request was executed.  The claim inserts only
\* where there is nothing; SET, put, DEL and purge do not look.
After(op, value) ==
    CASE op = "claim" -> IF value \in Absent THEN "pending" ELSE value
      [] op = "get" -> value
      [] op = "mark_done" -> "done"
      [] op = "release" -> Released

Execute(op, k) == store' = [store EXCEPT ![k] = After(op, @)]

-----------------------------------------------------------------------------
(* Calls *)

TryClaim(c, k) ==
    /\ pc[c] = "idle"
    /\ pc' = [pc EXCEPT ![c] = "claim"]
    /\ key' = [key EXCEPT ![c] = k]
    /\ UNCHANGED <<store, stale>>

\* The owner's handler returned.
EndClaim(c) ==
    /\ pc[c] = "owner"
    /\ \/ Goto(c, "mark_done")
       \/ Releases /\ Goto(c, "release")
    /\ UNCHANGED <<store, stale>>

\* Mutant: a caller proceeds on AlreadyPending as if the claim were its own.
AfterClaimTakesOver(value) ==
    IF value # "done" THEN "owner"
    ELSE IF Backend = "redis" THEN "idle" ELSE "get"

\* What the caller does with the answer.  The script tells Redis' callers all;
\* the bucket only says that create failed.
AfterClaim(value) ==
    IF value \in Absent THEN "owner"
    ELSE IF Backend = "redis" THEN "idle" ELSE "get"

\* Mutant: a pending entry found after the conflict is taken for one's own.
AfterGetTakesOver(value) == IF value = "done" THEN "idle" ELSE "owner"

\* get found an entry: AlreadyDone or AlreadyPending.  It found none: Claimed.
AfterGet(value) == IF value \in Absent THEN "owner" ELSE "idle"

Answer(op, value) ==
    CASE op = "claim" -> AfterClaim(value)
      [] op = "get" -> AfterGet(value)
      [] OTHER -> "idle"

Answered(c) ==
    /\ pc[c] \in Ops
    /\ Execute(pc[c], key[c])
    /\ Goto(c, Answer(pc[c], store[key[c]]))
    /\ UNCHANGED stale

\* Mutant: the subscriber fails open, a claim that failed counts as made.
AfterErrorOpen(op) == IF op = "claim" THEN "owner" ELSE "idle"

\* Mutant: an error leaves the caller in a call that nobody answers.
AfterErrorHangs(op) == IF op = "claim" THEN "hanging" ELSE "idle"

\* What the caller does with an Err.  In the bucket, any error of create is
\* taken for a conflict.
AfterError(op) == IF op = "claim" /\ Backend = "kv" THEN "get" ELSE "idle"

\* The call fails before its request is sent, after it was executed, or while it
\* is under way.
Failed(c) ==
    /\ Timeouts
    /\ pc[c] \in Ops
    /\ Goto(c, AfterError(pc[c]))
    /\ \/ UNCHANGED <<store, stale>>
       \/ Execute(pc[c], key[c]) /\ UNCHANGED stale
       \/ stale' = stale \union {[op |-> pc[c], key |-> key[c]]} /\ UNCHANGED store

\* The server executes a request nobody waits for any more.
Late(r) ==
    /\ r \in stale
    /\ stale' = stale \ {r}
    /\ Execute(r.op, r.key)
    /\ UNCHANGED <<pc, key>>

\* The task is aborted; what it waited for may still be executed.
Die(c) ==
    /\ Timeouts
    /\ pc[c] # "idle"
    /\ Goto(c, "idle")
    /\ stale' = IF pc[c] \in Ops
                THEN stale \union {[op |-> pc[c], key |-> key[c]]}
                ELSE stale
    /\ UNCHANGED store

Next ==
    \/ \E c \in Callers :
          \/ \E k \in Ids : TryClaim(c, k)
          \/ EndClaim(c)
          \/ Answered(c)
          \/ Failed(c)
          \/ Die(c)
    \/ \E r \in stale : Late(r)

Spec == Init /\ [][Next]_vars

\* The create conflicted, and the get that asks with what finds nothing: the entry
\* was released in between, or the create had failed for another reason.  The caller
\* is told Claimed, and nothing was written.
ClaimedWithoutEntry ==
    \E c \in Callers :
        pc[c] = "get" /\ store[key[c]] \in Absent /\ pc'[c] = "owner"

\* The behaviours in which that answer is never given: of everything that the two
\* stores do, it is the one step that the contract does not allow.
GapFreeNext == Next /\ ~ClaimedWithoutEntry

GapFreeSpec == Init /\ [][GapFreeNext]_vars

-----------------------------------------------------------------------------
(* What the trait promises *)

\* A caller owns a claim from the answer Claimed until the call that ends it is
\* executed or fails.
OwnsClaim(c, k) == pc[c] \in {"owner", "mark_done", "release"} /\ key[c] = k

\* Two callers are never told Claimed for one key unless the first one's claim
\* ended in between: concurrent redeliveries cannot run a handler twice.
OneOwner ==
    \A b, c \in Callers, k \in Ids : OwnsClaim(b, k) /\ OwnsClaim(c, k) => b = c

\* A message marked done can be claimed by nobody again, whatever requests are
\* still under way.
DoneIsFinal ==
    [][\A k \in Ids : store[k] = "done" => store'[k] = "done"]_vars

Entry == [k \in Ids |-> IF store[k] \in Absent THEN "absent" ELSE store[k]]
Owners == {x \in Callers \X Ids : OwnsClaim(x[1], x[2])}

Contract == INSTANCE IdempotencyStore WITH entry <- Entry, owners <- Owners

\* The calls of an implementation, cut into requests and answers, amount to the
\* atomic calls of the contract.
ImplementsContract == Contract!Spec
=============================================================================
