------------------------ MODULE SubscriberRefinement ------------------------
(***************************************************************************)
(* The subscriber implements effectively-once delivery as long as entries  *)
(* of the idempotency store outlive the stream.                            *)
(***************************************************************************)
EXTENDS Subscriber

Running ==
    {x \in Workers \X Keys : pc[x[1]] \in {"handling", "dlq"} /\ Key(msg[x[1]]) = x[2]}

FinishedKeys == {k \in Keys : Finished(k)}

EO == INSTANCE EffectivelyOnce WITH
    Executors <- Workers, Ids <- Keys, running <- Running, finished <- FinishedKeys

\* Every behaviour of the workers, with failing store calls, lost acks,
\* redeliveries, duplicates and deaths of workers, is one of EffectivelyOnce:
\* process_message begins a message id only when no task has it and none
\* finished it.
ImplementsEffectivelyOnce == EO!Spec

-----------------------------------------------------------------------------
(* The store below: what Inbox implements is what the workers use *)

Owners == {x \in Workers \X Keys : Owns(x[1], x[2])}

Store == INSTANCE IdempotencyStore WITH
    Callers <- Workers, Ids <- Keys, owners <- Owners

\* Seen from the store, workers are callers that keep its contract: only a worker that
\* was told Claimed marks or releases the key, and an answer that is lost, or a worker
\* that dies, is one of the failures the contract allows for.
KeepsStoreContract == Store!Spec
=============================================================================
