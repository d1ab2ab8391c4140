---------------------------- MODULE MCSubscriber ----------------------------
(* Small instances of Subscriber for TLC. *)
EXTENDS SubscriberRefinement, TLC

CONSTANTS d1, d2, w1, w2, w3, id

\* All workers serve one durable ...
MCOneDurable == [w \in Workers |-> d1]
\* ... or w2 serves a second durable on the same bus.
MCTwoDurables == [w \in Workers |-> IF w = w2 THEN d2 ELSE d1]

\* The first two messages carry one id (published twice, outside the window in
\* which the stream deduplicates), the others none.
MCDuplicated == [s \in Seqs |-> IF s <= 2 THEN id ELSE NoHeader]

\* Workers of one durable are interchangeable; used where nothing but safety is
\* checked.
MCSymmetry == Permutations(Workers)

\* States that differ in dlqFailed alone are one: no action reads that history
\* variable.  Used where no property but its type is about it.
MCView ==
    <<status, deliveries, entry, pc, msg, attempt, deadLetters, succeeded, terminated, recreations>>

=============================================================================
