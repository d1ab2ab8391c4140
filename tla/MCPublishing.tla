---------------------------- MODULE MCPublishing ----------------------------
(* A small instance of Publishing for TLC. *)
EXTENDS Publishing

CONSTANTS a, b, broken, c1, c2

\* Two tasks publish the same events (two relays of one outbox, say); the batch of
\* the second one ends with an event that does not serialize.
MCBatch == [c \in Callers |-> IF c = c1 THEN <<a, b>> ELSE <<a, b, broken>>]

\* One event has a dot in its field.
MCFieldValue ==
    [e \in Ids |-> [f \in Fields |->
        IF f = "id" THEN <<"id">> ELSE IF e = b THEN <<"eu.", "west">> ELSE <<"eu">>]]

\* Every text of up to five atoms, and some longer ones.
MCTemplates ==
    BoundedSeq({Open, Close, Blank, Self, "orders.", "region"}, 5) \union
    {<<"orders.", Open, Blank, Self, "region", Blank, Close>>,
     <<Open, Self, "region", Close, ".", Open, Self, "id", Close>>,
     <<Open, Self, "region", Close, Open, Self, "id", Close, Close, Close>>,
     <<Close, Close, Open, Self, "region", Close>>,
     <<Close, Open, Self, "region", Close, Close>>,
     <<Open, Self, "unknown", Close>>,
     <<Open, Self, Open, Self, "region", Close, Close>>}

MCStreamSubjects == {<<"orders.", "eu">>, <<"orders.", "eu.", "west">>}
MCSubjects == MCStreamSubjects \union {<<"region">>}
=============================================================================
