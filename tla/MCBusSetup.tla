----------------------------- MODULE MCBusSetup -----------------------------
(* A small instance of BusSetup for TLC. *)
EXTENDS BusSetup

CONSTANTS p1, p2, hour, week

MCStreams == {<<"E">>, <<"E", "A">>}
MCDurables == {<<"B">>, <<"A", "B">>}

Process(stream, durable, dlq) ==
    [subscription |-> <<stream, durable>>, max_deliver |-> 3, bus |-> stream,
     dlq |-> dlq, complete |-> TRUE, max_age |-> hour, logger |-> FALSE]

Pair(first, second) == [p \in Processes |-> IF p = p1 THEN first ELSE second]

MCDeployments == {
    \* Replicas of one subscription, with an advisory logger.
    Pair([Process(<<"E">>, <<"B">>, "bus") EXCEPT !.logger = TRUE],
         Process(<<"E">>, <<"B">>, "subscribe")),
    \* A bus with a stream of its own subscribes to the stream of the other one.
    Pair(Process(<<"E">>, <<"B">>, "subscribe"),
         [Process(<<"E">>, <<"A", "B">>, "bus") EXCEPT !.bus = <<"E", "A">>]),
    \* Two durables whose DLQ streams have one name.
    Pair(Process(<<"E">>, <<"A", "B">>, "bus"), Process(<<"E", "A">>, <<"B">>, "subscribe")),
    \* A new release changes the limit of its durable, or the age of its bucket.
    Pair(Process(<<"E">>, <<"B">>, "none"),
         [Process(<<"E">>, <<"B">>, "bus") EXCEPT !.max_deliver = 5]),
    Pair(Process(<<"E">>, <<"B">>, "subscribe"),
         [Process(<<"E">>, <<"B">>, "none") EXCEPT !.max_age = week]),
    \* A builder without a store.
    Pair(Process(<<"E">>, <<"B">>, "none"),
         [Process(<<"E">>, <<"A", "B">>, "subscribe") EXCEPT !.complete = FALSE])}
=============================================================================
