------------------------------- MODULE BusSetup -------------------------------
(***************************************************************************)
(* How a process gets to a running subscription, as the examples do it:    *)
(* NatsClient::connect, the advisory logger if it wants one, the bucket of *)
(* the idempotency store, EventBusBuilder::build, EventBus::subscribe.     *)
(* Any error ends main; a process that ended may be started again.  A      *)
(* newer release is a process with other options.                          *)
(*                                                                         *)
(* What set-up leaves on the server outlives processes.  get_or_create     *)
(* asks for a stream or a consumer and creates it when there is none: two  *)
(* requests, between which others run.  What exists is used with the       *)
(* configuration that it has.                                              *)
(***************************************************************************)
EXTENDS AdvisoryLogger, Sequences

CONSTANTS
    Processes,
    Streams,        \* names of streams, as the parts that "_" separates
    Durables,       \* names of durables, likewise
    MaxAges,
    Deployments,    \* the options that processes may be started with
    None,
    MaxFailures     \* bound on failing requests and crashes, for model checking

Subscriptions == Streams \X Durables

\* The options of a process: SubscribeOptions::{stream, durable, dlq, max_deliver},
\* StreamConfig::name, with_dlq, whether the builder has a url and a store, and
\* NatsKvIdempotencyConfig::max_age.
Options ==
    [subscription : Subscriptions,
     max_deliver  : Nat \ {0},
     bus          : Streams,
     dlq          : {"none", "bus", "subscribe"},
     complete     : BOOLEAN,
     max_age      : MaxAges,
     logger       : BOOLEAN]

ASSUME DeploymentsAssumption ==
    /\ Deployments \subseteq [Processes -> Options]
    /\ \A d \in Deployments : \A p, q \in Processes : d[p].logger /\ d[q].logger => p = q
ASSUME NamesAssumption == \A name \in Streams \union Durables : name \in Seq(STRING)
ASSUME NoneAssumption == None \notin Subscriptions \union MaxAges
ASSUME SetupFailuresAssumption == MaxFailures \in Nat

VARIABLES
    options,        \* what each process is started with
    at,             \* the call of main that each process is in, by its place
    request,        \* the request of that call
    streams,        \* streams of events on the server
    consumers,      \* max_deliver of each durable consumer, 0 if there is none
    dlqs,           \* the subscription whose dead letters each DLQ stream captures
    bucket,         \* max_age of the bucket
    failures

serverVars == <<streams, consumers, dlqs, bucket>>
vars == <<options, at, request, serverVars, failures, loggerVars>>

\* The calls of main that ask the server for something, in their order.
\* EventBus::subscribe ensures the DLQ stream first if the bus has one.
Main(p) ==
    <<"connect">>
    \o (IF options[p].logger THEN <<"logger">> ELSE <<>>)
    \o <<"bucket", "build">>
    \o (IF options[p].dlq = "bus" THEN <<"bus_dlq">> ELSE <<>>)
    \o <<"stream", "consumer">>
    \o (IF options[p].dlq = "none" THEN <<>> ELSE <<"dlq">>)

Down(p) == at[p] = 0
Running(p) == at[p] = Len(Main(p)) + 1
In(p, call) == at[p] \in DOMAIN Main(p) /\ Main(p)[at[p]] = call
Ensuring(p) == \E call \in {"connect", "build", "bus_dlq", "dlq", "consumer"} : In(p, call)

\* Mutant: the consumers of a stream share one DLQ stream.
DlqNameOfStream(s) == <<"DLQ">> \o s[1]

\* format!("DLQ_{}_{}", source_stream, durable); the subject of the stream is
\* dlq.{source_stream}.{durable}, which is s itself.
DlqName(s) == <<"DLQ">> \o s[1] \o s[2]

DlqNames == {DlqName(s) : s \in Subscriptions}

TypeOK ==
    /\ options \in Deployments
    /\ request \in [Processes -> {"info", "create"}]
    /\ \A p \in Processes : at[p] \in 0 .. Len(Main(p)) + 1
    /\ streams \subseteq Streams
    /\ consumers \in [Subscriptions -> Nat]
    /\ dlqs \in [DlqNames -> Subscriptions \union {None}]
    /\ bucket \in MaxAges \union {None}
    /\ failures \in 0 .. MaxFailures
    /\ LoggerTypeOK

Init ==
    /\ options \in Deployments
    /\ at = [p \in Processes |-> 0]
    /\ request = [p \in Processes |-> "info"]
    /\ streams = {}
    /\ consumers = [s \in Subscriptions |-> 0]
    /\ dlqs = [n \in DlqNames |-> None]
    /\ bucket = None
    /\ failures = 0
    /\ LoggerInit

-----------------------------------------------------------------------------
(* The next call, and the end of main: its tasks end with it *)

Advance(p) ==
    /\ at' = [at EXCEPT ![p] = @ + 1]
    /\ request' = [request EXCEPT ![p] = "info"]
    /\ UNCHANGED options

Proceed(p) == Advance(p) /\ UNCHANGED loggerVars

Exit(p) ==
    /\ at' = [at EXCEPT ![p] = 0]
    /\ request' = [request EXCEPT ![p] = "info"]
    /\ IF options[p].logger THEN NoLogger ELSE UNCHANGED loggerVars
    /\ UNCHANGED options

Start(p) ==
    /\ Down(p)
    /\ Proceed(p)
    /\ UNCHANGED <<serverVars, failures>>

\* A program stops; a request fails, with or without an effect, or a process crashes.
Stop(p) ==
    /\ Running(p)
    /\ Exit(p)
    /\ UNCHANGED <<serverVars, failures>>

Fail(p) ==
    /\ ~Down(p)
    /\ failures < MaxFailures
    /\ failures' = failures + 1
    /\ Exit(p)
    /\ UNCHANGED serverVars

-----------------------------------------------------------------------------
(* get_or_create_stream, get_or_create_consumer *)

\* Mutant: streams and consumers are created without asking.
ExistsNever(p) == FALSE

Exists(p) ==
    \/ (In(p, "connect") \/ In(p, "build")) /\ options[p].bus \in streams
    \/ (In(p, "bus_dlq") \/ In(p, "dlq")) /\ dlqs[DlqName(options[p].subscription)] # None
    \/ In(p, "consumer") /\ consumers[options[p].subscription] # 0

Info(p) ==
    /\ Ensuring(p)
    /\ request[p] = "info"
    /\ In(p, "build") => options[p].complete
    /\ IF Exists(p)
       THEN Proceed(p)
       ELSE /\ request' = [request EXCEPT ![p] = "create"]
            /\ UNCHANGED <<options, at, loggerVars>>
    /\ UNCHANGED <<serverVars, failures>>

\* Streams of events with one name have one configuration.
CreateStream(p) ==
    /\ In(p, "connect") \/ In(p, "build")
    /\ request[p] = "create"
    /\ streams' = streams \union {options[p].bus}
    /\ Proceed(p)
    /\ UNCHANGED <<consumers, dlqs, bucket, failures>>

\* A stream with this name and another subject is an error.
CreateDlq(p) ==
    LET s == options[p].subscription IN
    /\ In(p, "bus_dlq") \/ In(p, "dlq")
    /\ request[p] = "create"
    /\ \/ /\ dlqs[DlqName(s)] \in {None, s}
          /\ dlqs' = [dlqs EXCEPT ![DlqName(s)] = s]
          /\ Proceed(p)
       \/ /\ dlqs[DlqName(s)] \notin {None, s}
          /\ Exit(p)
          /\ UNCHANGED dlqs
    /\ UNCHANGED <<streams, consumers, bucket, failures>>

\* A durable with this name and another limit is updated, or is an error.
CreateConsumer(p) ==
    LET s == options[p].subscription IN
    /\ In(p, "consumer")
    /\ request[p] = "create"
    /\ \/ /\ consumers' = [consumers EXCEPT ![s] = options[p].max_deliver]
          /\ Proceed(p)
       \/ /\ consumers[s] \notin {0, options[p].max_deliver}
          /\ Exit(p)
          /\ UNCHANGED consumers
    /\ UNCHANGED <<streams, dlqs, bucket, failures>>

-----------------------------------------------------------------------------
(* The other calls *)

SpawnLogger(p) ==
    /\ In(p, "logger")
    /\ Spawn
    /\ Advance(p)
    /\ UNCHANGED <<serverVars, failures>>

\* create_key_value: one request, an error if there is a bucket with another max_age.
OpenBucket(p) ==
    /\ In(p, "bucket")
    /\ \/ /\ bucket \in {None, options[p].max_age}
          /\ bucket' = options[p].max_age
          /\ Proceed(p)
       \/ /\ bucket \notin {None, options[p].max_age}
          /\ Exit(p)
          /\ UNCHANGED bucket
    /\ UNCHANGED <<streams, consumers, dlqs, failures>>

\* build without a url or a store is an error before it connects.
BuildRejected(p) ==
    /\ In(p, "build")
    /\ ~options[p].complete
    /\ Exit(p)
    /\ UNCHANGED <<serverVars, failures>>

\* get_stream of the subscription: it is not created.
GetStream(p) ==
    /\ In(p, "stream")
    /\ IF options[p].subscription[1] \in streams THEN Proceed(p) ELSE Exit(p)
    /\ UNCHANGED <<serverVars, failures>>

-----------------------------------------------------------------------------
Call(p) ==
    \/ Info(p) \/ CreateStream(p) \/ CreateDlq(p) \/ CreateConsumer(p)
    \/ SpawnLogger(p) \/ OpenBucket(p) \/ BuildRejected(p) \/ GetStream(p)

LoggerStep(A) == A /\ UNCHANGED <<options, at, request, serverVars, failures>>

Next ==
    \/ \E p \in Processes : Start(p) \/ Stop(p) \/ Fail(p) \/ Call(p)
    \/ LoggerStep(Logger)

Spec == Init /\ [][Next]_vars

\* Requests are answered or time out, sleeps end, an abort takes effect.  That a
\* process that ended is started again is up to its supervisor.
Fairness ==
    /\ \A p \in Processes : WF_vars(Start(p) \/ Call(p))
    /\ WF_vars(LoggerStep(Task))
    /\ WF_vars(LoggerStep(Aborted))

FairSpec == Spec /\ Fairness

-----------------------------------------------------------------------------
(* What set-up promises *)

\* The limits that the processes of a durable are configured with.
Limits(s) == {options[q].max_deliver : q \in {q \in Processes : options[q].subscription = s}}

\* The subscriptions whose DLQ stream has the name of this one's.
Namesakes(s) ==
    {t \in {options[q].subscription : q \in Processes} : DlqName(t) = DlqName(s)}

\* A subscription that runs has what it needs, in whatever order other processes
\* created it and however many starts failed half way: its streams, its durable with
\* the limit of one of the processes that share it, a bucket that remembers for as
\* long as it asked, and a DLQ stream that captures the dead letters of a namesake:
\* its own, if no two names of streams in use differ in their number of underscores.
RunningIsProvisioned ==
    \A p \in Processes :
        LET o == options[p]
            s == o.subscription
        IN Running(p) =>
            /\ o.complete
            /\ {o.bus, s[1]} \subseteq streams
            /\ consumers[s] \in Limits(s)
            /\ bucket = o.max_age
            /\ o.dlq # "none" =>
                  /\ dlqs[DlqName(s)] \in Namesakes(s)
                  /\ (\A q \in Processes : Len(options[q].subscription[1]) = Len(s[1]))
                        => dlqs[DlqName(s)] = s

\* A process that is started again whenever it ended gets there, if its builder is
\* complete, the bucket is its own and somebody has created its source stream.
SetupSucceeds ==
    \A p \in Processes :
        /\ options[p].complete
        /\ bucket = options[p].max_age
        /\ options[p].subscription[1] \in streams
        ~> Running(p)

\* The logger subscribes again after every end of its subscription, however often
\* the attempts fail in a row.
LoggerRecovers ==
    task \in {"sleep", "subscribe"} ~> task \in {"listen", "none"} \/ loggerHandle = "dropped"

\* Dropping its handle ends the logger at whatever await it is.
LoggerStops == loggerHandle = "dropped" ~> task \in {"ended", "none"}
=============================================================================
