---------------------------- MODULE BusSetupProofs ----------------------------
(***************************************************************************)
(* Theorems about BusSetup, for any processes, options and names.          *)
(***************************************************************************)
EXTENDS BusSetup, SequenceTheorems, TLAPS

\* The process is through with this call.
Past(p, call) == \E i \in DOMAIN Main(p) : i < at[p] /\ Main(p)[i] = call

\* What each call leaves behind.
Provisioned(p) ==
    LET o == options[p]
        s == o.subscription
    IN /\ Past(p, "connect") => o.bus \in streams
       /\ Past(p, "bucket") => bucket = o.max_age
       /\ Past(p, "build") => o.complete
       /\ Past(p, "stream") => s[1] \in streams
       /\ Past(p, "consumer") => consumers[s] # 0
       /\ Past(p, "dlq") => dlqs[DlqName(s)] # None

\* Everything on the server comes from a process that has a use for it.
Owned ==
    /\ \A s \in Subscriptions :
          consumers[s] # 0 =>
              \E q \in Processes :
                  options[q].subscription = s /\ options[q].max_deliver = consumers[s]
    /\ \A n \in DlqNames :
          dlqs[n] # None =>
              \E q \in Processes :
                  DlqName(options[q].subscription) = n /\ dlqs[n] = options[q].subscription

BuildIsChecked == \A p \in Processes : In(p, "build") /\ request[p] = "create" => options[p].complete

Inv ==
    /\ TypeOK
    /\ at \in [Processes -> Nat]
    /\ Owned
    /\ BuildIsChecked
    /\ \A p \in Processes : Provisioned(p)

-----------------------------------------------------------------------------
(* Lemmas about the program and about names *)

\* A process is started with options.
LEMMA OptionsType ==
    ASSUME options \in Deployments, NEW p \in Processes
    PROVE  options[p] \in Options
BY DeploymentsAssumption

Calls == {"connect", "logger", "bucket", "build", "bus_dlq", "stream", "consumer", "dlq"}

Has(s, x) == \E i \in DOMAIN s : s[i] = x

\* Sequences of one and of two elements.
LEMMA Single ==
    ASSUME NEW S, NEW x \in S
    PROVE  <<x>> \in Seq(S) /\ Len(<<x>>) = 1 /\ Has(<<x>>, x)
BY DEF Has

LEMMA Double ==
    ASSUME NEW S, NEW x \in S, NEW y \in S
    PROVE  <<x, y>> \in Seq(S) /\ Has(<<x, y>>, x) /\ Has(<<x, y>>, y)
<1> DEFINE t == <<x, y>>
<1>1. t \in Seq(S) /\ DOMAIN t = 1 .. 2 /\ t[1] = x /\ t[2] = y
  OBVIOUS
<1> HIDE DEF t
<1>2. Has(t, x) /\ Has(t, y)
  BY <1>1 DEF Has
<1> QED
  BY <1>1, <1>2 DEF t

\* A call that only some programs make.
LEMMA Optional ==
    ASSUME NEW S, NEW x \in S, NEW b
    PROVE  /\ (IF b THEN <<x>> ELSE <<>>) \in Seq(S)
           /\ (IF b THEN <<>> ELSE <<x>>) \in Seq(S)
<1>1. <<x>> \in Seq(S) /\ <<>> \in Seq(S)
  OBVIOUS
<1> QED
  BY <1>1, Zenon

\* A concatenation has what its parts have.
LEMMA ConcatHas ==
    ASSUME NEW S, NEW s \in Seq(S), NEW t \in Seq(S)
    PROVE  /\ s \o t \in Seq(S)
           /\ Len(s \o t) = Len(s) + Len(t)
           /\ \A x : Has(s, x) \/ Has(t, x) => Has(s \o t, x)
<1> DEFINE u == s \o t
<1>1. /\ u \in Seq(S) /\ Len(u) = Len(s) + Len(t) /\ DOMAIN u = 1 .. Len(s) + Len(t)
      /\ \A i \in 1 .. Len(s) + Len(t) : u[i] = IF i <= Len(s) THEN s[i] ELSE t[i - Len(s)]
  OBVIOUS
<1>2. Len(s) \in Nat /\ Len(t) \in Nat /\ DOMAIN s = 1 .. Len(s) /\ DOMAIN t = 1 .. Len(t)
  OBVIOUS
<1> HIDE DEF u
<1>3. ASSUME NEW x, Has(s, x)
      PROVE  Has(u, x)
  BY <1>1, <1>2, <1>3 DEF Has
<1>4. ASSUME NEW x, Has(t, x)
      PROVE  Has(u, x)
  <2>1. PICK i \in 1 .. Len(t) : t[i] = x
    BY <1>2, <1>4 DEF Has
  <2>2. Len(s) + i \in 1 .. Len(s) + Len(t) /\ ~(Len(s) + i <= Len(s)) /\ (Len(s) + i) - Len(s) = i
    BY <1>2
  <2> QED
    BY <1>1, <2>1, <2>2 DEF Has
<1> QED
  BY <1>1, <1>3, <1>4 DEF u

\* A program makes all of its calls.
LEMMA MainCalls ==
    ASSUME NEW p
    PROVE  /\ Main(p) \in Seq(Calls)
           /\ \A call \in {"connect", "bucket", "build", "stream", "consumer"} : Has(Main(p), call)
           /\ options[p].dlq # "none" => Has(Main(p), "dlq")
<1> DEFINE first == <<"connect">>
           second == IF options[p].logger THEN <<"logger">> ELSE <<>>
           third == <<"bucket", "build">>
           fourth == IF options[p].dlq = "bus" THEN <<"bus_dlq">> ELSE <<>>
           fifth == <<"stream", "consumer">>
           sixth == IF options[p].dlq = "none" THEN <<>> ELSE <<"dlq">>
<1>1. first \in Seq(Calls) /\ Has(first, "connect")
  <2>1. "connect" \in Calls
    BY DEF Calls
  <2> QED
    BY <2>1, Single
<1>2. second \in Seq(Calls) /\ fourth \in Seq(Calls) /\ sixth \in Seq(Calls)
  BY Optional DEF Calls
<1>3. third \in Seq(Calls) /\ Has(third, "bucket") /\ Has(third, "build")
  <2>1. "bucket" \in Calls /\ "build" \in Calls
    BY DEF Calls
  <2> QED
    BY <2>1, Double
<1>4. fifth \in Seq(Calls) /\ Has(fifth, "stream") /\ Has(fifth, "consumer")
  <2>1. "stream" \in Calls /\ "consumer" \in Calls
    BY DEF Calls
  <2> QED
    BY <2>1, Double
<1>5. options[p].dlq # "none" => Has(sixth, "dlq")
  <2>1. Has(<<"dlq">>, "dlq")
    BY Single
  <2> QED
    BY <2>1, Zenon
<1>6. Main(p) = first \o second \o third \o fourth \o fifth \o sixth
  BY DEF Main
<1> HIDE DEF first, second, third, fourth, fifth, sixth
<1>7. first \o second \in Seq(Calls) /\ Has(first \o second, "connect")
  BY <1>1, <1>2, ConcatHas
<1>8. /\ first \o second \o third \in Seq(Calls)
      /\ \A call \in {"connect", "bucket", "build"} : Has(first \o second \o third, call)
  BY <1>3, <1>7, ConcatHas
<1>9. /\ first \o second \o third \o fourth \in Seq(Calls)
      /\ \A call \in {"connect", "bucket", "build"} : Has(first \o second \o third \o fourth, call)
  BY <1>2, <1>8, ConcatHas
<1>10. /\ first \o second \o third \o fourth \o fifth \in Seq(Calls)
       /\ \A call \in {"connect", "bucket", "build", "stream", "consumer"} :
             Has(first \o second \o third \o fourth \o fifth, call)
  BY <1>4, <1>9, ConcatHas
<1>11. /\ first \o second \o third \o fourth \o fifth \o sixth \in Seq(Calls)
       /\ \A call \in {"connect", "bucket", "build", "stream", "consumer"} :
             Has(first \o second \o third \o fourth \o fifth \o sixth, call)
       /\ Has(sixth, "dlq") => Has(first \o second \o third \o fourth \o fifth \o sixth, "dlq")
  BY <1>2, <1>10, ConcatHas
<1> QED
  BY <1>5, <1>6, <1>11

\* A concatenation tells its parts, if the length of the first one is known.
LEMMA ConcatDecodes ==
    ASSUME NEW S, NEW a \in Seq(S), NEW b \in Seq(S), NEW c \in Seq(S), NEW d \in Seq(S),
           a \o b = c \o d, Len(a) = Len(c)
    PROVE  a = c /\ b = d
<1> DEFINE u == a \o b
           v == c \o d
<1>1. /\ Len(u) = Len(a) + Len(b)
      /\ \A i \in 1 .. Len(a) + Len(b) : u[i] = IF i <= Len(a) THEN a[i] ELSE b[i - Len(a)]
  BY ConcatProperties
<1>2. /\ Len(v) = Len(c) + Len(d)
      /\ \A i \in 1 .. Len(c) + Len(d) : v[i] = IF i <= Len(c) THEN c[i] ELSE d[i - Len(c)]
  BY ConcatProperties
<1>3. u = v
  OBVIOUS
<1>4. Len(a) \in Nat /\ Len(b) \in Nat /\ Len(c) \in Nat /\ Len(d) \in Nat
  OBVIOUS
<1> HIDE DEF u, v
<1>5. Len(b) = Len(d)
  BY <1>1, <1>2, <1>3, <1>4
<1>6. ASSUME NEW i \in 1 .. Len(a)
      PROVE  a[i] = c[i]
  <2>1. i \in 1 .. Len(a) + Len(b) /\ i <= Len(a)
    BY <1>4
  <2> QED
    BY <1>1, <1>2, <1>3, <1>5, <2>1
<1>7. ASSUME NEW i \in 1 .. Len(b)
      PROVE  b[i] = d[i]
  <2>1. /\ Len(a) + i \in 1 .. Len(a) + Len(b) /\ ~(Len(a) + i <= Len(a))
        /\ (Len(a) + i) - Len(a) = i
    BY <1>4
  <2> QED
    BY <1>1, <1>2, <1>3, <1>5, <2>1
<1>8. a = c
  BY <1>6, SeqEqual
<1>9. b = d
  BY <1>5, <1>7, SeqEqual
<1> QED
  BY <1>8, <1>9

\* A DLQ name tells its stream and its durable, if the number of parts of one is known.
LEMMA NameDecodes ==
    ASSUME NEW s \in Subscriptions, NEW t \in Subscriptions,
           DlqName(s) = DlqName(t), Len(s[1]) = Len(t[1])
    PROVE  s = t
<1> DEFINE Part == STRING \union {"DLQ"}
           p == <<"DLQ">>
           a == s[1]
           b == s[2]
           c == t[1]
           d == t[2]
<1>1. p \in Seq(Part)
  BY Single
<1>2. p \o a \o b = p \o c \o d /\ Len(a) = Len(c)
  BY DEF DlqName
<1>3. a \in Seq(Part) /\ b \in Seq(Part) /\ c \in Seq(Part) /\ d \in Seq(Part)
  <2>1. a \in Seq(STRING) /\ b \in Seq(STRING) /\ c \in Seq(STRING) /\ d \in Seq(STRING)
    BY NamesAssumption DEF Subscriptions
  <2> QED
    BY <2>1
<1> DEFINE u == p \o a
           v == p \o c
<1>4. u \o b = v \o d
  BY <1>2
<1> HIDE DEF Part, p, a, b, c, d
<1>5. u \in Seq(Part) /\ v \in Seq(Part) /\ Len(u) = Len(p) + Len(a) /\ Len(v) = Len(p) + Len(c)
  BY <1>1, <1>3, ConcatHas
<1>6. Len(u) = Len(v)
  BY <1>2, <1>5
<1>7. u = v /\ b = d
  <2> HIDE DEF u, v
  <2> QED
    BY <1>3, <1>4, <1>5, <1>6, ConcatDecodes
<1>8. p \o a = p \o c
  BY <1>7
<1>9. a = c
  BY <1>1, <1>2, <1>3, <1>8, ConcatDecodes
<1> QED
  BY <1>7, <1>9 DEF Subscriptions, a, b, c, d

-----------------------------------------------------------------------------
(* The steps *)

LEMMA LoggerInitType == LoggerInit => LoggerTypeOK
<1> SUFFICES ASSUME LoggerInit PROVE LoggerTypeOK
  OBVIOUS
<1>1. unread \in BOOLEAN
  BY Zenon DEF LoggerInit
<1>2. task \in Tasks /\ loggerHandle \in LoggerHandles
  BY Zenon DEF LoggerInit, Tasks, LoggerHandles
<1>3. loggerBackoff = 200 /\ loggerFailures = 0
  BY Zenon DEF LoggerInit, BACKOFF_INITIAL
<1>4. loggerBackoff \in BACKOFF_INITIAL .. BACKOFF_MAX /\ loggerFailures \in 0 .. MaxLoggerFailures
  BY <1>3, MaxLoggerFailuresAssumption DEF BACKOFF_INITIAL, BACKOFF_MAX
<1> QED
  BY <1>1, <1>2, <1>4, Zenon DEF LoggerTypeOK

\* At the start nobody is through with anything.
LEMMA InitInv == Init => Inv
<1> SUFFICES ASSUME Init PROVE Inv
  OBVIOUS
<1> USE DEF Init
<1>1. \A p \in Processes : Main(p) \in Seq(Calls) /\ Len(Main(p)) \in Nat
  BY MainCalls
<1>2. TypeOK
  <2>1. LoggerTypeOK
    BY LoggerInitType
  <2>2. \A p \in Processes : at[p] \in 0 .. Len(Main(p)) + 1
    BY <1>1
  <2> QED
    BY <2>1, <2>2, SetupFailuresAssumption DEF TypeOK
<1>3. at \in [Processes -> Nat]
  OBVIOUS
<1>4. Owned
  BY DEF Owned
<1>5. BuildIsChecked
  BY DEF BuildIsChecked
<1>6. \A p \in Processes : Provisioned(p)
  <2>1. ASSUME NEW p \in Processes, NEW call
        PROVE  ~Past(p, call)
    BY <1>1 DEF Past
  <2> QED
    BY <2>1 DEF Provisioned
<1> QED
  BY <1>2, <1>3, <1>4, <1>5, <1>6 DEF Inv

\* What a step of a process does to its place and to its request.
Moved(p) ==
    /\ options' = options
    /\ at' \in [Processes -> Nat]
    /\ \A q \in Processes : at'[q] \in 0 .. Len(Main(q)) + 1
    /\ request' \in [Processes -> {"info", "create"}]
    /\ \A q \in Processes : In(q, "build")' /\ request'[q] = "create" => In(q, "build") /\ request[q] = "create"

\* It is through with no call that it was not through with before, but for this one.
Through(p) == \A q \in Processes : \A call : Past(q, call)' => Past(q, call) \/ (q = p /\ In(p, call))

\* The program of a process does not change.
LEMMA SameMain ==
    ASSUME options' = options, NEW p
    PROVE  Main(p)' = Main(p)
BY DEF Main

\* A program is a finite sequence of calls.
LEMMA MainLen ==
    ASSUME NEW p
    PROVE  Main(p) \in Seq(Calls) /\ Len(Main(p)) \in Nat /\ DOMAIN Main(p) = 1 .. Len(Main(p))
<1>1. Main(p) \in Seq(Calls)
  BY MainCalls
<1> QED
  BY <1>1

\* Going on makes a process through with the call it was in, and with no other.
LEMMA AdvanceMoves ==
    ASSUME Inv, NEW p \in Processes, at[p] # Len(Main(p)) + 1, Advance(p)
    PROVE  Moved(p) /\ Through(p)
<1>1. options' = options /\ at' = [at EXCEPT ![p] = at[p] + 1] /\ request' = [request EXCEPT ![p] = "info"]
  BY DEF Advance
<1>2. /\ at \in [Processes -> Nat] /\ request \in [Processes -> {"info", "create"}]
      /\ \A q \in Processes : at[q] \in 0 .. Len(Main(q)) + 1
  BY DEF Inv, TypeOK
<1>3. \A q \in Processes : Len(Main(q)) \in Nat /\ DOMAIN Main(q) = 1 .. Len(Main(q))
  BY MainLen
<1>4. \A q \in Processes : Main(q)' = Main(q)
  BY <1>1, SameMain
<1>5. at' \in [Processes -> Nat] /\ \A q \in Processes : at'[q] \in 0 .. Len(Main(q)) + 1
  BY <1>1, <1>2, <1>3
<1>6. ASSUME NEW q \in Processes, In(q, "build")', request'[q] = "create"
      PROVE  In(q, "build") /\ request[q] = "create"
  BY <1>1, <1>2, <1>4, <1>6 DEF In
<1>7. ASSUME NEW q \in Processes, NEW call, Past(q, call)'
      PROVE  Past(q, call) \/ (q = p /\ In(p, call))
  <2>1. PICK i \in DOMAIN Main(q) : i < at'[q] /\ Main(q)[i] = call
    BY <1>4, <1>7 DEF Past
  <2>2. CASE i < at[q]
    <3>1. Past(q, call)
      BY <2>1, <2>2 DEF Past
    <3> QED
      BY <3>1
  <2>3. CASE ~(i < at[q])
    <3>1. q = p /\ i = at[p]
      BY <1>1, <1>2, <1>3, <2>1, <2>3
    <3> QED
      BY <2>1, <3>1 DEF In
  <2> QED
    BY <2>2, <2>3
<1>8. request' \in [Processes -> {"info", "create"}]
  BY <1>1, <1>2
<1> QED
  BY <1>1, <1>5, <1>6, <1>7, <1>8 DEF Moved, Through

\* A process that ended is through with nothing.
LEMMA ExitMoves ==
    ASSUME Inv, NEW p \in Processes, Exit(p)
    PROVE  /\ Moved(p)
           /\ \A q \in Processes : \A call : Past(q, call)' => Past(q, call)
<1>1. options' = options /\ at' = [at EXCEPT ![p] = 0] /\ request' = [request EXCEPT ![p] = "info"]
  BY DEF Exit
<1>2. /\ at \in [Processes -> Nat] /\ request \in [Processes -> {"info", "create"}]
      /\ \A q \in Processes : at[q] \in 0 .. Len(Main(q)) + 1
  BY DEF Inv, TypeOK
<1>3. \A q \in Processes : Len(Main(q)) \in Nat /\ DOMAIN Main(q) = 1 .. Len(Main(q))
  BY MainLen
<1>4. \A q \in Processes : Main(q)' = Main(q)
  BY <1>1, SameMain
<1>5. at' \in [Processes -> Nat] /\ \A q \in Processes : at'[q] \in 0 .. Len(Main(q)) + 1
  BY <1>1, <1>2, <1>3
<1>6. ASSUME NEW q \in Processes, In(q, "build")', request'[q] = "create"
      PROVE  In(q, "build") /\ request[q] = "create"
  BY <1>1, <1>2, <1>4, <1>6 DEF In
<1>7. ASSUME NEW q \in Processes, NEW call, Past(q, call)'
      PROVE  Past(q, call)
  <2>1. PICK i \in DOMAIN Main(q) : i < at'[q] /\ Main(q)[i] = call
    BY <1>4, <1>7 DEF Past
  <2>2. i < at[q]
    BY <1>1, <1>2, <1>3, <2>1
  <2> QED
    BY <2>1, <2>2 DEF Past
<1>8. request' \in [Processes -> {"info", "create"}]
  BY <1>1, <1>2
<1> QED
  BY <1>1, <1>5, <1>6, <1>7, <1>8 DEF Moved

\* Nothing on the server goes away.
Monotone ==
    /\ streams \subseteq streams'
    /\ bucket # None => bucket' = bucket
    /\ \A s \in Subscriptions : consumers[s] # 0 => consumers'[s] # 0
    /\ \A n \in DlqNames : dlqs[n] # None => dlqs'[n] # None

\* The call that the process is in has done what it is for.
Effect(p) ==
    LET o == options[p]
        s == o.subscription
    IN /\ In(p, "connect") => o.bus \in streams'
       /\ In(p, "bucket") => bucket' = o.max_age
       /\ In(p, "build") => o.complete
       /\ In(p, "stream") => s[1] \in streams'
       /\ In(p, "consumer") => consumers'[s] # 0
       /\ In(p, "dlq") => dlqs'[DlqName(s)] # None

\* What calls left behind stays, and the call that ends adds what it is for.
LEMMA StillProvisioned ==
    ASSUME Inv, options' = options, Monotone, NEW p \in Processes,
           \/ \A q \in Processes : \A call : Past(q, call)' => Past(q, call)
           \/ Through(p) /\ Effect(p)
    PROVE  \A q \in Processes : Provisioned(q)'
<1> SUFFICES ASSUME NEW q \in Processes PROVE Provisioned(q)'
  OBVIOUS
<1> DEFINE o == options[q]
           s == o.subscription
<1>1. o \in Options /\ s \in Subscriptions /\ DlqName(s) \in DlqNames /\ o.max_age # None
  <2>1. o \in Options
    BY OptionsType DEF Inv, TypeOK
  <2> QED
    BY <2>1, NoneAssumption DEF Options, DlqNames
<1>2. Provisioned(q)
  BY DEF Inv
<1>3. ASSUME NEW call, Past(q, call)'
      PROVE  Past(q, call) \/ (q = p /\ In(p, call) /\ Effect(p))
  <2>1. CASE \A r \in Processes : \A c : Past(r, c)' => Past(r, c)
    BY <1>3, <2>1, Zenon
  <2>2. CASE Through(p) /\ Effect(p)
    BY <1>3, <2>2, Zenon DEF Through
  <2> QED
    BY <2>1, <2>2
<1>4. Past(q, "connect")' => o.bus \in streams'
  BY <1>2, <1>3 DEF Provisioned, Effect, Monotone
<1>5. Past(q, "bucket")' => bucket' = o.max_age
  BY <1>1, <1>2, <1>3 DEF Provisioned, Effect, Monotone
<1>6. Past(q, "build")' => o.complete
  BY <1>2, <1>3 DEF Provisioned, Effect, Monotone
<1>7. Past(q, "stream")' => s[1] \in streams'
  BY <1>2, <1>3 DEF Provisioned, Effect, Monotone
<1>8. Past(q, "consumer")' => consumers'[s] # 0
  BY <1>1, <1>2, <1>3 DEF Provisioned, Effect, Monotone
<1>9. Past(q, "dlq")' => dlqs'[DlqName(s)] # None
  BY <1>1, <1>2, <1>3 DEF Provisioned, Effect, Monotone
<1>10. DlqName(s)' = DlqName(s)
  BY DEF DlqName
<1> QED
  BY <1>4, <1>5, <1>6, <1>7, <1>8, <1>9, <1>10 DEF Provisioned

\* What is on the server, and that somebody has a use for it.
ServerInv ==
    /\ streams \subseteq Streams
    /\ consumers \in [Subscriptions -> Nat]
    /\ dlqs \in [DlqNames -> Subscriptions \union {None}]
    /\ bucket \in MaxAges \union {None}
    /\ Owned

\* A step that does not ask the server changes nothing on it.
LEMMA QuietServer ==
    ASSUME Inv, options' = options, UNCHANGED serverVars
    PROVE  Monotone /\ ServerInv'
<1>1. streams' = streams /\ consumers' = consumers /\ dlqs' = dlqs /\ bucket' = bucket
  BY DEF serverVars
<1>2. Monotone
  BY <1>1 DEF Monotone
<1>3. Owned'
  <2>1. \A n : DlqName(n)' = DlqName(n)
    BY DEF DlqName
  <2> QED
    BY <1>1, <2>1 DEF Inv, Owned
<1> QED
  BY <1>1, <1>2, <1>3 DEF Inv, TypeOK, ServerInv

\* Doubling stays between the initial backoff and the cap.
LEMMA BackoffStays ==
    /\ BACKOFF_INITIAL \in BACKOFF_INITIAL .. BACKOFF_MAX
    /\ \A b \in BACKOFF_INITIAL .. BACKOFF_MAX : DoubledBackoff(b) \in BACKOFF_INITIAL .. BACKOFF_MAX
<1>1. BACKOFF_INITIAL \in Nat /\ BACKOFF_MAX \in Nat /\ BACKOFF_INITIAL <= BACKOFF_MAX
  BY DEF BACKOFF_INITIAL, BACKOFF_MAX
<1> QED
  BY <1>1 DEF DoubledBackoff

\* Every step of the logger, and its end with main, keeps its types.
LEMMA LoggerTypes ==
    ASSUME LoggerTypeOK, NoLogger \/ UNCHANGED loggerVars \/ Spawn \/ Logger
    PROVE  LoggerTypeOK'
<1>0. /\ unread \in BOOLEAN /\ task \in Tasks /\ loggerHandle \in LoggerHandles
      /\ loggerBackoff \in BACKOFF_INITIAL .. BACKOFF_MAX /\ loggerFailures \in 0 .. MaxLoggerFailures
  BY DEF LoggerTypeOK
<1>1. unread' \in BOOLEAN
  <2>1. unread' = unread \/ unread' = TRUE \/ unread' = FALSE
    BY Zenon DEF NoLogger, loggerVars, Spawn, Logger, Task, LogAdvisory, SubscriptionEnds, Wakes,
       Resubscribed, ResubscribeFails, AdvisoryArrives, DropHandle, Aborted
  <2> QED
    BY <1>0, <2>1, Zenon
<1>2. task' \in Tasks /\ loggerHandle' \in LoggerHandles
  BY <1>0 DEF NoLogger, loggerVars, Spawn, Logger, Task, LogAdvisory, SubscriptionEnds, Wakes,
     Resubscribed, ResubscribeFails, AdvisoryArrives, DropHandle, Aborted, LoggerFails, Tasks,
     LoggerHandles
<1>3. loggerBackoff' \in {loggerBackoff, BACKOFF_INITIAL, DoubledBackoff(loggerBackoff)}
  BY DEF NoLogger, loggerVars, Spawn, Logger, Task, LogAdvisory, SubscriptionEnds, Wakes,
     Resubscribed, ResubscribeFails, AdvisoryArrives, DropHandle, Aborted
<1>4. \/ loggerFailures' = loggerFailures \/ loggerFailures' = 0
      \/ loggerFailures < MaxLoggerFailures /\ loggerFailures' = loggerFailures + 1
  BY DEF NoLogger, loggerVars, Spawn, Logger, Task, LogAdvisory, SubscriptionEnds, Wakes,
     Resubscribed, ResubscribeFails, AdvisoryArrives, DropHandle, Aborted, LoggerFails
<1>5. loggerBackoff' \in BACKOFF_INITIAL .. BACKOFF_MAX
  BY <1>0, <1>3, BackoffStays, Zenon
<1>6. loggerFailures' \in 0 .. MaxLoggerFailures
  BY <1>0, <1>4, MaxLoggerFailuresAssumption
<1> QED
  BY <1>1, <1>2, <1>5, <1>6, Zenon DEF LoggerTypeOK

\* What has to be shown of a step of a process.
LEMMA StepInv ==
    ASSUME Inv, NEW p \in Processes, Moved(p), Monotone, ServerInv', LoggerTypeOK',
           failures' \in 0 .. MaxFailures,
           \/ \A q \in Processes : \A call : Past(q, call)' => Past(q, call)
           \/ Through(p) /\ Effect(p)
    PROVE  Inv'
<1>1. options' = options
  BY DEF Moved
<1>2. \A q \in Processes : Main(q)' = Main(q)
  BY <1>1, SameMain
<1>3. \A q \in Processes : Provisioned(q)'
  BY <1>1, StillProvisioned
<1>4. BuildIsChecked'
  BY <1>1 DEF Moved, Inv, BuildIsChecked
<1>5. DlqNames' = DlqNames
  BY DEF DlqNames, DlqName
<1>6. TypeOK'
  BY <1>1, <1>2, <1>5 DEF Moved, TypeOK, ServerInv, Inv
<1> QED
  BY <1>3, <1>4, <1>6 DEF Moved, ServerInv, Inv

\* A call is one place of the program: a process in one is in no other.
LEMMA OneCall ==
    ASSUME Inv, NEW p \in Processes, NEW call, In(p, call)
    PROVE  /\ \A other : In(p, other) => other = call
           /\ ~Down(p) /\ ~Running(p)
<1>1. DOMAIN Main(p) = 1 .. Len(Main(p)) /\ Len(Main(p)) \in Nat
  BY MainLen
<1> QED
  BY <1>1 DEF In, Down, Running

\* The options of a process are of their types.
LEMMA Typed ==
    ASSUME Inv, NEW p \in Processes
    PROVE  LET o == options[p]
               s == o.subscription
           IN /\ o \in Options /\ s \in Subscriptions /\ s[1] \in Streams /\ DlqName(s) \in DlqNames
              /\ o.bus \in Streams /\ o.max_deliver \in Nat \ {0} /\ o.max_age \in MaxAges
              /\ o.max_age # None /\ s # None
<1>1. options[p] \in Options
  BY OptionsType DEF Inv, TypeOK
<1> QED
  BY <1>1, NoneAssumption DEF Options, Subscriptions, DlqNames

\* A process that ends, with nothing changed on the server.
LEMMA ExitInv ==
    ASSUME Inv, NEW p \in Processes, Exit(p), UNCHANGED serverVars, failures' \in 0 .. MaxFailures
    PROVE  Inv'
<1>1. Moved(p) /\ \A q \in Processes : \A call : Past(q, call)' => Past(q, call)
  BY ExitMoves
<1>2. Monotone /\ ServerInv'
  BY <1>1, QuietServer DEF Moved
<1>3. LoggerTypeOK'
  BY LoggerTypes DEF Exit, Inv, TypeOK
<1> QED
  BY <1>1, <1>2, <1>3, StepInv

\* A process that goes on, with nothing changed on the server.
LEMMA AdvanceInv ==
    ASSUME Inv, NEW p \in Processes, ~Running(p), Advance(p), Effect(p), UNCHANGED serverVars,
           LoggerTypeOK', failures' \in 0 .. MaxFailures
    PROVE  Inv'
<1>1. Moved(p) /\ Through(p)
  BY AdvanceMoves DEF Running
<1>2. Monotone /\ ServerInv'
  BY <1>1, QuietServer DEF Moved
<1> QED
  BY <1>1, <1>2, StepInv

\* Going on does not touch the logger.
LEMMA ProceedLogger ==
    ASSUME Inv, NEW p \in Processes, Proceed(p)
    PROVE  Advance(p) /\ LoggerTypeOK'
BY LoggerTypes DEF Proceed, Inv, TypeOK

\* One lemma for each action.
LEMMA StartInv ==
    ASSUME Inv, NEW p \in Processes, Start(p)
    PROVE  Inv'
<1>1. ~Running(p) /\ \A call : ~In(p, call)
  <2>1. DOMAIN Main(p) = 1 .. Len(Main(p)) /\ Len(Main(p)) \in Nat
    BY MainLen
  <2> QED
    BY <2>1 DEF Start, Down, Running, In
<1>2. Advance(p) /\ LoggerTypeOK' /\ UNCHANGED serverVars /\ failures' \in 0 .. MaxFailures
  BY ProceedLogger DEF Start, Inv, TypeOK
<1>3. Effect(p)
  BY <1>1 DEF Effect
<1> QED
  BY <1>1, <1>2, <1>3, AdvanceInv

LEMMA StopInv ==
    ASSUME Inv, NEW p \in Processes, Stop(p) \/ Fail(p) \/ BuildRejected(p)
    PROVE  Inv'
<1>1. failures' \in 0 .. MaxFailures
  <2>1. failures \in 0 .. MaxFailures
    BY DEF Inv, TypeOK
  <2>2. failures' = failures \/ (failures < MaxFailures /\ failures' = failures + 1)
    BY DEF Stop, Fail, BuildRejected
  <2> QED
    BY <2>1, <2>2, SetupFailuresAssumption
<1>2. Exit(p) /\ UNCHANGED serverVars
  BY DEF Stop, Fail, BuildRejected
<1> QED
  BY <1>1, <1>2, ExitInv

LEMMA InfoInv ==
    ASSUME Inv, NEW p \in Processes, Info(p)
    PROVE  Inv'
<1>0. Ensuring(p) /\ (In(p, "build") => options[p].complete)
  BY Zenon DEF Info
<1>1. UNCHANGED serverVars /\ failures' = failures
  BY DEF Info
<1>2. failures' \in 0 .. MaxFailures
  BY <1>1 DEF Inv, TypeOK
<1>3. CASE Exists(p) /\ Proceed(p)
  <2>1. Advance(p) /\ LoggerTypeOK'
    BY <1>3, ProceedLogger
  <2>2. PICK call \in {"connect", "build", "bus_dlq", "dlq", "consumer"} : In(p, call)
    BY <1>0, Zenon DEF Ensuring
  <2>3. ~Running(p)
    BY <2>2, OneCall
  <2>4. ~In(p, "bucket") /\ ~In(p, "stream")
    BY <2>2, OneCall
  <2>5. streams' = streams /\ consumers' = consumers /\ dlqs' = dlqs
    BY <1>1 DEF serverVars
  <2>6. In(p, "connect") => options[p].bus \in streams
    <3>1. ASSUME In(p, "connect")
          PROVE  ~In(p, "build") /\ ~In(p, "bus_dlq") /\ ~In(p, "dlq") /\ ~In(p, "consumer")
      BY <3>1, OneCall
    <3> QED
      BY <1>3, <3>1 DEF Exists
  <2>7. In(p, "consumer") => consumers[options[p].subscription] # 0
    <3>1. ASSUME In(p, "consumer")
          PROVE  ~In(p, "build") /\ ~In(p, "bus_dlq") /\ ~In(p, "dlq") /\ ~In(p, "connect")
      BY <3>1, OneCall
    <3> QED
      BY <1>3, <3>1 DEF Exists
  <2>8. In(p, "dlq") => dlqs[DlqName(options[p].subscription)] # None
    <3>1. ASSUME In(p, "dlq")
          PROVE  ~In(p, "build") /\ ~In(p, "connect") /\ ~In(p, "consumer")
      BY <3>1, OneCall
    <3> QED
      BY <1>3, <3>1 DEF Exists
  <2>9. Effect(p)
    BY <1>0, <2>4, <2>5, <2>6, <2>7, <2>8, Zenon DEF Effect
  <2> QED
    BY <1>1, <1>2, <2>1, <2>3, <2>9, AdvanceInv
<1>4. CASE /\ request' = [request EXCEPT ![p] = "create"]
           /\ UNCHANGED <<options, at, loggerVars>>
  <2>1. options' = options /\ at' = at /\ UNCHANGED loggerVars
    BY <1>4
  <2>2. \A q \in Processes : Main(q)' = Main(q)
    BY <2>1, SameMain
  <2>3. Monotone /\ ServerInv'
    BY <1>1, <2>1, QuietServer
  <2>4. LoggerTypeOK'
    BY <2>1, LoggerTypes DEF Inv, TypeOK
  <2>5. \A q \in Processes : Provisioned(q)'
    <3>1. \A q \in Processes : \A call : Past(q, call)' => Past(q, call)
      BY <2>1, <2>2 DEF Past
    <3> QED
      BY <2>1, <2>3, <3>1, StillProvisioned
  <2>6. BuildIsChecked'
    <3>1. ASSUME NEW q \in Processes, In(q, "build")', request'[q] = "create"
          PROVE  options'[q].complete
      <4>1. In(q, "build")
        BY <2>1, <2>2, <3>1 DEF In
      <4>2. CASE q = p
        BY <1>0, <2>1, <4>1, <4>2, Zenon
      <4>3. CASE q # p
        BY <1>4, <2>1, <3>1, <4>1, <4>3 DEF Inv, TypeOK, BuildIsChecked
      <4> QED
        BY <4>2, <4>3
    <3> QED
      BY <3>1 DEF BuildIsChecked
  <2>7. TypeOK'
    <3>1. DlqNames' = DlqNames
      BY DEF DlqNames, DlqName
    <3> QED
      BY <1>2, <1>4, <2>1, <2>2, <2>3, <2>4, <3>1 DEF TypeOK, ServerInv, Inv
  <2> QED
    BY <2>1, <2>3, <2>5, <2>6, <2>7 DEF Inv, ServerInv
<1> QED
  BY <1>3, <1>4 DEF Info

LEMMA CreateStreamInv ==
    ASSUME Inv, NEW p \in Processes, CreateStream(p)
    PROVE  Inv'
<1>1. /\ streams' = streams \union {options[p].bus} /\ consumers' = consumers
      /\ dlqs' = dlqs /\ bucket' = bucket /\ failures' = failures
      /\ Proceed(p) /\ request[p] = "create" /\ (In(p, "connect") \/ In(p, "build"))
  BY DEF CreateStream
<1>2. Advance(p) /\ LoggerTypeOK'
  BY <1>1, ProceedLogger
<1>3. ~Running(p) /\ \A call : In(p, call) => call \in {"connect", "build"}
  BY <1>1, OneCall
<1>4. Moved(p) /\ Through(p)
  BY <1>2, <1>3, AdvanceMoves DEF Running
<1>5. Monotone
  BY <1>1 DEF Monotone
<1>6. Owned'
  <2>1. \A n : DlqName(n)' = DlqName(n)
    BY DEF DlqName
  <2> QED
    BY <1>1, <1>4, <2>1 DEF Moved, Inv, Owned
<1>7. ServerInv'
  <2>1. options[p].bus \in Streams
    BY Typed
  <2> QED
    BY <1>1, <1>6, <2>1 DEF ServerInv, Inv, TypeOK
<1>8. Effect(p)
  <2>1. In(p, "build") => options[p].complete
    BY <1>1, Zenon DEF Inv, BuildIsChecked
  <2>2. options[p].bus \in streams'
    BY <1>1
  <2>3. ~In(p, "bucket") /\ ~In(p, "stream") /\ ~In(p, "consumer") /\ ~In(p, "dlq")
    BY <1>3
  <2> QED
    BY <2>1, <2>2, <2>3, Zenon DEF Effect
<1>9. failures' \in 0 .. MaxFailures
  BY <1>1 DEF Inv, TypeOK
<1> QED
  BY <1>2, <1>4, <1>5, <1>7, <1>8, <1>9, StepInv

LEMMA CreateDlqInv ==
    ASSUME Inv, NEW p \in Processes, CreateDlq(p)
    PROVE  Inv'
<1> DEFINE s == options[p].subscription
<1>1. /\ streams' = streams /\ consumers' = consumers /\ bucket' = bucket /\ failures' = failures
      /\ (In(p, "bus_dlq") \/ In(p, "dlq"))
      /\ \/ dlqs' = [dlqs EXCEPT ![DlqName(s)] = s] /\ dlqs[DlqName(s)] \in {None, s} /\ Proceed(p)
         \/ dlqs' = dlqs /\ Exit(p)
  BY DEF CreateDlq
<1>2. failures' \in 0 .. MaxFailures
  BY <1>1 DEF Inv, TypeOK
<1>3. CASE dlqs' = dlqs /\ Exit(p)
  <2>1. UNCHANGED serverVars
    BY <1>1, <1>3 DEF serverVars
  <2> QED
    BY <1>2, <1>3, <2>1, ExitInv
<1>4. CASE dlqs' = [dlqs EXCEPT ![DlqName(s)] = s] /\ dlqs[DlqName(s)] \in {None, s} /\ Proceed(p)
  <2>0. s \in Subscriptions /\ DlqName(s) \in DlqNames /\ s # None
    BY Typed
  <2>1. Advance(p) /\ LoggerTypeOK'
    BY <1>4, ProceedLogger
  <2>2. ~Running(p) /\ \A call : In(p, call) => call \in {"bus_dlq", "dlq"}
    BY <1>1, OneCall
  <2>3. Moved(p) /\ Through(p)
    BY <2>1, <2>2, AdvanceMoves DEF Running
  <2>4. /\ dlqs \in [DlqNames -> Subscriptions \union {None}]
        /\ dlqs' \in [DlqNames -> Subscriptions \union {None}]
        /\ dlqs'[DlqName(s)] = s
        /\ \A n \in DlqNames : n # DlqName(s) => dlqs'[n] = dlqs[n]
    BY <1>4, <2>0 DEF Inv, TypeOK
  <2>5. Monotone
    BY <1>1, <2>0, <2>4 DEF Monotone
  <2>6. Owned'
    <3>1. \A n : DlqName(n)' = DlqName(n)
      BY DEF DlqName
    <3>2. options' = options
      BY <2>3 DEF Moved
    <3>3. ASSUME NEW n \in DlqNames, dlqs'[n] # None
          PROVE  \E q \in Processes :
                    DlqName(options[q].subscription) = n /\ dlqs'[n] = options[q].subscription
      BY <2>4, <3>3 DEF Inv, Owned
    <3>4. \A t \in Subscriptions :
             consumers'[t] # 0 =>
                 \E q \in Processes :
                     options[q].subscription = t /\ options[q].max_deliver = consumers'[t]
      BY <1>1 DEF Inv, Owned
    <3>5. DlqNames' = DlqNames
      BY DEF DlqNames, DlqName
    <3> QED
      BY <3>1, <3>2, <3>3, <3>4, <3>5 DEF Owned
  <2>7. ServerInv'
    <3>1. DlqNames' = DlqNames
      BY DEF DlqNames, DlqName
    <3> QED
      BY <1>1, <2>4, <2>6, <3>1 DEF ServerInv, Inv, TypeOK
  <2>8. Effect(p)
    <3>1. ~In(p, "connect") /\ ~In(p, "bucket") /\ ~In(p, "build") /\ ~In(p, "stream") /\ ~In(p, "consumer")
      BY <2>2
    <3> QED
      BY <2>0, <2>4, <3>1 DEF Effect
  <2> QED
    BY <1>2, <2>1, <2>3, <2>5, <2>7, <2>8, StepInv
<1> QED
  BY <1>1, <1>3, <1>4

LEMMA CreateConsumerInv ==
    ASSUME Inv, NEW p \in Processes, CreateConsumer(p)
    PROVE  Inv'
<1> DEFINE s == options[p].subscription
           limit == options[p].max_deliver
<1>1. /\ streams' = streams /\ dlqs' = dlqs /\ bucket' = bucket /\ failures' = failures
      /\ In(p, "consumer")
      /\ \/ consumers' = [consumers EXCEPT ![s] = limit] /\ Proceed(p)
         \/ consumers' = consumers /\ Exit(p)
  BY DEF CreateConsumer
<1>2. failures' \in 0 .. MaxFailures
  BY <1>1 DEF Inv, TypeOK
<1>3. CASE consumers' = consumers /\ Exit(p)
  <2>1. UNCHANGED serverVars
    BY <1>1, <1>3 DEF serverVars
  <2> QED
    BY <1>2, <1>3, <2>1, ExitInv
<1>4. CASE consumers' = [consumers EXCEPT ![s] = limit] /\ Proceed(p)
  <2>0. s \in Subscriptions /\ limit \in Nat \ {0}
    BY Typed
  <2>1. Advance(p) /\ LoggerTypeOK'
    BY <1>4, ProceedLogger
  <2>2. ~Running(p) /\ \A call : In(p, call) => call = "consumer"
    BY <1>1, OneCall
  <2>3. Moved(p) /\ Through(p)
    BY <2>1, <2>2, AdvanceMoves DEF Running
  <2>4. /\ consumers' \in [Subscriptions -> Nat]
        /\ consumers'[s] = limit
        /\ \A t \in Subscriptions : t # s => consumers'[t] = consumers[t]
    BY <1>4, <2>0 DEF Inv, TypeOK
  <2>5. Monotone
    BY <1>1, <2>0, <2>4 DEF Monotone
  <2>6. Owned'
    <3>1. \A n : DlqName(n)' = DlqName(n)
      BY DEF DlqName
    <3>2. options' = options
      BY <2>3 DEF Moved
    <3>3. ASSUME NEW t \in Subscriptions, consumers'[t] # 0
          PROVE  \E q \in Processes :
                    options[q].subscription = t /\ options[q].max_deliver = consumers'[t]
      BY <2>4, <3>3 DEF Inv, Owned
    <3>4. \A n \in DlqNames :
             dlqs'[n] # None =>
                 \E q \in Processes :
                     DlqName(options[q].subscription) = n /\ dlqs'[n] = options[q].subscription
      BY <1>1 DEF Inv, Owned
    <3>5. DlqNames' = DlqNames
      BY DEF DlqNames, DlqName
    <3> QED
      BY <3>1, <3>2, <3>3, <3>4, <3>5 DEF Owned
  <2>7. ServerInv'
    <3>1. DlqNames' = DlqNames
      BY DEF DlqNames, DlqName
    <3> QED
      BY <1>1, <2>4, <2>6, <3>1 DEF ServerInv, Inv, TypeOK
  <2>8. Effect(p)
    <3>1. ~In(p, "connect") /\ ~In(p, "bucket") /\ ~In(p, "build") /\ ~In(p, "stream") /\ ~In(p, "dlq")
      BY <2>2
    <3> QED
      BY <2>0, <2>4, <3>1 DEF Effect
  <2> QED
    BY <1>2, <2>1, <2>3, <2>5, <2>7, <2>8, StepInv
<1> QED
  BY <1>1, <1>3, <1>4

LEMMA SpawnInv ==
    ASSUME Inv, NEW p \in Processes, SpawnLogger(p)
    PROVE  Inv'
<1>1. In(p, "logger") /\ Spawn /\ Advance(p) /\ UNCHANGED serverVars /\ failures' = failures
  BY DEF SpawnLogger
<1>2. LoggerTypeOK' /\ failures' \in 0 .. MaxFailures
  BY <1>1, LoggerTypes DEF Inv, TypeOK
<1>3. ~Running(p) /\ \A call : In(p, call) => call = "logger"
  BY <1>1, OneCall
<1>4. Effect(p)
  BY <1>3 DEF Effect
<1> QED
  BY <1>1, <1>2, <1>3, <1>4, AdvanceInv

LEMMA OpenBucketInv ==
    ASSUME Inv, NEW p \in Processes, OpenBucket(p)
    PROVE  Inv'
<1>1. /\ streams' = streams /\ consumers' = consumers /\ dlqs' = dlqs /\ failures' = failures
      /\ In(p, "bucket")
      /\ \/ bucket \in {None, options[p].max_age} /\ bucket' = options[p].max_age /\ Proceed(p)
         \/ bucket' = bucket /\ Exit(p)
  BY DEF OpenBucket
<1>2. failures' \in 0 .. MaxFailures
  BY <1>1 DEF Inv, TypeOK
<1>3. CASE bucket' = bucket /\ Exit(p)
  <2>1. UNCHANGED serverVars
    BY <1>1, <1>3 DEF serverVars
  <2> QED
    BY <1>2, <1>3, <2>1, ExitInv
<1>4. CASE bucket \in {None, options[p].max_age} /\ bucket' = options[p].max_age /\ Proceed(p)
  <2>1. Advance(p) /\ LoggerTypeOK'
    BY <1>4, ProceedLogger
  <2>2. ~Running(p) /\ \A call : In(p, call) => call = "bucket"
    BY <1>1, OneCall
  <2>3. Moved(p) /\ Through(p)
    BY <2>1, <2>2, AdvanceMoves DEF Running
  <2>4. Monotone
    BY <1>1, <1>4 DEF Monotone
  <2>5. Owned'
    <3>1. \A n : DlqName(n)' = DlqName(n)
      BY DEF DlqName
    <3> QED
      BY <1>1, <2>3, <3>1 DEF Moved, Inv, Owned
  <2>6. ServerInv'
    <3>1. options[p].max_age \in MaxAges
      BY Typed
    <3>2. DlqNames' = DlqNames
      BY DEF DlqNames, DlqName
    <3> QED
      BY <1>1, <1>4, <2>5, <3>1, <3>2 DEF ServerInv, Inv, TypeOK
  <2>7. Effect(p)
    <3>1. ~In(p, "connect") /\ ~In(p, "build") /\ ~In(p, "stream") /\ ~In(p, "consumer") /\ ~In(p, "dlq")
      BY <2>2
    <3> QED
      BY <1>4, <3>1 DEF Effect
  <2> QED
    BY <1>2, <2>1, <2>3, <2>4, <2>6, <2>7, StepInv
<1> QED
  BY <1>1, <1>3, <1>4

LEMMA GetStreamInv ==
    ASSUME Inv, NEW p \in Processes, GetStream(p)
    PROVE  Inv'
<1>1. In(p, "stream") /\ UNCHANGED serverVars /\ failures' = failures
  BY DEF GetStream
<1>2. failures' \in 0 .. MaxFailures
  BY <1>1 DEF Inv, TypeOK
<1>3. CASE options[p].subscription[1] \in streams
  <2>1. Advance(p) /\ LoggerTypeOK'
    BY <1>3, ProceedLogger DEF GetStream
  <2>2. ~Running(p) /\ \A call : In(p, call) => call = "stream"
    BY <1>1, OneCall
  <2>3. Effect(p)
    BY <1>1, <1>3, <2>2 DEF Effect, serverVars
  <2> QED
    BY <1>1, <1>2, <2>1, <2>2, <2>3, AdvanceInv
<1>4. CASE options[p].subscription[1] \notin streams
  <2>1. Exit(p)
    BY <1>4 DEF GetStream
  <2> QED
    BY <1>1, <1>2, <2>1, ExitInv
<1> QED
  BY <1>3, <1>4

\* A step of the logger, or none.
LEMMA LoggerInv ==
    ASSUME Inv, LoggerStep(Logger) \/ UNCHANGED vars
    PROVE  Inv'
<1>1. options' = options /\ at' = at /\ request' = request /\ UNCHANGED serverVars /\ failures' = failures
  BY DEF LoggerStep, vars
<1>2. LoggerTypeOK'
  BY LoggerTypes DEF LoggerStep, vars, Inv, TypeOK
<1>3. Monotone /\ ServerInv'
  BY <1>1, QuietServer
<1>4. \A q \in Processes : Main(q)' = Main(q)
  BY <1>1, SameMain
<1>5. \A q \in Processes : Provisioned(q)'
  <2>1. CASE Processes = {}
    BY <2>1
  <2>2. CASE Processes # {}
    <3>1. PICK p \in Processes : TRUE
      BY <2>2
    <3>2. \A q \in Processes : \A call : Past(q, call)' => Past(q, call)
      BY <1>1, <1>4 DEF Past
    <3> QED
      BY <1>1, <1>3, <3>1, <3>2, StillProvisioned
  <2> QED
    BY <2>1, <2>2
<1>6. BuildIsChecked'
  BY <1>1, <1>4 DEF Inv, BuildIsChecked, In
<1>7. DlqNames' = DlqNames
  BY DEF DlqNames, DlqName
<1>8. TypeOK'
  BY <1>1, <1>2, <1>3, <1>4, <1>7 DEF TypeOK, ServerInv, Inv
<1> QED
  BY <1>1, <1>3, <1>5, <1>6, <1>8 DEF Inv, ServerInv

\* Inv is inductive.
THEOREM Invariance == Spec => []Inv
<1>1. Init => Inv
  BY InitInv
<1>2. Inv /\ [Next]_vars => Inv'
  <2> SUFFICES ASSUME Inv, [Next]_vars
               PROVE  Inv'
    OBVIOUS
  <2>1. ASSUME NEW p \in Processes, Start(p)
        PROVE  Inv'
    BY <2>1, StartInv
  <2>2. ASSUME NEW p \in Processes, Stop(p) \/ Fail(p)
        PROVE  Inv'
    BY <2>2, StopInv
  <2>3. ASSUME NEW p \in Processes, Call(p)
        PROVE  Inv'
    BY <2>3, StopInv, InfoInv, CreateStreamInv, CreateDlqInv, CreateConsumerInv, SpawnInv,
       OpenBucketInv, GetStreamInv DEF Call
  <2>4. CASE LoggerStep(Logger) \/ UNCHANGED vars
    BY <2>4, LoggerInv
  <2> QED
    BY <2>1, <2>2, <2>3, <2>4 DEF Next
<1> QED
  BY <1>1, <1>2, PTL DEF Spec

-----------------------------------------------------------------------------

\* Every state of set-up has its types: a process is at a place of its program, each
\* DLQ stream captures the dead letters of one subscription, and the logger sleeps
\* for at least BACKOFF_INITIAL and at most BACKOFF_MAX.
THEOREM SetupTypes == Spec => []TypeOK
<1>1. Inv => TypeOK
  BY DEF Inv
<1> QED
  BY <1>1, Invariance, PTL

\* A subscription that runs has its streams, its durable with the limit of a process
\* that shares it, its bucket, and a DLQ stream that is its own or a namesake's, for
\* any processes, options, names, failures and crashes.
THEOREM RunningProvisioned == Spec => []RunningIsProvisioned
<1>1. Inv => RunningIsProvisioned
  <2> SUFFICES ASSUME Inv, NEW p \in Processes, Running(p)
               PROVE  LET o == options[p]
                          s == o.subscription
                      IN /\ o.complete
                         /\ {o.bus, s[1]} \subseteq streams
                         /\ consumers[s] \in Limits(s)
                         /\ bucket = o.max_age
                         /\ o.dlq # "none" =>
                               /\ dlqs[DlqName(s)] \in Namesakes(s)
                               /\ (\A q \in Processes :
                                      Len(options[q].subscription[1]) = Len(s[1]))
                                     => dlqs[DlqName(s)] = s
    BY Zenon DEF RunningIsProvisioned
  <2> DEFINE o == options[p]
             s == o.subscription
  <2>1. /\ s \in Subscriptions /\ DlqName(s) \in DlqNames
        /\ \A q \in Processes : options[q].subscription \in Subscriptions
    BY Typed
  <2>2. ASSUME NEW call, Has(Main(p), call)
        PROVE  Past(p, call)
    <3>1. Len(Main(p)) \in Nat /\ DOMAIN Main(p) = 1 .. Len(Main(p))
      BY MainLen
    <3> QED
      BY <2>2, <3>1 DEF Has, Past, Running
  <2>3. /\ Past(p, "connect") /\ Past(p, "bucket") /\ Past(p, "build")
        /\ Past(p, "stream") /\ Past(p, "consumer")
        /\ o.dlq # "none" => Past(p, "dlq")
    BY <2>2, MainCalls
  <2>4. Provisioned(p) /\ Owned
    BY DEF Inv
  <2>5. /\ o.complete
        /\ bucket = o.max_age
        /\ o.bus \in streams /\ s[1] \in streams
        /\ consumers[s] # 0
        /\ o.dlq # "none" => dlqs[DlqName(s)] # None
    BY <2>3, <2>4, Zenon DEF Provisioned
  <2>6. consumers[s] \in Limits(s)
    <3>1. PICK q \in Processes :
             options[q].subscription = s /\ options[q].max_deliver = consumers[s]
      BY <2>1, <2>4, <2>5 DEF Owned
    <3> QED
      BY <3>1 DEF Limits
  <2>7. ASSUME o.dlq # "none"
        PROVE  /\ dlqs[DlqName(s)] \in Namesakes(s)
               /\ (\A q \in Processes : Len(options[q].subscription[1]) = Len(s[1]))
                     => dlqs[DlqName(s)] = s
    <3>1. PICK q \in Processes :
             /\ DlqName(options[q].subscription) = DlqName(s)
             /\ dlqs[DlqName(s)] = options[q].subscription
      BY <2>1, <2>4, <2>5, <2>7 DEF Owned
    <3>2. dlqs[DlqName(s)] \in Namesakes(s)
      BY <3>1 DEF Namesakes
    <3>3. ASSUME \A r \in Processes : Len(options[r].subscription[1]) = Len(s[1])
          PROVE  dlqs[DlqName(s)] = s
      BY <2>1, <3>1, <3>3, NameDecodes
    <3> QED
      BY <3>2, <3>3
  <2>8. {o.bus, s[1]} \subseteq streams
    BY <2>5
  <2> QED
    BY <2>5, <2>6, <2>7, <2>8, Zenon
<1> QED
  BY <1>1, Invariance, PTL
=============================================================================
