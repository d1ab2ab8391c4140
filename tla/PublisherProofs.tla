--------------------------- MODULE PublisherProofs ---------------------------
(***************************************************************************)
(* Theorems about Publisher, for any callers, events and batches.          *)
(*                                                                         *)
(* Known(c) is what a call has collected together with the ack on its way: *)
(* an ack that arrives changes nothing in it.                               *)
(***************************************************************************)
EXTENDS Publisher, TLAPS

Known(c) == IF ack[c] = NoAck THEN receipts[c] ELSE Append(receipts[c], ack[c])

Stored(id) == \E i \in DOMAIN log : log[i] = id

\* Only a call that waits has an ack, only one that publishes has receipts.
CallInv ==
    \A c \in Callers :
        /\ ack[c] # NoAck => pc[c] = "wait"
        /\ pc[c] \in {"idle", "err", "gave_up"} => receipts[c] = <<>>
        /\ pc[c] = "ok" => Len(receipts[c]) = Len(Batch[c])
        /\ Len(receipts[c]) <= Len(Batch[c])

\* An entry of the window is a copy of its id.
WindowInv == \A id \in Ids : window[id] # 0 => log[window[id]] = id

\* A covered event that somebody may still publish and that is stored is remembered.
CoverInv ==
    \A id \in Covered : Stored(id) /\ Retrying(id) => window[id] # 0

\* What a call knows is true, and a copy is new to one call.
KnownInv ==
    /\ \A c \in Callers : \A i \in DOMAIN Known(c) :
          /\ Known(c)[i].sequence \in DOMAIN log
          /\ log[Known(c)[i].sequence] = Batch[c][i]
    /\ \A c, d \in Callers : \A i \in DOMAIN Known(c), j \in DOMAIN Known(d) :
          Known(c)[i].sequence = Known(d)[j].sequence
             => Known(c)[i].duplicate \/ Known(d)[j].duplicate \/ <<c, i>> = <<d, j>>

\* What comes before an event that is under way is stored.
LateInv == \A y \in Ids : late[y] > 0 => \A x \in Ids : Precedes(x, y) => Stored(x)

Inv ==
    /\ TypeOK
    /\ CallInv
    /\ WindowInv
    /\ CoverInv
    /\ KnownInv
    /\ LateInv
    /\ OneCopyPerId
    /\ BatchIsOrdered

USE BatchAssumption, SubjectsAssumption, CoveredAssumption, BoundsAssumption, NoAckAssumption

-----------------------------------------------------------------------------
LEMMA InitInv == Init => Inv
<1> SUFFICES ASSUME Init PROVE Inv
  OBVIOUS
<1>1. TypeOK
  BY DEF Init, TypeOK, PCs, Receipts
<1>2. \A c \in Callers : Known(c) = <<>>
  BY DEF Init, Known
<1>3. CallInv /\ WindowInv /\ LateInv /\ OneCopyPerId /\ BatchIsOrdered
  BY DEF Init, CallInv, WindowInv, LateInv, OneCopyPerId, BatchIsOrdered
<1>4. CoverInv
  BY DEF Init, CoverInv, Stored
<1>5. KnownInv
  BY <1>2 DEF KnownInv
<1> QED
  BY <1>1, <1>3, <1>4, <1>5 DEF Inv

-----------------------------------------------------------------------------
(* What the actions have in common *)

LEMMA CurrentIs ==
    ASSUME TypeOK, NEW c \in Callers, pc[c] \in {"send", "wait"}
    PROVE  /\ Current(c) \in Ids
           /\ Len(receipts[c]) + 1 \in DOMAIN Batch[c]
           /\ Batch[c][Len(receipts[c]) + 1] = Current(c)
BY DEF TypeOK, Current

LEMMA TypeStep ==
    ASSUME TypeOK, CallInv, [Next]_publisherVars
    PROVE  TypeOK' /\ CallInv'
<1> USE DEF TypeOK, CallInv
<1>1. ASSUME NEW subjects \in [Ids -> Subjects], Deploy(subjects)
      PROVE  TypeOK' /\ CallInv'
  BY <1>1 DEF Deploy, stream
<1>2. ASSUME NEW c \in Callers, Call(c)
      PROVE  TypeOK' /\ CallInv'
  <2>1. pc' \in [Callers -> PCs]
    BY <1>2 DEF Call, Goto, PCs
  <2>2. receipts[c] = <<>> /\ Batch[c] \in Seq(Ids) /\ ack[c] = NoAck
    BY <1>2 DEF Call
  <2>3. pc'[c] = IF Batch[c] = <<>> THEN "ok" ELSE "send"
    BY <1>2 DEF Call, Goto
  <2>4. Batch[c] # <<>> => Len(receipts[c]) < Len(Batch[c])
    BY <2>2
  <2> QED
    BY <1>2, <2>1, <2>2, <2>3, <2>4 DEF Call, Goto, stream
<1>3. ASSUME NEW c \in Callers, GiveUp(c)
      PROVE  TypeOK' /\ CallInv'
  BY <1>3 DEF GiveUp, Goto, PCs, stream
<1>4. ASSUME NEW c \in Callers, SerdeError(c) \/ SendFails(c) \/ Refused(c)
      PROVE  TypeOK' /\ CallInv'
  <2>1. failures' \in 0 .. MaxFailures
    BY <1>4 DEF SerdeError, SendFails, Refused, Fail
  <2>2. /\ pc' = [pc EXCEPT ![c] = "err"] /\ receipts' = [receipts EXCEPT ![c] = <<>>]
        /\ UNCHANGED <<subject, log, window, late, ack>>
        /\ ack[c] = NoAck
    BY <1>4 DEF SerdeError, SendFails, Refused, ReturnError, Goto, stream
  <2>3. /\ pc' \in [Callers -> PCs] /\ receipts' \in [Callers -> Seq(Receipts)]
        /\ pc'[c] = "err" /\ receipts'[c] = <<>>
        /\ \A d \in Callers \ {c} : pc'[d] = pc[d] /\ receipts'[d] = receipts[d]
    BY <2>2 DEF PCs
  <2>4. Batch[c] \in Seq(Ids) /\ Len(<<>>) <= Len(Batch[c])
    OBVIOUS
  <2> QED
    BY <2>1, <2>2, <2>3, <2>4
<1>5. ASSUME NEW c \in Callers, Send(c)
      PROVE  TypeOK' /\ CallInv'
  BY <1>5 DEF Send, Goto, PCs, stream
<1>6. ASSUME NEW id \in Ids, Store(id)
      PROVE  /\ log' \in Seq(Ids) /\ window' \in [Ids -> 0 .. Len(log')]
             /\ Answer(id) \in Receipts /\ Answer(id) # NoAck
  <2>1. Len(log) \in Nat /\ window[id] \in Nat
    OBVIOUS
  <2>2. Answer(id) \in Receipts
    BY <2>1 DEF Answer, Receipts
  <2>3. CASE window[id] # 0
    BY <1>6, <2>2, <2>3 DEF Store, stream
  <2>4. CASE window[id] = 0
    <3>0. log' = Append(log, id)
      BY <1>6, <2>4 DEF Store
    <3>1. log' \in Seq(Ids) /\ Len(log') = Len(log) + 1
      BY <3>0
    <3>2. window' \in [Ids -> 0 .. Len(log')]
      BY <1>6, <2>4, <3>1, <2>1 DEF Store
    <3> QED
      BY <3>1, <3>2, <2>2
  <2> QED
    BY <2>3, <2>4
<1>7. ASSUME NEW c \in Callers, Arrives(c)
      PROVE  TypeOK' /\ CallInv'
  BY <1>6, <1>7, CurrentIs DEF Arrives
<1>8. ASSUME NEW c \in Callers, Acknowledged(c)
      PROVE  TypeOK' /\ CallInv'
  <2>1. /\ Batch[c] \in Seq(Ids) /\ ack[c] \in Receipts
        /\ receipts[c] \in Seq(Receipts) /\ Len(receipts[c]) < Len(Batch[c])
    BY <1>8 DEF Acknowledged
  <2>2. /\ receipts'[c] = Append(receipts[c], ack[c])
        /\ receipts'[c] \in Seq(Receipts) /\ Len(receipts'[c]) = Len(receipts[c]) + 1
    BY <1>8, <2>1 DEF Acknowledged
  <2>3. /\ Len(receipts'[c]) <= Len(Batch[c])
        /\ pc'[c] = IF Len(receipts'[c]) = Len(Batch[c]) THEN "ok" ELSE "send"
        /\ pc'[c] = "send" => Len(receipts'[c]) < Len(Batch[c])
    BY <1>8, <2>1, <2>2 DEF Acknowledged, NextEvent, Goto
  <2>4. /\ pc' \in [Callers -> PCs] /\ receipts' \in [Callers -> Seq(Receipts)]
        /\ ack' \in [Callers -> Receipts \union {NoAck}] /\ ack'[c] = NoAck
        /\ \A d \in Callers \ {c} : pc'[d] = pc[d] /\ receipts'[d] = receipts[d] /\ ack'[d] = ack[d]
        /\ UNCHANGED <<subject, log, window, late, failures>>
    BY <1>8, <2>2 DEF Acknowledged, NextEvent, Goto, PCs, stream
  <2> QED
    BY <2>2, <2>3, <2>4
<1>9. ASSUME NEW c \in Callers, AckFails(c)
      PROVE  TypeOK' /\ CallInv'
  <2>1. failures' \in 0 .. MaxFailures /\ late' \in [Ids -> Nat]
    BY <1>9, CurrentIs DEF AckFails, Fail
  <2> QED
    BY <1>9, <2>1 DEF AckFails, ReturnError, Goto, PCs, stream
<1>10. ASSUME NEW id \in Ids, LateArrives(id)
       PROVE  TypeOK' /\ CallInv'
  BY <1>6, <1>10 DEF LateArrives
<1>11. ASSUME NEW id \in Ids, LateLost(id) \/ WindowEnds(id)
       PROVE  TypeOK' /\ CallInv'
  BY <1>11 DEF LateLost, WindowEnds, stream
<1>12. CASE UNCHANGED publisherVars
  BY <1>12 DEF publisherVars
<1> QED
  BY <1>1, <1>2, <1>3, <1>4, <1>5, <1>7, <1>8, <1>9, <1>10, <1>11, <1>12 DEF Next, Step, Server

\* A request for this event is under way.
Requested(id) == late[id] > 0 \/ \E c \in Callers : pc[c] = "wait" /\ Current(c) = id

\* The copy of an event that is not remembered.
Appended(id) ==
    /\ window[id] = 0
    /\ log' = Append(log, id)
    /\ window' = [window EXCEPT ![id] = Len(log) + 1]
    /\ pc' = pc

LEMMA RequestedIsRetrying ==
    ASSUME Inv, NEW id \in Ids, Requested(id)
    PROVE  Retrying(id) /\ \A x \in Ids : Precedes(x, id) => Stored(x)
<1>1. CASE late[id] > 0
  BY <1>1 DEF Inv, LateInv, Retrying
<1>2. CASE \E c \in Callers : pc[c] = "wait" /\ Current(c) = id
  <2> PICK c \in Callers : pc[c] = "wait" /\ Current(c) = id
    BY <1>2
  <2>1. /\ Len(receipts[c]) + 1 \in DOMAIN Batch[c]
        /\ Batch[c][Len(receipts[c]) + 1] = id
    BY CurrentIs DEF Inv
  <2>2. Retrying(id)
    BY <2>1 DEF Retrying
  <2>3. ASSUME NEW x \in Ids, Precedes(x, id)
        PROVE  Stored(x)
    <3>1. PICK i \in 1 .. Len(receipts[c]) + 1 - 1 : Batch[c][i] = x
      BY <2>1, <2>3 DEF Precedes
    <3>2. i \in DOMAIN Known(c) /\ Known(c)[i] = receipts[c][i]
      BY <3>1 DEF Inv, TypeOK, Known
    <3>3. Known(c)[i].sequence \in DOMAIN log /\ log[Known(c)[i].sequence] = x
      BY <3>1, <3>2 DEF Inv, KnownInv
    <3> QED
      BY <3>3 DEF Stored
  <2> QED
    BY <2>2, <2>3
<1> QED
  BY <1>1, <1>2 DEF Requested

\* The log changes only by a copy of an event that is requested.
LEMMA LogStep ==
    ASSUME Inv, [Next]_publisherVars
    PROVE  \/ log' = log /\ window' = window
           \/ \E id \in Ids : WindowEnds(id)
           \/ \E id \in Ids : Requested(id) /\ Appended(id)
<1>1. CASE \E subjects \in [Ids -> Subjects] : Deploy(subjects)
  BY <1>1 DEF Deploy, stream
<1>2. ASSUME NEW c \in Callers, Call(c) \/ GiveUp(c) \/ Step(c), ~Arrives(c)
      PROVE  log' = log /\ window' = window
  BY <1>2 DEF Call, GiveUp, Step, SerdeError, Send, SendFails, Refused, Acknowledged,
              AckFails, stream
<1>3. ASSUME NEW c \in Callers, Arrives(c)
      PROVE  \/ log' = log /\ window' = window
             \/ \E id \in Ids : Requested(id) /\ Appended(id)
  BY <1>3, CurrentIs DEF Inv, Arrives, Store, Appended, Requested, stream
<1>4. ASSUME NEW id \in Ids, LateArrives(id)
      PROVE  \/ log' = log /\ window' = window
             \/ Requested(id) /\ Appended(id)
  BY <1>4 DEF LateArrives, Store, Appended, Requested, stream
<1>5. ASSUME NEW id \in Ids, LateLost(id)
      PROVE  log' = log /\ window' = window
  BY <1>5 DEF LateLost, stream
<1>6. CASE UNCHANGED publisherVars
  BY <1>6 DEF publisherVars
<1> QED
  BY <1>1, <1>2, <1>3, <1>4, <1>5, <1>6 DEF Next, Server

\* What is stored stays stored, where it is.
LEMMA LogGrows ==
    ASSUME Inv, [Next]_publisherVars
    PROVE  /\ log' \in Seq(Ids)
           /\ Len(log) <= Len(log')
           /\ \A i \in DOMAIN log : i \in DOMAIN log' /\ log'[i] = log[i]
           /\ \A id : Stored(id) => Stored(id)'
<1>1. CASE log' = log
  BY <1>1 DEF Inv, TypeOK, Stored
<1>2. ASSUME NEW id \in Ids, Appended(id)
      PROVE  /\ log' \in Seq(Ids)
             /\ Len(log') = Len(log) + 1
             /\ \A i \in DOMAIN log : i \in DOMAIN log' /\ log'[i] = log[i]
  BY <1>2 DEF Inv, TypeOK, Appended
<1>3. Len(log) \in Nat /\ log \in Seq(Ids)
  BY DEF Inv, TypeOK
<1>4. /\ log' \in Seq(Ids)
      /\ Len(log) <= Len(log')
      /\ \A i \in DOMAIN log : i \in DOMAIN log' /\ log'[i] = log[i]
  <2>1. CASE \E id \in Ids : WindowEnds(id)
    BY <1>3, <2>1 DEF WindowEnds
  <2>2. CASE \E id \in Ids : Appended(id)
    BY <1>2, <1>3, <2>2
  <2> QED
    BY <1>1, <1>3, <2>1, <2>2, LogStep
<1> QED
  BY <1>4 DEF Stored

\* Only a request that was under way is late.
LEMMA LateIsRequested ==
    ASSUME Inv, [Next]_publisherVars, NEW id \in Ids
    PROVE  late'[id] > 0 => Requested(id)
<1>1. late'[id] > late[id] => \E c \in Callers : pc[c] = "wait" /\ Current(c) = id
  <2>0. late \in [Ids -> Nat]
    BY DEF Inv, TypeOK
  <2>1. ASSUME NEW c \in Callers, AckFails(c)
        PROVE  late'[id] > late[id] => pc[c] = "wait" /\ Current(c) = id
    BY <2>0, <2>1, CurrentIs DEF Inv, AckFails
  <2>2. ASSUME NEW c \in Callers, Call(c) \/ GiveUp(c) \/ Step(c), ~AckFails(c)
        PROVE  late' = late
    BY <2>2 DEF Call, GiveUp, Step, SerdeError, Send, SendFails, Arrives, Refused, Acknowledged
  <2>3. ASSUME NEW x \in Ids, Server(x)
        PROVE  late'[id] <= late[id]
    BY <2>0, <2>3 DEF Server, LateArrives, LateLost, WindowEnds
  <2>4. late[id] \in Nat
    BY <2>0
  <2>5. CASE \E c \in Callers : AckFails(c)
    BY <2>1, <2>5
  <2>6. CASE \E x \in Ids : Server(x)
    BY <2>3, <2>4, <2>6, TypeStep DEF Inv, TypeOK
  <2> QED
    BY <2>2, <2>4, <2>5, <2>6 DEF Next, Step, Deploy, publisherVars
<1>2. late'[id] > 0 => late[id] > 0 \/ late'[id] > late[id]
  BY TypeStep DEF Inv, TypeOK
<1> QED
  BY <1>1, <1>2 DEF Requested

\* Whoever is through with an event stays so.
LEMMA RetryingFades ==
    ASSUME Inv, [Next]_publisherVars, NEW id \in Ids
    PROVE  Retrying(id)' => Retrying(id)
<1>1. ASSUME NEW c \in Callers
      PROVE  pc'[c] \notin {"ok", "gave_up"} => pc[c] \notin {"ok", "gave_up"}
  <2>1. ASSUME NEW d \in Callers, Call(d) \/ GiveUp(d) \/ Step(d)
        PROVE  /\ pc[d] \notin {"ok", "gave_up"}
               /\ c # d => pc'[c] = pc[c]
    BY <2>1 DEF Inv, TypeOK, Call, GiveUp, Step, SerdeError, Send, SendFails, Arrives,
                Refused, Acknowledged, AckFails, ReturnError, Goto
  <2>2. ASSUME NEW x \in Ids, Server(x)
        PROVE  pc' = pc
    BY <2>2 DEF Server, LateArrives, LateLost, WindowEnds
  <2> QED
    BY <2>1, <2>2 DEF Next, Deploy, publisherVars
<1> QED
  BY <1>1, LateIsRequested, RequestedIsRetrying DEF Retrying

-----------------------------------------------------------------------------
(* One lemma for each part of the invariant *)

LEMMA WindowStep ==
    ASSUME Inv, [Next]_publisherVars
    PROVE  WindowInv' /\ CoverInv'
<1>0. log \in Seq(Ids) /\ window \in [Ids -> 0 .. Len(log)] /\ Len(log) \in Nat
  BY DEF Inv, TypeOK
<1>1. WindowInv'
  <2>1. CASE log' = log /\ window' = window
    BY <2>1 DEF Inv, WindowInv
  <2>2. ASSUME NEW id \in Ids, WindowEnds(id) PROVE WindowInv'
    BY <1>0, <2>2 DEF Inv, WindowInv, WindowEnds
  <2>3. ASSUME NEW id \in Ids, Appended(id) PROVE WindowInv'
    <3>1. log'[Len(log) + 1] = id
      BY <1>0, <2>3 DEF Appended
    <3>2. window'[id] = Len(log) + 1 /\ \A x \in Ids \ {id} : window'[x] = window[x]
      BY <1>0, <2>3 DEF Appended
    <3> QED
      BY <1>0, <3>1, <3>2, LogGrows DEF Inv, WindowInv
  <2> QED
    BY <2>1, <2>2, <2>3, LogStep
<1>2. ASSUME NEW x \in Covered, Stored(x)', Retrying(x)'
      PROVE  window'[x] # 0
  <2>0. x \in Ids /\ Retrying(x)
    BY <1>2, RetryingFades
  <2>1. CASE log' = log /\ window' = window
    BY <1>2, <2>0, <2>1 DEF Inv, CoverInv, Stored
  <2>2. ASSUME NEW id \in Ids, WindowEnds(id) PROVE window'[x] # 0
    <3>1. id # x /\ Stored(x)
      BY <1>2, <2>0, <2>2 DEF WindowEnds, Stored
    <3> QED
      BY <1>0, <2>0, <2>2, <3>1 DEF Inv, CoverInv, WindowEnds
  <2>3. ASSUME NEW id \in Ids, Appended(id) PROVE window'[x] # 0
    <3>1. CASE id = x
      BY <1>0, <2>3, <3>1 DEF Appended
    <3>2. CASE id # x
      <4>1. Stored(x)
        BY <1>0, <1>2, <2>3, <3>2 DEF Stored, Appended
      <4> QED
        BY <1>0, <2>0, <2>3, <3>2, <4>1 DEF Inv, CoverInv, Appended
    <3> QED
      BY <3>1, <3>2
  <2> QED
    BY <2>1, <2>2, <2>3, LogStep
<1> QED
  BY <1>1, <1>2 DEF CoverInv

LEMMA LateStep ==
    ASSUME Inv, [Next]_publisherVars
    PROVE  LateInv'
<1> SUFFICES ASSUME NEW y \in Ids, late'[y] > 0, NEW x \in Ids, Precedes(x, y)
             PROVE  Stored(x)'
  BY DEF LateInv, Precedes
<1> QED
  BY LateIsRequested, RequestedIsRetrying, LogGrows

LEMMA LogInvStep ==
    ASSUME Inv, [Next]_publisherVars
    PROVE  OneCopyPerId' /\ BatchIsOrdered'
<1>0. log \in Seq(Ids) /\ Len(log) \in Nat
  BY DEF Inv, TypeOK
<1>1. CASE log' = log
  BY <1>1 DEF Inv, OneCopyPerId, BatchIsOrdered, Precedes
<1>2. ASSUME NEW id \in Ids, Requested(id), Appended(id)
      PROVE  OneCopyPerId' /\ BatchIsOrdered'
  <2>1. /\ DOMAIN log' = DOMAIN log \union {Len(log) + 1}
        /\ log'[Len(log) + 1] = id
        /\ \A i \in DOMAIN log : log'[i] = log[i] /\ i \in Nat /\ 1 <= i /\ i <= Len(log)
    BY <1>0, <1>2 DEF Appended
  <2>2. Retrying(id) /\ \A x \in Ids : Precedes(x, id) => Stored(x)
    BY <1>2, RequestedIsRetrying
  <2>3. id \in Covered => ~Stored(id)
    BY <1>2, <2>2 DEF Inv, CoverInv, Appended
  <2>4. OneCopyPerId'
    BY <2>1, <2>3 DEF Inv, OneCopyPerId, Stored
  <2>5. ASSUME NEW j \in DOMAIN log', NEW x \in Ids, Precedes(x, log'[j])
        PROVE  \E i \in 1 .. j - 1 : log'[i] = x
    <3>1. CASE j \in DOMAIN log
      <4>1. PICK i \in 1 .. j - 1 : log[i] = x
        BY <2>1, <2>5, <3>1 DEF Inv, BatchIsOrdered
      <4>2. i \in DOMAIN log
        BY <1>0, <2>1, <3>1
      <4> QED
        BY <2>1, <4>1, <4>2
    <3>2. CASE j = Len(log) + 1
      <4>1. PICK i \in DOMAIN log : log[i] = x
        BY <2>1, <2>2, <2>5, <3>2 DEF Stored
      <4> QED
        BY <1>0, <2>1, <3>2, <4>1
    <3> QED
      BY <2>1, <3>1, <3>2
  <2> QED
    BY <2>4, <2>5 DEF BatchIsOrdered, Precedes
<1> QED
  BY <1>1, <1>2, LogStep DEF WindowEnds

\* A call forgets what it knows, keeps it, or learns what the server has just done.
Learns(c) ==
    /\ pc[c] = "wait" /\ ack[c] = NoAck
    /\ Store(Current(c))
    /\ Known(c)' = Append(Known(c), Answer(Current(c)))
    /\ \A d \in Callers : d # c => Known(d)' = Known(d)

LEMMA KnownStep ==
    ASSUME Inv, [Next]_publisherVars
    PROVE  \/ \A d \in Callers : Known(d)' \in {Known(d), <<>>}
           \/ \E c \in Callers : Learns(c)
<1>0. /\ receipts \in [Callers -> Seq(Receipts)]
      /\ ack \in [Callers -> Receipts \union {NoAck}]
      /\ \A c \in Callers : ack[c] # NoAck => pc[c] = "wait"
  BY DEF Inv, TypeOK, CallInv
<1>1. CASE UNCHANGED <<receipts, ack>>
  BY <1>1 DEF Known
<1>2. ASSUME NEW c \in Callers, SerdeError(c) \/ SendFails(c) \/ Refused(c) \/ AckFails(c)
      PROVE  \A d \in Callers : Known(d)' \in {Known(d), <<>>}
  <2>1. receipts' = [receipts EXCEPT ![c] = <<>>]
    BY <1>2 DEF SerdeError, SendFails, Refused, AckFails, ReturnError
  <2>2. ack' = [ack EXCEPT ![c] = NoAck]
    BY <1>0, <1>2 DEF SerdeError, SendFails, Refused, AckFails
  <2> QED
    BY <1>0, <2>1, <2>2 DEF Known
<1>3. ASSUME NEW c \in Callers, Acknowledged(c)
      PROVE  \A d \in Callers : Known(d)' \in {Known(d), <<>>}
  BY <1>0, <1>3 DEF Acknowledged, Known
<1>4. ASSUME NEW c \in Callers, Arrives(c)
      PROVE  Learns(c)
  <2>1. Current(c) \in Ids
    BY <1>4, CurrentIs DEF Inv, Arrives
  <2>2. Answer(Current(c)) # NoAck
    <3>1. log \in Seq(Ids) /\ window[Current(c)] \in Nat
      BY <2>1 DEF Inv, TypeOK
    <3>2. Answer(Current(c)) \in Receipts
      BY <3>1 DEF Answer, Receipts
    <3> QED
      BY <3>2
  <2> QED
    BY <1>0, <1>4, <2>2 DEF Arrives, Learns, Known
<1> QED
  BY <1>1, <1>2, <1>3, <1>4
     DEF Next, Step, Server, Deploy, Call, GiveUp, Send, LateArrives, LateLost, WindowEnds,
         publisherVars

LEMMA KnownInvStep ==
    ASSUME Inv, [Next]_publisherVars
    PROVE  KnownInv'
<1>0. log \in Seq(Ids) /\ Len(log) \in Nat /\ window \in [Ids -> 0 .. Len(log)]
  BY DEF Inv, TypeOK
<1>1. CASE \A d \in Callers : Known(d)' \in {Known(d), <<>>}
  <2>1. ASSUME NEW c \in Callers, NEW i \in DOMAIN Known(c)'
        PROVE  Known(c)' = Known(c) /\ i \in DOMAIN Known(c)
    BY <1>1, <2>1
  <2> QED
    BY <2>1, LogGrows DEF Inv, KnownInv
<1>2. ASSUME NEW c \in Callers, Learns(c)
      PROVE  KnownInv'
  <2> DEFINE id == Current(c)
             n == Len(Known(c)) + 1
             a == Answer(id)
  <2>1. /\ id \in Ids /\ Batch[c][n] = id
        /\ Known(c) \in Seq(Receipts)
    BY <1>2, CurrentIs DEF Learns, Known, Inv, TypeOK
  <2>2. /\ a.sequence \in DOMAIN log' /\ log'[a.sequence] = id
        /\ a \in Receipts
        /\ ~a.duplicate => a.sequence = Len(log) + 1
    <3>1. CASE window[id] # 0
      <4>1. window[id] \in DOMAIN log /\ log[window[id]] = id
        BY <1>0, <2>1, <3>1 DEF Inv, WindowInv
      <4> QED
        BY <1>0, <2>1, <3>1, <4>1, LogGrows DEF Answer, Receipts
    <3>2. CASE window[id] = 0
      <4>1. log' = Append(log, id)
        BY <1>2, <3>2 DEF Learns, Store
      <4> QED
        BY <1>0, <2>1, <3>2, <4>1 DEF Answer, Receipts
    <3> QED
      BY <3>1, <3>2
  <2>3. /\ DOMAIN Known(c)' = DOMAIN Known(c) \union {n}
        /\ Known(c)'[n] = a
        /\ \A i \in DOMAIN Known(c) : Known(c)'[i] = Known(c)[i] /\ i # n
        /\ \A d \in Callers : d # c => Known(d)' = Known(d)
    BY <1>2, <2>1, <2>2 DEF Learns
  <2> HIDE DEF id, n, a
  <2>4. ASSUME NEW d \in Callers, NEW i \in DOMAIN Known(d)'
        PROVE  \/ d = c /\ i = n /\ Known(d)'[i] = a
               \/ /\ i \in DOMAIN Known(d) /\ Known(d)'[i] = Known(d)[i]
                  /\ Known(d)[i].sequence \in DOMAIN log
                  /\ log[Known(d)[i].sequence] = Batch[d][i]
    BY <2>3 DEF Inv, KnownInv
  <2>5. ASSUME NEW d \in Callers, NEW i \in DOMAIN Known(d)'
        PROVE  Known(d)'[i].sequence \in DOMAIN log' /\ log'[Known(d)'[i].sequence] = Batch[d][i]
    BY <2>1, <2>2, <2>4, LogGrows
  <2>6. ASSUME NEW d \in Callers, NEW e \in Callers,
               NEW i \in DOMAIN Known(d)', NEW j \in DOMAIN Known(e)',
               Known(d)'[i].sequence = Known(e)'[j].sequence,
               ~Known(d)'[i].duplicate, ~Known(e)'[j].duplicate
        PROVE  <<d, i>> = <<e, j>>
    <3>1. Len(log) + 1 \notin DOMAIN log
      BY <1>0
    <3>2. CASE Known(d)'[i] = a /\ d = c /\ i = n
      BY <2>2, <2>4, <2>6, <3>1, <3>2
    <3>3. CASE Known(e)'[j] = a /\ e = c /\ j = n
      BY <2>2, <2>4, <2>6, <3>1, <3>3
    <3>4. CASE /\ i \in DOMAIN Known(d) /\ Known(d)'[i] = Known(d)[i]
               /\ j \in DOMAIN Known(e) /\ Known(e)'[j] = Known(e)[j]
      BY <2>6, <3>4 DEF Inv, KnownInv
    <3> QED
      BY <2>4, <3>2, <3>3, <3>4
  <2> QED
    BY <2>5, <2>6 DEF KnownInv
<1> QED
  BY <1>1, <1>2, KnownStep

-----------------------------------------------------------------------------
\* The inductive invariant, types included.
THEOREM PublisherIsSafe == Spec => []Inv
<1>1. Inv /\ [Next]_publisherVars => Inv'
  BY TypeStep, WindowStep, LateStep, LogInvStep, KnownInvStep DEF Inv
<1> QED
  BY <1>1, InitInv, PTL DEF Spec

\* The stream has one copy of every event whose retries end within the window.
THEOREM OneCopy == Spec => []OneCopyPerId
BY PublisherIsSafe, PTL DEF Inv

\* Batches are stored in their order.
THEOREM OrderedBatches == Spec => []BatchIsOrdered
BY PublisherIsSafe, PTL DEF Inv

LEMMA KnownReceipts == Inv => ReceiptsAreTrue
<1> SUFFICES ASSUME Inv PROVE ReceiptsAreTrue
  OBVIOUS
<1>1. ASSUME NEW c \in Callers, NEW i \in DOMAIN receipts[c]
      PROVE  i \in DOMAIN Known(c) /\ Known(c)[i] = receipts[c][i]
  BY <1>1 DEF Inv, TypeOK, Known
<1> QED
  BY <1>1 DEF Inv, CallInv, KnownInv, ReceiptsAreTrue

\* Receipts name copies of their events, and one receipt names a copy as its own.
THEOREM TrueReceipts == Spec => []ReceiptsAreTrue
BY PublisherIsSafe, KnownReceipts, PTL

-----------------------------------------------------------------------------
(* Publishing implements EventLog *)

\* A confirmed event is stored.
LEMMA ConfirmedIsStored == Inv => \A id \in Confirmed : Stored(id)
<1> SUFFICES ASSUME Inv, NEW id \in Confirmed PROVE Stored(id)
  OBVIOUS
<1>1. PICK c \in Callers : pc[c] = "ok" /\ \E i \in DOMAIN Batch[c] : Batch[c][i] = id
  BY DEF Confirmed
<1>2. PICK i \in DOMAIN Batch[c] : Batch[c][i] = id
  BY <1>1
<1>3. i \in DOMAIN Known(c)
  BY <1>1, <1>2 DEF Inv, TypeOK, CallInv, Known
<1> QED
  BY <1>2, <1>3 DEF Inv, KnownInv, Stored

LEMMA ConfirmedIsStoredNext == Inv' => (\A id \in Confirmed : Stored(id))'
BY ConfirmedIsStored, PTL

\* What is confirmed stays confirmed.
LEMMA ConfirmedGrows ==
    ASSUME Inv, [Next]_publisherVars
    PROVE  Confirmed \subseteq Confirmed'
<1>1. ASSUME NEW c \in Callers, pc[c] = "ok"
      PROVE  pc'[c] = "ok"
  BY <1>1
     DEF Inv, TypeOK, Next, Deploy, Call, GiveUp, Step, SerdeError, Send, SendFails, Arrives,
         Refused, Acknowledged, AckFails, ReturnError, Goto, Server, LateArrives, LateLost,
         WindowEnds, publisherVars
<1> QED
  BY <1>1 DEF Confirmed

LEMMA StepRefines ==
    ASSUME Inv, [Next]_publisherVars, Inv'
    PROVE  [EL!Next]_(EL!vars)
<1>1. CASE log' = log
  <2>1. Confirmed' \in SUBSET Ids /\ Confirmed' = Confirmed \union Confirmed'
    BY ConfirmedGrows DEF Confirmed
  <2>2. \A id \in Confirmed' : Stored(id)
    BY <1>1, ConfirmedIsStoredNext DEF Stored
  <2> QED
    BY <1>1, <2>1, <2>2 DEF EL!Next, EL!Confirm, EL!Stored, Stored
<1>2. ASSUME NEW id \in Ids, Requested(id), Appended(id)
      PROVE  EL!Store(id)
  <2>1. Retrying(id) /\ \A x \in Ids : Precedes(x, id) => Stored(x)
    BY <1>2, RequestedIsRetrying
  <2>2. id \in Covered => ~Stored(id)
    BY <1>2, <2>1 DEF Inv, CoverInv, Appended
  <2>3. Confirmed' = Confirmed
    BY <1>2 DEF Appended, Confirmed
  <2> QED
    BY <1>2, <2>1, <2>2, <2>3 DEF EL!Store, EL!Stored, Stored, Appended
<1> QED
  BY <1>1, <1>2, LogStep DEF EL!Next, WindowEnds

\* Whatever callers and the network do, the stream is an append-only log with one
\* copy of each covered event, ordered, and confirmed events are in it.
THEOREM PublisherImplementsLog == Spec => ImplementsEventLog
<1>1. Init => EL!Init
  BY DEF Init, EL!Init, Confirmed
<1>2. Inv /\ [Next]_publisherVars /\ Inv' => [EL!Next]_(EL!vars)
  BY StepRefines
<1> QED
  BY <1>1, <1>2, PublisherIsSafe, PTL DEF Spec, EL!Spec, ImplementsEventLog
=============================================================================
