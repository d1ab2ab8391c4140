------------------------------ MODULE Publisher ------------------------------
(***************************************************************************)
(* Publishing through the bus: NatsPublisher::publish                      *)
(* (bus-nats/src/publisher.rs), the sequential publish_batch of the trait  *)
(* (bus-core/src/publisher.rs), and the stream, which deduplicates by      *)
(* Nats-Msg-Id for duplicate_window.                                       *)
(*                                                                         *)
(* A caller that gets an error may publish its batch again, as often as it *)
(* likes: a publish is a batch of one event.  A caller that crashes and    *)
(* starts over, or drops the future of publish, is one that got an error.  *)
(***************************************************************************)
EXTENDS Naturals, Sequences, FiniteSets

CONSTANTS
    Callers,        \* tasks, of one process or several, that publish
    Ids,            \* message ids
    Batch,          \* the events each caller publishes
    Unserializable, \* events that serde_json rejects
    Subjects,       \* subjects of events
    StreamSubjects, \* those that StreamConfig::subjects captures
    NoSubject,
    NoAck,
    Covered,        \* ids whose retries end within duplicate_window
    MaxLog,         \* bound on the length of the stream, for model checking
    MaxFailures     \* bound on failing calls, for model checking

ASSUME BatchAssumption == Batch \in [Callers -> Seq(Ids)]
ASSUME SubjectsAssumption == StreamSubjects \subseteq Subjects /\ NoSubject \notin Subjects
ASSUME CoveredAssumption == Covered \subseteq Ids
ASSUME BoundsAssumption == MaxLog \in Nat /\ MaxFailures \in Nat

Receipts == [sequence : Nat, duplicate : BOOLEAN]
ASSUME NoAckAssumption == NoAck \notin Receipts

VARIABLES
    subject,    \* what event.subject() returns, once there is a program
    log,        \* the stream: log[n] is the event with sequence n
    window,     \* id -> its sequence while the server remembers it, or 0
    pc,         \* the await each caller is at
    receipts,   \* what publish_batch has collected in this call
    ack,        \* PubAck on its way to the caller
    late,       \* requests under way whose caller stopped waiting
    failures    \* failing calls so far

stream == <<log, window>>
publisherVars == <<subject, log, window, pc, receipts, ack, late, failures>>

PCs == {"idle", "send", "wait", "ok", "err", "gave_up"}

Deployed == \A id \in Ids : subject[id] # NoSubject
Captured(id) == subject[id] \in StreamSubjects

TypeOK ==
    /\ subject \in [Ids -> Subjects \union {NoSubject}]
    /\ log \in Seq(Ids)
    /\ window \in [Ids -> 0 .. Len(log)]
    /\ pc \in [Callers -> PCs]
    /\ receipts \in [Callers -> Seq(Receipts)]
    /\ ack \in [Callers -> Receipts \union {NoAck}]
    /\ late \in [Ids -> Nat]
    /\ failures \in 0 .. MaxFailures
    /\ \A c \in Callers : pc[c] \in {"send", "wait"} => Len(receipts[c]) < Len(Batch[c])

Init ==
    /\ subject = [id \in Ids |-> NoSubject]
    /\ log = <<>>
    /\ window = [id \in Ids |-> 0]
    /\ pc = [c \in Callers |-> "idle"]
    /\ receipts = [c \in Callers |-> <<>>]
    /\ ack = [c \in Callers |-> NoAck]
    /\ late = [id \in Ids |-> 0]
    /\ failures = 0

-----------------------------------------------------------------------------
(* The server *)

\* Mutant: a duplicate is answered with the end of the stream.
AnswerLast(id) ==
    [sequence |-> IF window[id] # 0 THEN Len(log) ELSE Len(log) + 1,
     duplicate |-> window[id] # 0]

\* A duplicate is answered with the sequence of the copy that is stored.
Answer(id) ==
    IF window[id] # 0
    THEN [sequence |-> window[id], duplicate |-> TRUE]
    ELSE [sequence |-> Len(log) + 1, duplicate |-> FALSE]

\* Mutant: the stream is not configured to deduplicate.
StoreAlways(id) ==
    /\ log' = Append(log, id)
    /\ window' = [window EXCEPT ![id] = Len(log) + 1]

Store(id) ==
    IF window[id] # 0
    THEN UNCHANGED stream
    ELSE /\ log' = Append(log, id)
         /\ window' = [window EXCEPT ![id] = Len(log) + 1]

-----------------------------------------------------------------------------
(* The caller *)

Goto(c, label) == pc' = [pc EXCEPT ![c] = label]

Fail ==
    /\ failures < MaxFailures
    /\ failures' = failures + 1

Current(c) == Batch[c][Len(receipts[c]) + 1]

\* The call returns an error; `?` drops what it has collected.
ReturnError(c) ==
    /\ Goto(c, "err")
    /\ receipts' = [receipts EXCEPT ![c] = <<>>]

\* There is a program whose events have these subjects.
Deploy(subjects) ==
    /\ ~Deployed
    /\ subject' = subjects
    /\ UNCHANGED <<stream, pc, receipts, ack, late, failures>>

Call(c) ==
    /\ Deployed
    /\ pc[c] \in {"idle", "err"}
    /\ Goto(c, IF Batch[c] = <<>> THEN "ok" ELSE "send")
    /\ UNCHANGED <<subject, stream, receipts, ack, late, failures>>

\* The user does not retry.
GiveUp(c) ==
    /\ pc[c] = "err"
    /\ Goto(c, "gave_up")
    /\ UNCHANGED <<subject, stream, receipts, ack, late, failures>>

SerdeError(c) ==
    /\ pc[c] = "send"
    /\ Current(c) \in Unserializable
    /\ ReturnError(c)
    /\ UNCHANGED <<subject, stream, ack, late, failures>>

Send(c) ==
    /\ pc[c] = "send"
    /\ Current(c) \notin Unserializable
    /\ Goto(c, "wait")
    /\ UNCHANGED <<subject, stream, receipts, ack, late, failures>>

\* publish_with_headers itself fails: nothing was sent.
SendFails(c) ==
    /\ pc[c] = "send"
    /\ Current(c) \notin Unserializable
    /\ Fail
    /\ ReturnError(c)
    /\ UNCHANGED <<subject, stream, ack, late>>

Arrives(c) ==
    /\ pc[c] = "wait"
    /\ ack[c] = NoAck
    /\ Captured(Current(c))
    /\ Store(Current(c))
    /\ ack' = [ack EXCEPT ![c] = Answer(Current(c))]
    /\ UNCHANGED <<subject, pc, receipts, late, failures>>

\* Mutant: the call goes on waiting.
RefusedHangs(c) ==
    /\ pc[c] = "wait"
    /\ ack[c] = NoAck
    /\ ~Captured(Current(c))
    /\ UNCHANGED publisherVars

\* No stream captures the subject.
Refused(c) ==
    /\ pc[c] = "wait"
    /\ ack[c] = NoAck
    /\ ~Captured(Current(c))
    /\ ReturnError(c)
    /\ UNCHANGED <<subject, stream, ack, late, failures>>

\* Mutant: the batch goes on behind its last event.
NextEventBeyond(c) == IF Len(receipts[c]) = Len(Batch[c]) THEN "ok" ELSE "send"

\* Mutant: the batch is over one event too early.
NextEventEarly(c) == IF Len(receipts[c]) + 2 >= Len(Batch[c]) THEN "ok" ELSE "send"

NextEvent(c) == IF Len(receipts[c]) + 1 = Len(Batch[c]) THEN "ok" ELSE "send"

\* Mutant: a duplicate is an error.
AcknowledgedOnce(c) ==
    /\ pc[c] = "wait"
    /\ ack[c] # NoAck
    /\ IF ack[c].duplicate
       THEN ReturnError(c)
       ELSE /\ Goto(c, NextEvent(c))
            /\ receipts' = [receipts EXCEPT ![c] = Append(@, ack[c])]
    /\ ack' = [ack EXCEPT ![c] = NoAck]
    /\ UNCHANGED <<subject, stream, late, failures>>

Acknowledged(c) ==
    /\ pc[c] = "wait"
    /\ ack[c] # NoAck
    /\ Goto(c, NextEvent(c))
    /\ receipts' = [receipts EXCEPT ![c] = Append(@, ack[c])]
    /\ ack' = [ack EXCEPT ![c] = NoAck]
    /\ UNCHANGED <<subject, stream, late, failures>>

\* Mutant: the failed publish is skipped and the batch goes on.
AckFailsSkips(c) ==
    /\ pc[c] = "wait"
    /\ Fail
    /\ Goto(c, NextEvent(c))
    /\ receipts' = [receipts EXCEPT ![c] = Append(@, Answer(Current(c)))]
    /\ ack' = [ack EXCEPT ![c] = NoAck]
    /\ UNCHANGED <<subject, stream, late>>

\* The ack does not come: it is lost, or the request is, or the request is
\* still under way.
AckFails(c) ==
    /\ pc[c] = "wait"
    /\ Fail
    /\ ReturnError(c)
    /\ ack' = [ack EXCEPT ![c] = NoAck]
    /\ \/ UNCHANGED late
       \/ /\ ack[c] = NoAck
          /\ late' = [late EXCEPT ![Current(c)] = @ + 1]
    /\ UNCHANGED <<subject, stream>>

-----------------------------------------------------------------------------
(* What else happens at the server *)

LateArrives(id) ==
    /\ late[id] > 0
    /\ Captured(id)
    /\ Store(id)
    /\ late' = [late EXCEPT ![id] = @ - 1]
    /\ UNCHANGED <<subject, pc, receipts, ack, failures>>

LateLost(id) ==
    /\ late[id] > 0
    /\ late' = [late EXCEPT ![id] = @ - 1]
    /\ UNCHANGED <<subject, stream, pc, receipts, ack, failures>>

\* Somebody may still publish the event.
Retrying(id) ==
    \/ late[id] > 0
    \/ \E c \in Callers :
          /\ pc[c] \notin {"ok", "gave_up"}
          /\ \E i \in DOMAIN Batch[c] : Batch[c][i] = id

\* duplicate_window ends.  Every id without an entry can be stored once more,
\* which bounds the log.
WindowEnds(id) ==
    /\ window[id] # 0
    /\ id \in Covered => ~Retrying(id)
    /\ Len(log) + Cardinality({i \in Ids : window[i] = 0}) < MaxLog
    /\ window' = [window EXCEPT ![id] = 0]
    /\ UNCHANGED <<subject, log, pc, receipts, ack, late, failures>>

-----------------------------------------------------------------------------
Step(c) ==
    \/ SerdeError(c) \/ Send(c) \/ SendFails(c) \/ Arrives(c) \/ Refused(c)
    \/ Acknowledged(c) \/ AckFails(c)

Server(id) == LateArrives(id) \/ LateLost(id) \/ WindowEnds(id)

Next ==
    \/ \E subjects \in [Ids -> Subjects] : Deploy(subjects)
    \/ \E c \in Callers : Call(c) \/ GiveUp(c) \/ Step(c)
    \/ \E id \in Ids : Server(id)

Spec == Init /\ [][Next]_publisherVars

\* Every await of publish ends, by an answer or the client's timeout.
Fairness == \A c \in Callers : WF_publisherVars(Step(c))

FairSpec == Spec /\ Fairness

CallersRetry == \A c \in Callers : WF_publisherVars(Call(c))

-----------------------------------------------------------------------------
(* What publishing promises *)

\* An event whose retries end within the window is in the stream once, however
\* many callers publish it, retry, give up, or leave requests behind that the
\* server receives later.
OneCopyPerId ==
    \A i, j \in DOMAIN log : log[i] = log[j] /\ log[i] \in Covered => i = j

\* Receipts of one event are the same whoever gets them: each names a copy of its
\* event, and one receipt at most of a copy says that it is not a duplicate.  Ok
\* stands for a receipt of every event.
ReceiptsAreTrue ==
    /\ \A c \in Callers : pc[c] = "ok" => Len(receipts[c]) = Len(Batch[c])
    /\ \A c \in Callers : \A i \in DOMAIN receipts[c] :
          /\ receipts[c][i].sequence \in DOMAIN log
          /\ log[receipts[c][i].sequence] = Batch[c][i]
    /\ \A c, d \in Callers : \A i \in DOMAIN receipts[c], j \in DOMAIN receipts[d] :
          receipts[c][i].sequence = receipts[d][j].sequence
             => receipts[c][i].duplicate \/ receipts[d][j].duplicate \/ <<c, i>> = <<d, j>>

\* Every batch with y has x before it.
Precedes(x, y) ==
    \A c \in Callers : \A j \in DOMAIN Batch[c] :
        Batch[c][j] = y => \E i \in 1 .. j - 1 : Batch[c][i] = x

\* A batch is stored in its order, also when it stops half way, is published
\* again, and late requests come in after later events.
BatchIsOrdered ==
    \A j \in DOMAIN log : \A x \in Ids :
        Precedes(x, log[j]) => \E i \in 1 .. j - 1 : log[i] = x

\* A call that can only succeed is one whose events all serialize and are captured.
Publishable(c) ==
    \A i \in DOMAIN Batch[c] : Batch[c][i] \notin Unserializable /\ Captured(Batch[c][i])

\* Every call returns, with Ok or an error, whatever becomes of its requests ...
CallsReturn == \A c \in Callers : pc[c] \in {"send", "wait"} ~> pc[c] \in {"ok", "err"}

\* ... and a publishable batch gets through if its caller insists.
RetriesSucceed ==
    CallersRetry => \A c \in Callers :
        pc[c] # "idle" /\ Publishable(c) ~> pc[c] \in {"ok", "gave_up"}

\* Publishing is EventLog: append-only, once per covered id, in order, and confirmed
\* when stored.
Confirmed == {id \in Ids : \E c \in Callers :
                 pc[c] = "ok" /\ \E i \in DOMAIN Batch[c] : Batch[c][i] = id}

EL == INSTANCE EventLog WITH Once <- Covered, confirmed <- Confirmed

ImplementsEventLog == EL!Spec
=============================================================================
