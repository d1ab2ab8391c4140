------------------------------ MODULE Publishing ------------------------------
(***************************************************************************)
(* From an event type to the stream: the derive gives events their         *)
(* subjects, and the program that it compiles publishes them.  Which of    *)
(* the stored events reach a handler is the matter of Subscriber.          *)
(***************************************************************************)
EXTENDS Publisher, DeriveEvent

CONSTANT
    FieldValue      \* the text of each field of each event

ASSUME FieldValueAssumption == FieldValue \in [Ids -> [Fields -> Seq(STRING)]]

pipelineVars == <<publisherVars, scanVars>>

PipelineTypeOK ==
    /\ TypeOK
    /\ verdict \in Verdicts

PipelineInit ==
    /\ Init
    /\ ScanInit

-----------------------------------------------------------------------------
Compile ==
    /\ Scan
    /\ UNCHANGED publisherVars

\* The program is built and run; of all templates, with those whose subjects are
\* in Subjects.
Start ==
    /\ verdict = "compiled"
    /\ \A id \in Ids : Subject(FieldValue[id]) \in Subjects
    /\ Deploy([id \in Ids |-> Subject(FieldValue[id])])
    /\ UNCHANGED scanVars

User(c) ==
    /\ Call(c) \/ GiveUp(c)
    /\ UNCHANGED scanVars

Publish(c) ==
    /\ Step(c)
    /\ UNCHANGED scanVars

Stream(id) ==
    /\ Server(id)
    /\ UNCHANGED scanVars

PipelineNext ==
    \/ Compile
    \/ Start
    \/ \E c \in Callers : User(c) \/ Publish(c)
    \/ \E id \in Ids : Stream(id)

PipelineSpec == PipelineInit /\ [][PipelineNext]_pipelineVars

\* The compiler and the tasks that publish run on.  The calls themselves are the
\* users' choice.
PipelineFairSpec ==
    /\ PipelineSpec
    /\ WF_pipelineVars(Compile)
    /\ \A c \in Callers : WF_pipelineVars(Publish(c))

-----------------------------------------------------------------------------
\* The subject of an event is what its template means, whatever the text of its
\* fields, and with stray braces in the template too.
SubjectsAreFaithful ==
    verdict = "compiled" =>
        \A id \in Ids : Subject(FieldValue[id]) = Meaning(template, FieldValue[id])
=============================================================================
