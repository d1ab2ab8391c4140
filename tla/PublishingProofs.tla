--------------------------- MODULE PublishingProofs ---------------------------
(***************************************************************************)
(* What is proved of Publisher and of the derive holds of the whole        *)
(* pipeline: its steps are steps of one of them or none of their business. *)
(***************************************************************************)
EXTENDS Publishing, PublisherProofs, DeriveEventProofs

LEMMA PipelineStep ==
    PipelineNext => [Next]_publisherVars
<1> SUFFICES ASSUME PipelineNext PROVE [Next]_publisherVars
  OBVIOUS
<1>1. CASE Compile
  BY <1>1 DEF Compile
<1>2. CASE Start
  <2>1. [id \in Ids |-> Subject(FieldValue[id])] \in [Ids -> Subjects]
    BY <1>2 DEF Start
  <2> QED
    BY <1>2, <2>1 DEF Start, Next
<1>3. ASSUME NEW c \in Callers, User(c) \/ Publish(c)
      PROVE  Next
  BY <1>3 DEF User, Publish, Next
<1>4. ASSUME NEW id \in Ids, Stream(id)
      PROVE  Next
  BY <1>4 DEF Stream, Next
<1> QED
  BY <1>1, <1>2, <1>3, <1>4 DEF PipelineNext

\* The pipeline is a publisher, once its program is built.
THEOREM PipelineIsPublisher == PipelineSpec => Spec
<1>1. PipelineInit => Init
  BY DEF PipelineInit
<1>2. [PipelineNext]_pipelineVars => [Next]_publisherVars
  BY PipelineStep DEF pipelineVars
<1> QED
  BY <1>1, <1>2, PTL DEF PipelineSpec, Spec

\* One copy, in order, true receipts: in the pipeline as well.
THEOREM PipelineIsSafe ==
    PipelineSpec => [](OneCopyPerId /\ BatchIsOrdered /\ ReceiptsAreTrue)
BY PipelineIsPublisher, OneCopy, OrderedBatches, TrueReceipts, PTL

\* The pipeline keeps the log that EventLog promises.
THEOREM PipelineImplementsLog == PipelineSpec => ImplementsEventLog
BY PipelineIsPublisher, PublisherImplementsLog, PTL

VerdictTypeOK == verdict \in Verdicts

\* Type correctness of the pipeline.
THEOREM PipelineTypeCorrect == PipelineSpec => []PipelineTypeOK
<1>1. PipelineInit => VerdictTypeOK
  BY DEF PipelineInit, ScanInit, VerdictTypeOK, Verdicts
<1>2. VerdictTypeOK /\ [PipelineNext]_pipelineVars => VerdictTypeOK'
  <2> SUFFICES ASSUME VerdictTypeOK, [PipelineNext]_pipelineVars
               PROVE  VerdictTypeOK'
    OBVIOUS
  <2>1. CASE Scan
    BY <2>1 DEF VerdictTypeOK, Scan, Unclosed, Interpolate, Finish, Reject, Verdicts
  <2>2. CASE UNCHANGED verdict
    BY <2>2 DEF VerdictTypeOK
  <2> QED
    BY <2>1, <2>2
       DEF PipelineNext, Compile, Start, User, Publish, Stream, scanVars, pipelineVars
<1>3. Inv /\ VerdictTypeOK => PipelineTypeOK
  BY DEF Inv, VerdictTypeOK, PipelineTypeOK
<1> QED
  BY <1>1, <1>2, <1>3, PipelineIsPublisher, PublisherIsSafe, PTL DEF PipelineSpec

\* To the derive, the pipeline is one run of the macro.
THEOREM PipelineIsDerive == PipelineSpec => ScanSpec
<1>1. PipelineInit => ScanInit
  BY DEF PipelineInit
<1>2. [PipelineNext]_pipelineVars => [Scan]_scanVars
  BY DEF PipelineNext, pipelineVars, Compile, Start, User, Publish, Stream
<1> QED
  BY <1>1, <1>2, PTL DEF PipelineSpec, ScanSpec

\* A template compiles if it has a meaning, and events have the subjects their
\* template means.
THEOREM PipelineSubjects ==
    PipelineSpec => [](DeriveAcceptsTemplates /\ SubjectsAreFaithful)
<1>1. Faithful => SubjectsAreFaithful
  BY FieldValueAssumption DEF Faithful, SubjectsAreFaithful
<1> QED
  BY <1>1, PipelineIsDerive, DeriveIsRight, PTL
=============================================================================
