SPECIFICATION PipelineFairSpec
CONSTANTS
    a = a
    b = b
    broken = broken
    c1 = c1
    c2 = c2
    Callers = {c1, c2}
    Ids = {a, b, broken}
    Batch <- MCBatch
    Unserializable = {broken}
    Subjects <- MCSubjects
    StreamSubjects <- MCStreamSubjects
    NoSubject = NoSubject
    NoAck = NoAck
    Covered = {a, broken}
    MaxLog = 4
    MaxFailures = 2
    Texts = {"orders.", "."}
    Names = {"region", "id", "unknown"}
    Fields = {"region", "id"}
    Templates <- MCTemplates
    FieldValue <- MCFieldValue
INVARIANT PipelineTypeOK
INVARIANT OneCopyPerId
INVARIANT ReceiptsAreTrue
INVARIANT BatchIsOrdered
INVARIANT DeriveAcceptsTemplates
INVARIANT SubjectsAreFaithful
PROPERTY CallsReturn
PROPERTY RetriesSucceed
PROPERTY ImplementsEventLog
CHECK_DEADLOCK FALSE
