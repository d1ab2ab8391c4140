SPECIFICATION Spec
CONSTANTS
    d1 = d1
    d2 = d2
    w1 = w1
    w2 = w2
    w3 = w3
    id = id
    NoHeader = NoHeader
    NoMsg = NoMsg
    MsgIds = {id}
    Durables = {d1}
    Workers = {w1, w2}
    Subscription <- MCOneDurable
    Header <- MCDuplicated
    Seqs = {1, 2}
    Poison = {2}
    MaxDeliver = 2
    DeliveryCap = 2
    DlqDurables = {d1}
    Faults = {"store", "ack", "dlq", "info", "abort", "slow", "recreate"}
    MaxRecreations = 1
SYMMETRY MCSymmetry
VIEW MCView
INVARIANT TypeOK
INVARIANT NoRerun
INVARIANT OneOutcome
PROPERTY DoneIsPermanent
 
PROPERTY ImplementsEffectivelyOnce
PROPERTY KeepsStoreContract
CHECK_DEADLOCK FALSE
