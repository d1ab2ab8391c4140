SPECIFICATION FairSpec
CONSTANTS
    d1 = d1
    d2 = d2
    w1 = w1
    w2 = w2
    w3 = w3
    id = id
    NoHeader = NoHeader
    NoMsg = NoMsg
    MsgIds = {id}
    Durables = {d1}
    Workers = {w1, w2}
    Subscription <- MCOneDurable
    Header <- MCDuplicated
    Seqs = {1, 2}
    Poison = {2}
    MaxDeliver = 3
    DeliveryCap = 3
    DlqDurables = {d1}
    Faults = {"ack", "dlq", "early_expiry"}
    MaxRecreations = 0
INVARIANT PendingHasOwner
INVARIANT NoSilentLoss
PROPERTY EventuallyAccounted
CHECK_DEADLOCK FALSE
