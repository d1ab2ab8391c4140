SPECIFICATION FairSpec
CONSTANTS
    d1 = d1
    d2 = d2
    w1 = w1
    w2 = w2
    w3 = w3
    id = id
    NoHeader = NoHeader
    NoMsg = NoMsg
    MsgIds = {id}
    Durables = {d1, d2}
    Workers = {w1, w2, w3}
    Subscription <- MCTwoDurables
    Header <- MCDuplicated
    Seqs = {1}
    Poison = {}
    MaxDeliver = 2
    DeliveryCap = 2
    DlqDurables = {d1}
    Faults = {"store", "ack", "dlq", "info", "abort", "slow", "expiry"}
    MaxRecreations = 0
INVARIANT HandlerExclusion
INVARIANT SettledIsAccounted
PROPERTY ComesToRest
CHECK_DEADLOCK FALSE
