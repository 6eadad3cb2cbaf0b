SPECIFICATION FanOutSpec
CONSTANTS
    Ingests = {i1}
    Events = {e1}
    NoMsg = NoMsg
    Attempts = {a1, a2}
    Reconcilers = {r1, r2}
    OutboxAttempts = 2
    OutboxBatch = 2
    PerRow = 1
    RetryBase = 1
    RetryMax = 2
    Lapses = FALSE
    Overdue = 0
    MaxCopies = 1
    MaxMoves = 2
    Subs = {s1}
    NoKey = NoKey
    Dispatchers = {}
    HookAttempts = 1
    HookBatch = 1
    HookTimeout = 1
    HookBackoff = 1
    MaxDeliver = 1
    Overrun = FALSE
    MaxTurns = 0
CHECK_DEADLOCK FALSE
INVARIANTS NothingGoesSilently DeliveredLeavesNoRow GivenUpWhenSpent PeersDivideTheBacklog EventIsAccountedFor
PROPERTIES EventReachesTheQueue
