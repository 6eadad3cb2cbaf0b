SPECIFICATION HookSpec
CONSTANTS
    Events = {e1, e2}
    Subs = {s1}
    NoKey = NoKey
    Dispatchers = {d1, d2}
    HookAttempts = 2
    HookBatch = 2
    HookTimeout = 1
    HookBackoff = 1
    MaxDeliver = 2
    Overrun = FALSE
    MaxCopies = 1
    MaxTurns = 1
SYMMETRY Symmetry
CHECK_DEADLOCK FALSE
INVARIANTS OnePagePerEvent KillSwitchHolds SuspensionHolds PostsBounded
PROPERTIES DeliveredIsFinal
