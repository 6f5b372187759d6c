SPECIFICATION Spec
CONSTANTS
    self = self
    Writers = {pinger}
    Killers = {moderator}
    Cap = 1
INVARIANTS
    TypeOK
    WaitGroupCounts
    ClosedOnce
    WaitersAreServed
    BufferGetsClosed
PROPERTIES
    WriteReturns
    KillReturns
    EndsForGood
CHECK_DEADLOCK FALSE
