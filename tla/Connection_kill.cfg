SPECIFICATION Spec
CONSTANTS
    self = self
    Writers = {}
    Killers = {moderator}
    Cap = 1
INVARIANTS
    ServerSurvives
CHECK_DEADLOCK FALSE
