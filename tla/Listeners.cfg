SPECIFICATION Spec
CONSTANTS
    Callers = {hup, rehash}
    Certs = {old, new, broken}
    Valid = {old, new}
    None = None
    Absent = Absent
    Capacity = 1
INVARIANTS
    TypeOK
    NoReloadLost
PROPERTIES
    ReloadReturns
    ConfiguredIsServed
CHECK_DEADLOCK TRUE
