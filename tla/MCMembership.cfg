SPECIFICATION TwoSpec
CONSTANTS
    alice = alice
    bob = bob
    carol = carol
    Clients = {alice, bob, carol}
    NoClient = NoClient
    Moderators = {alice}
    Vips = {}
    Discreet = {carol}
    Limit = 2
    Present = {carol}
INVARIANTS
    TypeOK
    DisplayFollowsCount
PROPERTIES
    KeepsPromise
    DelayKept
CHECK_DEADLOCK FALSE
