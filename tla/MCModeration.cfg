SPECIFICATION ActiveSpec
CONSTANTS
    alice = alice
    bob = bob
    carol = carol
    admin = admin
    user = user
    home = home
    cafe = cafe
    Clients = {alice, bob, carol}
    Addresses = {home, cafe}
    Address <- MCAddress
    Accounts = {admin, user}
    NoAccount = NoAccount
    Moderators = {admin}
    Superadmins = {admin}
    Chat = Chat
    Server = Server
    Durations <- MCDurations
    Half = 8
    Digits = {0}
    MaxTime = 2
    MaxLog = 2
    MaxRows = 1
    PerPage = 1
    Indices = 1
INVARIANTS
    TypeOK
    PagesShowAll
    BannedAreLeaving
    KilledAreLeaving
    BanHitsAuthor
    MembersWereTold
PROPERTIES
    ExpelledAreBanned
    RevealedNamesHold
CHECK_DEADLOCK FALSE
