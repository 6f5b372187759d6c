SPECIFICATION WholeSpec
CONSTANTS
    alice = alice
    bob = bob
    admin = admin
    root = root
    user = user
    password = password
    secret = secret
    Sessions = {alice, bob}
    Ids = {1, 2}
    NoId = 0
    Names = {admin, root, user}
    NoName = NoName
    Passwords = {password, secret}
    Admin = admin
    Default = password
    Lobby = Lobby
    Server = Server
INVARIANTS
    TypeOK
    AccountsOpen
    NamesDiffer
    ServesFounded
PROPERTIES
    ActsAtomically
CHECK_DEADLOCK FALSE
SYMMETRY Symmetry
