SPECIFICATION LiveSpec
CONSTANTS
    Args = {"2"}
    Flag = ""
    Unset = Unset
    alice = alice
    bob = bob
    carol = carol
    Clients = {alice, bob, carol}
    SSL = {alice, bob}
    Addresses = {"addr", "addr2"}
    Address <- TwoAddresses
    Accounts = {"mod"}
    NoAccount = NoAccount
    NoClient = NoClient
    Channels = {"#", "&"}
    Lobby = "#"
    ServerChannel = "&"
    Permission <- SuperAdmin
    LimitOf <- Limits
    BanTable <- NoBans
    JoinCommands <- JoinLobby
    PartCommands <- PartLobby
    ModeCommands <- LiveModes
    UserModeCommands = {}
    Topics = {"t"}
PROPERTIES
    TerminatingLeaves
    CountsSettle
    PlainLeaves
CHECK_DEADLOCK FALSE
