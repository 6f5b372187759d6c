SPECIFICATION CountsSpec
CONSTANTS
    Args = {"2"}
    Flag = ""
    Unset = Unset
    alice = alice
    bob = bob
    carol = carol
    Clients = {alice, bob, carol}
    SSL = {}
    Addresses = {"addr", "addr2"}
    Address <- TwoAddresses
    Accounts = {"mod"}
    NoAccount = NoAccount
    NoClient = NoClient
    Channels = {"#", "&"}
    Lobby = "#"
    ServerChannel = "&"
    Permission <- SuperAdmin
    LimitOf <- Limits
    BanTable <- NoBans
    JoinCommands <- JoinLobby
    PartCommands <- PartLobby
    ModeCommands <- CountModes
    UserModeCommands <- CountUserModes
    Topics = {"t"}
INVARIANTS
    NoLostUpdate
    ExitLeavesNoTrace
PROPERTIES
    DelayedUntilSpeech
CHECK_DEADLOCK FALSE
