SPECIFICATION CountsSpec
CONSTANTS
    Args = {"2"}
    Flag = ""
    Unset = Unset
    alice = alice
    bob = bob
    carol = carol
    Clients = {alice, bob, carol}
    SSL = {}
    Addresses = {"addr"}
    Address <- OneAddress
    Accounts = {"mod"}
    NoAccount = NoAccount
    NoClient = NoClient
    Channels = {"#", "&"}
    Lobby = "#"
    ServerChannel = "&"
    Permission <- LobbyModerator
    LimitOf <- Limits
    BanTable <- NoBans
    JoinCommands <- JoinLobby
    PartCommands <- PartLobby
    ModeCommands <- CountModes
    UserModeCommands <- CountUserModes
    Topics = {"t"}
PROPERTIES
    SpeechShowsCount
CHECK_DEADLOCK FALSE
