SPECIFICATION Spec
CONSTANTS
    Args = {"2"}
    Flag = ""
    Unset = Unset
    alice = alice
    bob = bob
    carol = carol
    Clients = {alice, bob}
    SSL = {alice}
    Addresses = {"addr"}
    Address <- OneAddress
    Accounts = {"mod"}
    NoAccount = NoAccount
    NoClient = NoClient
    Channels = {"#", "&"}
    Lobby = "#"
    ServerChannel = "&"
    Permission <- Moderator
    LimitOf <- Limits
    BanTable <- AccountBanned
    JoinCommands <- JoinBoth
    PartCommands <- PartBoth
    ModeCommands <- AccessModes
    UserModeCommands = {}
    Topics = {}
INVARIANTS
    BannedStayOut
CHECK_DEADLOCK FALSE
