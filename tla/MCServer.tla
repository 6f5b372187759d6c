------------------------------ MODULE MCServer ------------------------------
(***************************************************************************)
(* Small instances of the server for TLC.  The lobby is "#", the server's  *)
(* own channel is "&", and "mod" is the one account there is.              *)
(***************************************************************************)
EXTENDS Server

CONSTANTS alice, bob, carol

\* everybody behind one address, as with a proxy, or everybody but carol
OneAddress == [c \in Clients |-> "addr"]
TwoAddresses == [c \in Clients |-> IF c = carol THEN "addr2" ELSE "addr"]

(***************************************************************************)
(* Permissions of the account: a moderator of the lobby, or of everything. *)
(***************************************************************************)
LobbyModerator ==
    [a \in Accounts |-> [ch \in Channels |->
        IF ch = Lobby THEN PERMISSION_MODERATOR ELSE PERMISSION_REGISTERED]]

Moderator == [a \in Accounts |-> [ch \in Channels |-> PERMISSION_MODERATOR]]

SuperAdmin == [a \in Accounts |-> [ch \in Channels |-> PERMISSION_SUPERADMIN]]

Limits == [v \in ModeValues |-> IF v = "2" THEN 2 ELSE 0]

NoBans == {}

\* a ban from & that only identifying reveals
AccountBanned == {[channel |-> ServerChannel, target |-> "mod"]}

(***************************************************************************)
(* Messages.                                                               *)
(***************************************************************************)
Plus(letters)  == [sign |-> "+", letters |-> letters, args |-> <<>>]
Minus(letters) == [sign |-> "-", letters |-> letters, args |-> <<>>]

\* "o" is no mode of this server
AccessModes ==
    {Plus(<<"z", "o">>), Minus(<<"z", "k">>),
     [sign |-> "+", letters |-> <<"k">>, args |-> <<"2">>]}
CountModes     == {Plus(<<"c">>), Minus(<<"c">>), Plus(<<"D">>), Minus(<<"D">>)}
LiveModes      == {Plus(<<"c">>), Minus(<<"c", "z">>), Plus(<<"z">>)}
CountUserModes == {Plus(<<"c">>), Minus(<<"c">>)}

JoinBoth  == {[chans |-> <<Lobby, ServerChannel>>, key |-> "2"],
              [chans |-> <<Lobby>>, key |-> ""]}
JoinLobby == {[chans |-> <<Lobby>>, key |-> ""]}
PartBoth  == {<<ServerChannel, Lobby>>}
PartLobby == {<<Lobby>>}

(***************************************************************************)
(* An afternoon on the lobby: everybody has joined, and alice and bob have *)
(* identified.  Connect, Pass, User, JoinChannel and Privmsg lead here.    *)
(***************************************************************************)
LobbyOpen ==
    /\ clients = Clients /\ terminating = {} /\ user = Clients
    /\ account = [c \in Clients |-> IF c = carol THEN NoAccount ELSE "mod"]
    /\ umode = [c \in Clients |-> NoModes(CLIENT_MODES)]
    /\ channels = {Lobby}
    /\ cmode = [ch \in Channels |-> NoModes(CHANNEL_MODES)]
    /\ count = [ch \in Channels |-> [c \in Clients |-> IF ch = Lobby THEN 3 ELSE 0]]
    /\ topic = [ch \in Channels |-> IF ch = Lobby THEN "t" ELSE Flag]
    /\ logs = [ch \in Channels |->
                  IF ch = Lobby THEN [address : Addresses, account : {NoAccount, "mod"}]
                  ELSE {}]
    /\ bans = {}
    /\ prog = [c \in Clients |-> <<>>]
    /\ shown = [ch \in Channels |-> [c \in Clients |-> IF ch = Lobby THEN {1, 2} ELSE {}]]
    /\ late = {} /\ killed = {}

(***************************************************************************)
(* What bears on who is in a channel: everything but NAMES, messages,      *)
(* topics, BAN and KILL.                                                   *)
(***************************************************************************)
AccessNext ==
    \/ \E c \in Clients :
          \/ Connect(c) \/ User(c) \/ Pass(c) \/ Identify(c) \/ Quit(c)
          \/ JoinCommand(c) \/ PartCommand(c) \/ Step(c)
          \/ ChannelMode(c, Lobby)
    \/ Kick(alice, Lobby) \/ Ban(alice, Lobby)
    \/ \E b \in bans : BanExpires(b)

AccessSpec == Init /\ [][AccessNext]_vars /\ Fairness

(***************************************************************************)
(* What is done from there: everything that bears on the counts, ...       *)
(***************************************************************************)
CountsNext ==
    \/ \E c \in Clients :
          \/ Connect(c) \/ User(c) \/ Quit(c) \/ Step(c)
          \/ Privmsg(c, Lobby) \/ ChannelMode(c, Lobby)
    \/ UserMode(carol) \/ Topic(carol, Lobby) \/ Names(carol, Lobby)
    \/ KillCommand(alice, Lobby)

CountsSpec == LobbyOpen /\ [][CountsNext]_vars /\ Fairness

(***************************************************************************)
(* ... or as little as the liveness properties need.                       *)
(***************************************************************************)
LiveNext ==
    \/ \E c \in Clients : Quit(c) \/ Step(c)
    \/ Connect(carol) \/ User(carol)
    \/ ChannelMode(alice, Lobby) \/ KillCommand(bob, Lobby)

LiveSpec == LobbyOpen /\ [][LiveNext]_vars /\ Fairness
=============================================================================
