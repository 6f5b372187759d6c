------------------------------- MODULE Server -------------------------------
(***************************************************************************)
(* The chat server (src/server.go): clients, channels, who is in which     *)
(* channel, and the number of anonymous users every client is shown.       *)
(*                                                                         *)
(* Everybody on a channel is called Anonymous.  A client in a channel of n *)
(* users is shown itself and Anonymous, Anonymous2, ... up to n - 1, and   *)
(* the channel stores, per client, the count it has told that client.  A   *)
(* join, a part or a change of modes compares the stored count with the    *)
(* current one and tells the client of the difference.                     *)
(*                                                                         *)
(* Every connection has a goroutine that handles its messages in order.    *)
(* Goroutines interleave between the operations of the server (joining or  *)
(* parting one channel, bringing the counts of a channel up to date, ...); *)
(* prog[c] holds the operations the handler of c has still to perform.     *)
(* A join is two operations: canJoin admits the client, and only later is  *)
(* the client stored.  What else may fall inside an operation is opened in *)
(* other modules: updateClientCount, whose updates may overlap, and the    *)
(* join of a member in Membership, with what the client is told; the ban   *)
(* of a moderator, the kill of a client and the creation of a channel in   *)
(* Moderation and Membership.                                              *)
(***************************************************************************)
EXTENDS Entity, SequencesExt

CONSTANTS
    Clients,        \* identifiers of connections (randomIdentifier)
    SSL,            \* the connections accepted by listenSSL
    Addresses,
    Address,        \* the hash of the address of each connection
    Accounts,       \* the rows of table accounts
    NoAccount,      \* account 0: the client has not identified
    NoClient,       \* the empty client name
    Channels,       \* names of channels that MODE and PRIVMSG can reach: # or & first
    Lobby,          \* CHANNEL_LOBBY, "#"
    ServerChannel,  \* CHANNEL_SERVER, "&"
    Permission,     \* table permissions: account -> channel -> level
    LimitOf,        \* strconv.Atoi of a mode's value, 0 when it is no number
    BanTable,       \* the rows of table bans when the server starts
    JoinCommands,   \* JOIN messages: a list of channels and a key
    PartCommands,   \* PART messages: a list of channels
    ModeCommands,   \* MODE messages for a channel: sign, letters, arguments
    UserModeCommands, \* MODE messages for the client itself
    Topics          \* texts of TOPIC messages

PERMISSION_CLIENT     == 0
PERMISSION_REGISTERED == 1
PERMISSION_VIP        == 2
PERMISSION_MODERATOR  == 3
PERMISSION_ADMIN      == 4
PERMISSION_SUPERADMIN == 5
Levels == PERMISSION_CLIENT .. PERMISSION_SUPERADMIN

ASSUME ClientsAssumption ==
    /\ IsFiniteSet(Clients) /\ NoClient \notin Clients
    /\ SSL \subseteq Clients
    /\ Address \in [Clients -> Addresses]
    /\ NoAccount \notin Accounts \cup Addresses
    /\ Accounts \cap Addresses = {}

ASSUME ChannelsAssumption ==
    /\ IsFiniteSet(Channels)
    /\ {Lobby, ServerChannel} \subseteq Channels
    /\ Permission \in [Accounts -> [Channels -> Levels]]
    /\ LimitOf \in [ModeValues -> Nat]

(***************************************************************************)
(* Bans name a channel and an address or an account (table bans).          *)
(***************************************************************************)
Bans == [channel : Channels, target : Addresses \cup Accounts]

Keys == Args \cup {Flag}

ModeCommand == [sign : {"+", "-"}, letters : Seq(STRING), args : Seq(Args)]

ASSUME CommandsAssumption ==
    /\ BanTable \subseteq Bans
    /\ \A j \in JoinCommands : j.chans \in Seq(Channels) /\ j.key \in Keys
    /\ \A p \in PartCommands : p \in Seq(Channels)
    /\ \A m \in ModeCommands \cup UserModeCommands :
          m.sign \in {"+", "-"} /\ m.letters \in Seq(STRING) /\ m.args \in Seq(Args)

VARIABLES
    clients,      \* s.clients: the connections the server knows
    terminating,  \* the clients in state ENTITY_STATE_TERMINATING
    user,         \* the clients that have sent USER
    account,      \* Client.account
    umode,        \* the modes of each client
    channels,     \* s.channels: the channels that exist
    cmode,        \* the modes of each channel
    count,        \* Channel.clients: the count stored for each member, else 0
    topic,        \* Channel.topic
    logs,         \* Channel.logs: whom an entry of the log identifies
    bans,         \* table bans
    prog,         \* the operations the goroutine of a client has still to do
    shown,        \* the numbers of the Anonymous a client was told are there
    late,         \* history: who was admitted before mode z and stored after
    killed        \* history: whom the goroutine of another has terminated

registry == <<clients, terminating, user, account>>
histories == <<late, killed>>
vars == <<clients, terminating, user, account, umode, channels, cmode, count,
          topic, logs, bans, prog, shown, late, killed>>

(***************************************************************************)
(* Operations of the server.                                               *)
(***************************************************************************)
Operation(do, ch, who, key, was) ==
    [do |-> do, ch |-> ch, who |-> who, key |-> key, was |-> was]

Unchanged == NoModes(CHANNEL_MODES)

Join(ch, c, key)      == Operation("join", ch, c, key, Unchanged)
Enter(ch, c, was)     == Operation("enter", ch, c, Flag, was)
Part(ch, c)           == Operation("part", ch, c, Flag, Unchanged)
Refresh(ch, c)        == Operation("refresh", ch, c, Flag, Unchanged)
Enforce(ch, c)        == Operation("enforce", ch, c, Flag, Unchanged)
Announce(ch, c, was)  == Operation("announce", ch, c, Flag, was)
PartBanned(c)         == Operation("partbanned", Lobby, c, Flag, Unchanged)
Kill(c)               == Operation("kill", Lobby, c, Flag, Unchanged)

Operations ==
    [do : {"join", "enter", "part", "refresh", "enforce", "announce", "partbanned",
           "kill"},
     ch : Channels, who : Clients, key : Keys, was : ChannelModes]

(***************************************************************************)
(* What the server knows of a client and of a channel.                     *)
(***************************************************************************)
Members(ch) == {c \in Clients : count[ch][c] # 0}

\* inChannel and getChannels: membership asks the channel, not the client table
ChannelsOf(c) == {ch \in channels : c \in Members(ch)}

\* getPermission: an account without a row has REGISTERED in the table
PermissionOn(c, ch) ==
    IF account[c] = NoAccount THEN PERMISSION_CLIENT ELSE Permission[account[c]][ch]

GlobalPermission(c) == PermissionOn(c, ServerChannel)

\* canUse(command, channel) for MODE, KICK and BAN
CanUseMode(c, ch) ==
    \/ GlobalPermission(c) >= PERMISSION_MODERATOR
    \/ PermissionOn(c, ch) >= PERMISSION_MODERATOR

\* who may use KILL, or BAN for &, which does the same
CanKill(c, ch) ==
    \/ GlobalPermission(c) >= PERMISSION_SUPERADMIN
    \/ ch = ServerChannel /\ CanUseMode(c, ch)

IsBanned(c, ch) ==
    \E b \in bans : b.channel = ch /\ b.target \in {Address[c], account[c]}

\* db.Channel: nothing but Initialize ever adds a channel to the table
Founded == {Lobby, ServerChannel}

Limited(ch) ==
    LET l == LimitOf[cmode[ch]["l"]]
    IN  /\ HasMode(cmode[ch], "l") /\ l > 0
        /\ Cardinality(Members(ch)) >= l

RequiredPermission(ch) ==
    IF HasMode(cmode[ch], "i") THEN PERMISSION_VIP
    ELSE IF HasMode(cmode[ch], "r") THEN PERMISSION_REGISTERED
    ELSE PERMISSION_CLIENT

\* Mutant: mode z is not looked at
CanJoinPlain(c, ch, key) ==
    /\ ch \in Founded
    /\ ~IsBanned(c, ch)
    /\ GlobalPermission(c) >= RequiredPermission(ch)

CanJoin(c, ch, key) ==
    /\ ch \in Founded
    /\ ~IsBanned(c, ch)
    /\ HasMode(cmode[ch], "z") => c \in SSL
    /\ ch = ServerChannel => GlobalPermission(c) >= PERMISSION_VIP
    /\ GlobalPermission(c) < PERMISSION_VIP =>
          /\ HasMode(cmode[ch], "k") => cmode[ch]["k"] = key
          /\ ~Limited(ch)
    /\ GlobalPermission(c) >= RequiredPermission(ch)

(***************************************************************************)
(* anonCount: the count a client should be shown, given the counts stored  *)
(* in the channel.  With +c on the channel or on the client it is at most  *)
(* two: the client and one Anonymous.                                      *)
(***************************************************************************)
Hidden(ch, c) == HasMode(cmode[ch], "c") \/ HasMode(umode[c], "c")

AnonCountIn(stored, ch, c) ==
    LET n == Cardinality({d \in Clients : stored[d] # 0})
    IN  IF Hidden(ch, c) /\ n >= 2 THEN 2 ELSE n

AnonCount(ch, c) == AnonCountIn(count[ch], ch, c)

\* the Anonymous a client sees when its count is n: everybody but itself
Others(n) == 1..(n - 1)

(***************************************************************************)
(* updateClientCount: the members whose stored count is brought up to      *)
(* date.  With +D that is only the client the update is about, unless no   *)
(* client is named.                                                        *)
(***************************************************************************)
\* Mutant: the delay of mode D is forgotten
UpdatedAtOnce(stored, ch, c) == {m \in clients : stored[m] # 0}

Updated(stored, ch, c) ==
    {m \in clients : /\ stored[m] # 0
                     /\ c = NoClient \/ ~HasMode(cmode[ch], "D") \/ m = c}

\* a JOIN for every number from old to new - 1, or a PART from old - 1 to new
AfterUpdate(seen, old, new) ==
    IF old < new THEN seen \cup old..(new - 1) ELSE seen \ new..(old - 1)

\* the counts stored, and what the clients see, after updateClientCount; a
\* client that is terminating is told nothing (Client.write)
CountsUpdated(stored, ch, c) ==
    [m \in Clients |-> IF m \in Updated(stored, ch, c)
                       THEN AnonCountIn(stored, ch, m) ELSE stored[m]]

ShownUpdated(seen, stored, ch, c) ==
    [m \in Clients |-> IF m \in Updated(stored, ch, c) \ terminating
                       THEN AfterUpdate(seen[m], stored[m], AnonCountIn(stored, ch, m))
                       ELSE seen[m]]

UpdateClientCount(stored, seen, ch, c) ==
    /\ count' = [count EXCEPT ![ch] = CountsUpdated(stored, ch, c)]
    /\ shown' = [shown EXCEPT ![ch] = ShownUpdated(seen, stored, ch, c)]

\* Channel.Log
Log(ch, c) ==
    logs' = [logs EXCEPT ![ch] = @ \cup {[address |-> Address[c], account |-> account[c]]}]

(***************************************************************************)
(* Initially nobody is connected and there are no channels.                *)
(***************************************************************************)
Init ==
    /\ clients = {} /\ terminating = {} /\ user = {}
    /\ account = [c \in Clients |-> NoAccount]
    /\ umode = [c \in Clients |-> NoModes(CLIENT_MODES)]
    /\ channels = {}
    /\ cmode = [ch \in Channels |-> NoModes(CHANNEL_MODES)]
    /\ count = [ch \in Channels |-> [c \in Clients |-> 0]]
    /\ topic = [ch \in Channels |-> Flag]
    /\ logs = [ch \in Channels |-> {}]
    /\ bans = BanTable
    /\ prog = [c \in Clients |-> <<>>]
    /\ shown = [ch \in Channels |-> [c \in Clients |-> {}]]
    /\ late = {} /\ killed = {}

(***************************************************************************)
(* Handlers.  A handler runs when the goroutine of the client is at the    *)
(* top of its loop, and leaves in prog what it has still to do.            *)
(***************************************************************************)
Reading(c) == c \in clients /\ c \notin terminating /\ prog[c] = <<>>

Chatting(c) == Reading(c) /\ c \in user

\* the operations that are still to be done
Todo == UNION {ToSet(prog[d]) : d \in Clients}

(***************************************************************************)
(* A connection is accepted: its identifier is new, and its address is not *)
(* banned from the server.                                                 *)
(***************************************************************************)
Connect(c) ==
    /\ c \notin clients /\ \A o \in Todo : o.who # c
    /\ \A ch \in Channels : c \notin Members(ch)
    /\ ~\E b \in bans : b.channel = ServerChannel /\ b.target = Address[c]
    /\ clients' = clients \cup {c}
    /\ terminating' = terminating \ {c}
    /\ user' = user \ {c}
    /\ account' = [account EXCEPT ![c] = NoAccount]
    /\ umode' = [umode EXCEPT ![c] = NoModes(CLIENT_MODES)]
    /\ killed' = killed \ {c}
    /\ UNCHANGED <<channels, cmode, count, topic, logs, bans, prog, shown, late>>

\* the channels every client is put in
AutoJoins(c, permission) ==
    <<Join(Lobby, c, Flag)>> \o
    IF permission >= PERMISSION_VIP THEN <<Join(ServerChannel, c, Flag)>> ELSE <<>>

User(c) ==
    /\ Reading(c) /\ c \notin user
    /\ user' = user \cup {c}
    /\ prog' = [prog EXCEPT ![c] = AutoJoins(c, GlobalPermission(c))]
    /\ UNCHANGED <<clients, terminating, account, umode, channels, cmode, count,
                   topic, logs, bans, shown, histories>>

\* PASS with the credentials of an account, or with wrong ones
Pass(c) ==
    /\ Reading(c) /\ c \notin user
    /\ \/ /\ \E a \in Accounts : account' = [account EXCEPT ![c] = a]
          /\ UNCHANGED prog
       \/ /\ prog' = [prog EXCEPT ![c] = <<Kill(c)>>]
          /\ UNCHANGED account
    /\ UNCHANGED <<clients, terminating, user, umode, channels, cmode, count,
                   topic, logs, bans, shown, histories>>

(***************************************************************************)
(* IDENTIFY: the client takes the account, enters & if it may, and parts   *)
(* the first channel found from which its account is banned.               *)
(***************************************************************************)
Identify(c) ==
    /\ Chatting(c)
    /\ \E a \in Accounts :
          /\ account' = [account EXCEPT ![c] = a]
          /\ prog' = [prog EXCEPT ![c] =
                (IF Permission[a][ServerChannel] >= PERMISSION_VIP
                 THEN <<Join(ServerChannel, c, Flag)>> ELSE <<>>) \o <<PartBanned(c)>>]
    /\ UNCHANGED <<clients, terminating, user, umode, channels, cmode, count,
                   topic, logs, bans, shown, histories>>

JoinCommand(c) ==
    /\ Chatting(c)
    /\ \E j \in JoinCommands :
          prog' = [prog EXCEPT ![c] =
                      [i \in 1..Len(j.chans) |-> Join(j.chans[i], c, j.key)]]
    /\ UNCHANGED <<registry, umode, channels, cmode, count, topic, logs, bans, shown, histories>>

PartCommand(c) ==
    /\ Chatting(c)
    /\ \E p \in PartCommands :
          prog' = [prog EXCEPT ![c] = [i \in 1..Len(p) |-> Part(p[i], c)]]
    /\ UNCHANGED <<registry, umode, channels, cmode, count, topic, logs, bans, shown, histories>>

(***************************************************************************)
(* KICK, BAN and KILL name an entry of the log of a channel, and so a      *)
(* client: one whose address or account is the one of the entry            *)
(* (revealClient).  They remove clients in the goroutine of the moderator. *)
(***************************************************************************)
SameUser(m, address, acc) ==
    Address[m] = address \/ (acc # NoAccount /\ account[m] = acc)

Revealed(ch) ==
    {v \in clients : \E l \in logs[ch] : SameUser(v, l.address, l.account)}

BanRows(ch, v) ==
    {[channel |-> ch, target |-> t] : t \in {Address[v], account[v]} \ {NoAccount}}

Kick(c, ch) ==
    /\ Chatting(c) /\ ch \in channels /\ CanUseMode(c, ch)
    /\ \E v \in Revealed(ch) : prog' = [prog EXCEPT ![c] = <<Part(ch, v)>>]
    /\ UNCHANGED <<registry, umode, channels, cmode, count, topic, logs, bans, shown,
                   histories>>

\* ban: the rows are added, and the members of the channel they are for listed
Ban(c, ch) ==
    /\ Chatting(c) /\ ch \in channels \ {ServerChannel} /\ CanUseMode(c, ch)
    /\ \E v \in Revealed(ch) :
          LET found == {m \in Members(ch) \cap clients : SameUser(m, Address[v], account[v])}
          IN  /\ bans' = bans \cup BanRows(ch, v)
              /\ \E order \in SetToSeqs(found) :
                    prog' = [prog EXCEPT ![c] =
                                [i \in DOMAIN order |-> Part(ch, order[i])]]
    /\ UNCHANGED <<registry, umode, channels, cmode, count, topic, logs, shown, histories>>

\* KILL bans from the server, and kills everybody connected the rows are for
KillCommand(c, ch) ==
    /\ Chatting(c) /\ ch \in channels /\ CanKill(c, ch)
    /\ \E v \in Revealed(ch) :
          LET found == {m \in clients : SameUser(m, Address[v], account[v])}
          IN  /\ bans' = bans \cup BanRows(ServerChannel, v)
              /\ \E order \in SetToSeqs(found) :
                    prog' = [prog EXCEPT ![c] = [i \in DOMAIN order |-> Kill(order[i])]]
    /\ UNCHANGED <<registry, umode, channels, cmode, count, topic, logs, shown, histories>>

\* QUIT, a read that fails, or a command before USER
Quit(c) ==
    /\ Reading(c)
    /\ prog' = [prog EXCEPT ![c] = <<Kill(c)>>]
    /\ UNCHANGED <<registry, umode, channels, cmode, count, topic, logs, bans, shown, histories>>

(***************************************************************************)
(* NAMES lists the users by the count of this moment.  The count stored    *)
(* for the client is not brought up to date.                               *)
(***************************************************************************)
Names(c, ch) ==
    /\ Chatting(c) /\ c \in Members(ch)
    /\ shown' = [shown EXCEPT ![ch][c] = Others(AnonCount(ch, c))]
    /\ UNCHANGED <<registry, umode, channels, cmode, count, topic, logs, bans, prog,
                   histories>>

\* PRIVMSG to a channel: first everybody's count is brought up to date
Privmsg(c, ch) ==
    /\ Chatting(c) /\ c \in Members(ch)
    /\ HasMode(cmode[ch], "m") => PermissionOn(c, ch) >= PERMISSION_VIP
    /\ UpdateClientCount(count[ch], shown[ch], ch, NoClient)
    /\ Log(ch, c)
    /\ UNCHANGED <<registry, umode, channels, cmode, topic, bans, prog, histories>>

\* TOPIC with a text
Topic(c, ch) ==
    /\ Chatting(c) /\ c \in Members(ch)
    /\ HasMode(cmode[ch], "t") => PermissionOn(c, ch) >= PERMISSION_VIP
    /\ \E t \in Topics : topic' = [topic EXCEPT ![ch] = t]
    /\ Log(ch, c)
    /\ UNCHANGED <<registry, umode, channels, cmode, count, bans, prog, shown, histories>>

Changed(m, modes) ==
    IF m.sign = "+" THEN AddModes(modes, m.letters, m.args)
                    ELSE RemoveModes(modes, m.letters)

\* do the modes hide, or delay, the count differently than they did
\* Mutants: the end of the delay, or the end of the hiding, is not looked at
CountAffectedNotD(modes, was) == "c" \in Added(modes, was) \cup Removed(modes, was)
CountAffectedNotRemoved(modes, was) ==
    "c" \in Added(modes, was) \/ "D" \in Removed(modes, was)

CountAffected(modes, was) ==
    \/ "c" \in Added(modes, was) \cup Removed(modes, was)
    \/ "D" \in Removed(modes, was)

\* MODE for a channel: the modes change, then +z is enforced and the change told
ChannelMode(c, ch) ==
    /\ Chatting(c) /\ c \in Members(ch) /\ CanUseMode(c, ch)
    /\ \E m \in ModeCommands : cmode' = [cmode EXCEPT ![ch] = Changed(m, cmode[ch])]
    /\ prog' = [prog EXCEPT ![c] = <<Enforce(ch, c), Announce(ch, c, cmode[ch])>>]
    /\ UNCHANGED <<registry, umode, channels, count, topic, logs, bans, shown, histories>>

\* MODE for the client itself: its counts follow in all of its channels
UserMode(c) ==
    /\ Chatting(c)
    /\ \E m \in UserModeCommands :
          /\ umode' = [umode EXCEPT ![c] = Changed(m, umode[c])]
          /\ IF CountAffected(umode'[c], umode[c])
             THEN \E order \in SetToSeqs(ChannelsOf(c)) :
                     prog' = [prog EXCEPT ![c] =
                                 [i \in DOMAIN order |-> Refresh(order[i], c)]]
             ELSE UNCHANGED prog
    /\ UNCHANGED <<registry, channels, cmode, count, topic, logs, bans, shown, histories>>

(***************************************************************************)
(* Steps of a goroutine: each performs the first operation of prog[c].     *)
(***************************************************************************)
At(c, do) == prog[c] # <<>> /\ Head(prog[c]).do = do

Continue(c, first) == prog' = [prog EXCEPT ![c] = first \o Tail(@)]

\* joinChannel goes on to admit the client: a channel that does not exist is
\* created, and asks nothing of the client that creates it
Admitted(o) ==
    /\ o.who \in clients /\ o.who \notin Members(o.ch)
    /\ o.ch \in channels => CanJoin(o.who, o.ch, o.key)

Admit(c) ==
    LET o == Head(prog[c])
    IN  /\ At(c, "join") /\ Admitted(o)
        /\ channels' = channels \cup {o.ch}
        /\ Continue(c, <<Enter(o.ch, o.who, cmode[o.ch])>>)
        /\ UNCHANGED <<registry, umode, cmode, count, topic, logs, bans, shown, histories>>

\* joinChannel from the store on: nothing is asked again
JoinChannel(c) ==
    LET o      == Head(prog[c])
        stored == [count[o.ch] EXCEPT ![o.who] = AnonCount(o.ch, o.who) + 1]
        listed == [shown[o.ch] EXCEPT ![o.who] = Others(AnonCountIn(stored, o.ch, o.who))]
        seen   == IF o.who \in terminating THEN shown[o.ch] ELSE listed
    IN  /\ At(c, "enter")
        /\ UpdateClientCount(stored, seen, o.ch, o.who)
        /\ Log(o.ch, o.who)
        /\ late' = IF HasMode(cmode[o.ch], "z") /\ ~HasMode(o.was, "z") /\ o.who \notin SSL
                   THEN late \cup {<<o.ch, o.who>>} ELSE late
        /\ Continue(c, <<>>)
        /\ UNCHANGED <<registry, umode, channels, cmode, topic, bans, killed>>

\* canJoin refuses as well when the database does not answer (server.go:320)
JoinRefused(c) ==
    /\ At(c, "join")
    /\ Head(prog[c]).ch \in channels \/ ~Admitted(Head(prog[c]))
    /\ Continue(c, <<>>)
    /\ UNCHANGED <<registry, umode, channels, cmode, count, topic, logs, bans, shown, histories>>

PartChannel(c) ==
    LET o      == Head(prog[c])
        stored == [count[o.ch] EXCEPT ![o.who] = 0]
        seen   == [shown[o.ch] EXCEPT ![o.who] = {}]
    IN  /\ At(c, "part") /\ o.who \in clients \cap Members(o.ch)
        /\ UpdateClientCount(stored, seen, o.ch, o.who)
        /\ Log(o.ch, o.who)
        /\ late' = late \ {<<o.ch, o.who>>}
        /\ Continue(c, <<>>)
        /\ UNCHANGED <<registry, umode, channels, cmode, topic, bans, killed>>

\* Mutant: a part that is refused is tried again
PartRetried(c) ==
    /\ At(c, "part") /\ Head(prog[c]).who \notin clients \cap Members(Head(prog[c]).ch)
    /\ UNCHANGED vars

PartRefused(c) ==
    LET o == Head(prog[c])
    IN  /\ At(c, "part") /\ o.who \notin clients \cap Members(o.ch)
        /\ Continue(c, <<>>)
        /\ UNCHANGED <<registry, umode, channels, cmode, count, topic, logs, bans, shown,
                       histories>>

RefreshCounts(c) ==
    LET o == Head(prog[c])
    IN  /\ At(c, "refresh")
        /\ UpdateClientCount(count[o.ch], shown[o.ch], o.ch, o.who)
        /\ Continue(c, <<>>)
        /\ UNCHANGED <<registry, umode, channels, cmode, topic, logs, bans, histories>>

\* enforceModes: with +z the clients without SSL have to leave
\* Mutant: the test for SSL is the wrong way round
EnforceModesInverted(c) ==
    LET ch == Head(prog[c]).ch
        on == IF HasMode(cmode[ch], "z") THEN Members(ch) \cap clients \cap SSL ELSE {}
    IN  /\ At(c, "enforce")
        /\ \E order \in SetToSeqs(on) :
              Continue(c, [i \in DOMAIN order |-> Part(ch, order[i])])
        /\ late' = IF HasMode(cmode[ch], "z") THEN late \ ({ch} \X Clients) ELSE late
        /\ UNCHANGED <<registry, umode, channels, cmode, count, topic, logs, bans, shown,
                       killed>>

EnforceModes(c) ==
    LET ch    == Head(prog[c]).ch
        plain == IF HasMode(cmode[ch], "z") THEN (Members(ch) \cap clients) \ SSL ELSE {}
    IN  /\ At(c, "enforce")
        /\ \E order \in SetToSeqs(plain) :
              Continue(c, [i \in DOMAIN order |-> Part(ch, order[i])])
        /\ late' = IF HasMode(cmode[ch], "z") THEN late \ ({ch} \X Clients) ELSE late
        /\ UNCHANGED <<registry, umode, channels, cmode, count, topic, logs, bans, shown,
                       killed>>

\* the end of handleChannelMode: what differs from the modes before the command
AnnounceMode(c) ==
    LET o == Head(prog[c])
    IN  /\ At(c, "announce")
        /\ IF CountAffected(cmode[o.ch], o.was)
           THEN UpdateClientCount(count[o.ch], shown[o.ch], o.ch, o.who)
           ELSE UNCHANGED <<count, shown, histories>>
        /\ Continue(c, <<>>)
        /\ UNCHANGED <<registry, umode, channels, cmode, topic, logs, bans, histories>>

\* the end of IDENTIFY: the loop returns at the first channel that bans the client
PartIfBanned(c) ==
    LET banned == {ch \in ChannelsOf(c) : IsBanned(c, ch)}
    IN  /\ At(c, "partbanned")
        /\ \/ banned = {} /\ Continue(c, <<>>)
           \/ \E ch \in banned : Continue(c, <<Part(ch, c)>>)
        /\ UNCHANGED <<registry, umode, channels, cmode, count, topic, logs, bans, shown,
                       histories>>

\* killClient: only the first call makes the client leave its channels
KillClient(c) ==
    LET who  == Head(prog[c]).who
        from == IF who \in clients \ terminating THEN ChannelsOf(who) ELSE {}
    IN  /\ At(c, "kill")
        /\ terminating' = terminating \cup {who}
        /\ killed' = IF who # c THEN killed \cup ({who} \cap (clients \ terminating))
                     ELSE killed
        /\ \E order \in SetToSeqs(from) :
              Continue(c, [i \in DOMAIN order |-> Part(order[i], who)])
        /\ UNCHANGED <<clients, user, account, umode, channels, cmode, count, topic,
                       logs, bans, shown, late>>

\* the end of handleConnection
\* Mutant: the client is deleted before killClient is done
ExitEarly(c) ==
    /\ c \in clients \cap terminating
    /\ clients' = clients \ {c}
    /\ UNCHANGED <<terminating, user, account, umode, channels, cmode, count, topic,
                   logs, bans, prog, shown, histories>>

Exit(c) ==
    /\ c \in clients \cap terminating /\ prog[c] = <<>>
    /\ clients' = clients \ {c}
    /\ UNCHANGED <<terminating, user, account, umode, channels, cmode, count, topic,
                   logs, bans, prog, shown, histories>>

\* the time a row of table bans is valid for runs out
BanExpires(b) ==
    /\ b \in bans
    /\ bans' = bans \ {b}
    /\ UNCHANGED <<registry, umode, channels, cmode, count, topic, logs, prog, shown, histories>>

Handle(c) ==
    \/ Connect(c) \/ User(c) \/ Pass(c) \/ Identify(c) \/ Quit(c)
    \/ JoinCommand(c) \/ PartCommand(c) \/ UserMode(c)
    \/ \E ch \in Channels : \/ Names(c, ch) \/ Privmsg(c, ch)
                            \/ Topic(c, ch) \/ ChannelMode(c, ch)
                            \/ Kick(c, ch) \/ Ban(c, ch) \/ KillCommand(c, ch)

Step(c) ==
    \/ Admit(c) \/ JoinRefused(c) \/ JoinChannel(c) \/ PartChannel(c) \/ PartRefused(c)
    \/ RefreshCounts(c) \/ EnforceModes(c) \/ AnnounceMode(c)
    \/ PartIfBanned(c) \/ KillClient(c) \/ Exit(c)

Next == \/ \E c \in Clients : Handle(c) \/ Step(c)
        \/ \E b \in bans : BanExpires(b)

(***************************************************************************)
(* A goroutine that has something to do is scheduled; nobody is made to    *)
(* connect or to send a message.                                           *)
(***************************************************************************)
Fairness == \A c \in Clients : WF_vars(Step(c))

Spec == Init /\ [][Next]_vars /\ Fairness

(***************************************************************************)
(* Properties.                                                             *)
(***************************************************************************)

(***************************************************************************)
(* The tables of the server, the programs of the goroutines and what the   *)
(* clients see are of their types.  In particular no letter that is not a  *)
(* mode is ever stored (entity.go:66), and no count is negative.           *)
(***************************************************************************)
TypeOK ==
    /\ clients \subseteq Clients /\ terminating \subseteq Clients /\ user \subseteq Clients
    /\ account \in [Clients -> Accounts \cup {NoAccount}]
    /\ umode \in [Clients -> ClientModes]
    /\ channels \subseteq Channels
    /\ cmode \in [Channels -> ChannelModes]
    /\ count \in [Channels -> [Clients -> Nat]]
    /\ topic \in [Channels -> Topics \cup {Flag}]
    /\ logs \in [Channels -> SUBSET [address : Addresses, account : Accounts \cup {NoAccount}]]
    /\ bans \subseteq Bans
    /\ prog \in [Clients -> Seq(Operations)]
    /\ shown \in [Channels -> [Clients -> SUBSET Nat]]
    /\ late \subseteq Channels \X (Clients \ SSL) /\ killed \subseteq Clients

(***************************************************************************)
(* No update of a count is lost: when the count stored for a member is not *)
(* its current count, the channel is in mode D, or some goroutine is still *)
(* to update that member, or to announce a change of modes that will       *)
(* update the channel (server.go:383-427, 647-680, 700-727).               *)
(***************************************************************************)
Stale(ch, m) == m \in Members(ch) \cap clients /\ count[ch][m] # AnonCount(ch, m)

Covers(o, ch, m) ==
    /\ o.ch = ch
    /\ \/ o.do = "refresh" /\ o.who = m
       \/ o.do = "announce" /\ CountAffected(cmode[ch], o.was)

NoLostUpdate ==
    \A ch \in Channels, m \in Clients :
        Stale(ch, m) /\ ~HasMode(cmode[ch], "D") =>
            \E o \in Todo : Covers(o, ch, m)

(***************************************************************************)
(* A connection that ends by its own doing is in no channel afterwards:    *)
(* the parts of killClient come before the client is deleted from the      *)
(* table of clients (server.go:1433-1434, 1443-1445).  The exception is a  *)
(* client another's goroutine has killed (858-860): its own goroutine does *)
(* not wait for the parts (1438), deletes it, and the parts that come      *)
(* later are refused (417), so that it stays counted for ever.             *)
(***************************************************************************)
ExitLeavesNoTrace == \A ch \in Channels : Members(ch) \ clients \subseteq killed

(***************************************************************************)
(* In a channel in mode z every client without SSL is about to be removed, *)
(* or the enforcement of the mode is still to run (server.go:331, 456-466, *)
(* 645).  The exception is a client canJoin admitted before the mode was   *)
(* set (397) and joinChannel stored afterwards (404): no enforcement has   *)
(* to see it until the next one that lists the members.                    *)
(***************************************************************************)
PlainIsLeaving ==
    \A ch \in Channels : HasMode(cmode[ch], "z") =>
        \A m \in (Members(ch) \cap clients) \ SSL :
            \/ <<ch, m>> \in late
            \/ \E o \in Todo : o.ch = ch /\ (o.do = "enforce" \/ (o.do = "part" /\ o.who = m))

\* somebody speaks, or the client itself does something
Undelayed(ch, m) ==
    \/ \E c \in Clients : Privmsg(c, ch)
    \/ Names(m, ch) \/ prog'[m] # prog[m]

(***************************************************************************)
(* In a channel in mode D what a client sees changes only when somebody    *)
(* speaks, or by the client's own doing (README.md:19, server.go:498).     *)
(***************************************************************************)
DelayedUntilSpeech ==
    [][\A ch \in Channels : HasMode(cmode[ch], "D") =>
          \A m \in Members(ch) \cap Members(ch)' :
              shown'[ch][m] # shown[ch][m] => Undelayed(ch, m)]_vars

(***************************************************************************)
(* Every client that quits is eventually gone, its parts done.             *)
(***************************************************************************)
TerminatingLeaves ==
    \A c \in Clients : c \in terminating /\ c \in clients ~> c \notin clients

(***************************************************************************)
(* Outside of mode D every count that is out of date is eventually put     *)
(* right, or the channel is put in mode D, or the client leaves.           *)
(***************************************************************************)
CountsSettle ==
    \A ch \in Channels, m \in Clients :
        Stale(ch, m) ~> ~Stale(ch, m) \/ HasMode(cmode[ch], "D")

(***************************************************************************)
(* A client without SSL does not stay in a channel in mode z: it leaves,   *)
(* or the mode is removed.  Those stored after the mode was set, and those *)
(* whose connection has ended (see above), may stay.                       *)
(***************************************************************************)
PlainLeaves ==
    \A ch \in Channels, m \in Clients \ SSL :
        HasMode(cmode[ch], "z") /\ m \in Members(ch) /\ <<ch, m>> \notin late ~>
            ~HasMode(cmode[ch], "z") \/ m \notin Members(ch) \cap clients

(***************************************************************************)
(* What the documentation says and the code does not do.                   *)
(***************************************************************************)

(***************************************************************************)
(* README.md:19: mode D delays updates of the count until someone speaks.  *)
(* So when someone speaks, everybody is shown the count.  A client that    *)
(* asked for NAMES in between may not be: it was told a count the server   *)
(* did not store (server.go:549).                                          *)
(***************************************************************************)
SpeechShowsCount ==
    [][\A c \in Clients, ch \in Channels :
          Privmsg(c, ch) /\ HasMode(cmode[ch], "D") =>
          \A m \in (Members(ch) \cap clients) \ terminating :
              shown'[ch][m] = Others(AnonCount(ch, m))]_vars

(***************************************************************************)
(* server.go:125: BAN kicks and bans a user from a channel.  A client a    *)
(* row of table bans keeps from a channel is in that channel only while a  *)
(* goroutine is about to remove it.  After a restart the first client to   *)
(* join creates the channel without being asked (server.go:394-396).       *)
(***************************************************************************)
BannedStayOut ==
    \A ch \in Channels : \A m \in Members(ch) : IsBanned(m, ch) =>
        \E o \in Todo : o.who = m /\ (o.do = "partbanned" \/ (o.do = "part" /\ o.ch = ch))

=============================================================================
