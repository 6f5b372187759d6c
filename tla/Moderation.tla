----------------------------- MODULE Moderation -----------------------------
(***************************************************************************)
(* KICK, BAN and KILL (src/server.go): a moderator names an entry of the   *)
(* log of a channel, the server looks for a connection with the address or *)
(* the account of that entry, and removes it, and for BAN and KILL stores  *)
(* rows in table bans and removes everybody the rows are about.  Clients   *)
(* connect, identify, join and leave meanwhile: the bans of the server are *)
(* looked up before a connection is stored, those of a channel before a    *)
(* member is stored.  A moderator reads the account of the connection it   *)
(* has found, adds the rows and removes client after client in steps of    *)
(* their own; the database may refuse a row.  The rows outlast the         *)
(* process; clients, channels and logs do not.                             *)
(*                                                                         *)
(* There is one channel beside the bans of the server.  Its keys, limits   *)
(* and modes are in module Server, here they refuse a client at any time;  *)
(* the steps inside joinChannel and partChannel are in Membership, those   *)
(* inside killClient in Connection.                                        *)
(***************************************************************************)
EXTENDS ChannelLog

CONSTANTS
    Clients,      \* identifiers of connections; each has a goroutine
    Addresses,
    Address,      \* the hash of the address of each connection
    Accounts,
    NoAccount,    \* account 0
    Moderators,   \* accounts that may REVEAL, KICK and BAN in the channel
    Superadmins,  \* accounts that may KILL
    Chat,         \* the channel
    Server,       \* CHANNEL_SERVER, the channel whose bans are the server's
    Durations,    \* the durations that are asked for: a value and a unit
    Half,         \* an int64 is less than Half, and at least -Half: 2^63
    Digits,       \* the last two digits of a time
    MaxTime,      \* bound: the clock
    MaxLog,       \* bound: the entries of the log that are kept
    MaxRows       \* bound: no BAN or KILL once there are so many rows

ASSUME ModerationAssumption ==
    /\ Address \in [Clients -> Addresses]
    /\ NoAccount \notin Accounts \cup Addresses /\ Accounts \cap Addresses = {}
    /\ Moderators \subseteq Accounts /\ Superadmins \subseteq Accounts
    /\ Chat # Server
    /\ Half \in Nat \ {0}
    /\ \A d \in Durations : d.value \in Nat /\ d.unit \in Nat
    /\ MaxTime \in Nat \ {0} /\ MaxLog \in Nat /\ MaxRows \in Nat

VARIABLES
    clients,      \* s.clients
    terminating,  \* the clients in state ENTITY_STATE_TERMINATING
    account,      \* Client.account
    exists,       \* the channel is in s.channels
    members,      \* the keys of Channel.clients
    log,          \* Channel.logs
    bans,         \* table bans
    now,          \* the clock, in seconds
    at,           \* where the goroutine of a client is
    job,          \* the connection a moderator has found, the arguments of ban, and
                  \* the clients it has still to visit
    stale,        \* clients about to be stored in a channel that was replaced
    told,         \* what clients know: those last told of their own JOIN, not PART
    lost,         \* history: those that were told, in a channel that was replaced
    spared,       \* history: clients that a ban does not remove: let in before a row
                  \* was stored, or as the first of a channel, or of a ban that failed
    moved         \* history: moderators that have found a client under another account

registry == <<clients, terminating, account>>
channel  == <<exists, members, log, stale, told, lost>>
vars     == <<registry, channel, bans, now, at, job, spared, moved>>

Scopes  == {Chat, Server}
Targets == Addresses \cup Accounts
Authors == [address : Addresses, account : Accounts \cup {NoAccount}]
Stages  == {"offline", "accepted", "login", "join", "create", "store", "read", "identified",
            "quit", "found", "rows", "account", "snapshot", "expel", "part"}

Author(c) == [address |-> Address[c], account |-> account[c]]

Idle == [scope |-> Chat, author |-> NoAccount, client |-> NoAccount,
         address |-> NoAccount, account |-> NoAccount, expires |-> 0, left |-> {}]

(***************************************************************************)
(* The clock and durations are signed integers that wrap.                  *)
(***************************************************************************)
Wrap(n) == ((n + Half) % (2 * Half)) - Half

\* parseDuration: a value of zero never expires, the others are multiplied
ParseDuration(d) == IF d.value = 0 THEN 0 ELSE Wrap(d.value * d.unit)

Expires(d) == IF ParseDuration(d) = 0 THEN 0 ELSE Wrap(now + ParseDuration(d))

(***************************************************************************)
(* BanAddr and BanAccount look for a row that has not expired.             *)
(***************************************************************************)
InForce(b) == b.expires = 0 \/ b.expires > now

Rows(c, scope) ==
    {b \in bans : b.scope = scope /\ b.target \in {Address[c], account[c]} /\ InForce(b)}

\* isBanned
IsBanned(c, scope) == Rows(c, scope) # {}

\* does a BAN or KILL concern the client
Matches(j, c) ==
    Address[c] = j.address \/ (j.account # NoAccount /\ account[c] = j.account)

(***************************************************************************)
(* revealClient: any connection with the address or the account of an      *)
(* entry, wherever it is.                                                  *)
(***************************************************************************)
\* Mutant: whoever has not identified has the account of whoever has not
SameAuthorAnybody(c, author) ==
    Address[c] = author.address \/ account[c] = author.account

SameAuthor(c, author) ==
    \/ Address[c] = author.address
    \/ account[c] # NoAccount /\ account[c] = author.account

Reading(c) == at[c] = "read" /\ c \notin terminating

Goto(c, stage) == at' = [at EXCEPT ![c] = stage]

\* Channel.Log; the model keeps the first MaxLog entries
Log(c, action) ==
    \E d \in Digits :
        log' = IF Len(log) < MaxLog
               THEN Append(log, [author |-> Author(c), action |-> action, digits |-> d])
               ELSE log

\* Mutant: the client is not told that it has left
PartChannelSilently(c) ==
    IF c \in clients \cap members
    THEN members' = members \ {c} /\ Log(c, "PART") /\ UNCHANGED <<told, lost>>
    ELSE UNCHANGED <<members, log, told, lost>>

\* partChannel: a client that is gone, or not a member, is refused
PartChannel(c) ==
    IF c \in clients \cap members
    THEN /\ members' = members \ {c} /\ told' = told \ {c} /\ lost' = lost \ {c}
         /\ Log(c, "PART")
    ELSE UNCHANGED <<members, log, told, lost>>

(***************************************************************************)
(* PASS and IDENTIFY.  A moderator may have found the client already.      *)
(***************************************************************************)
SetAccount(c, a) ==
    /\ account' = [account EXCEPT ![c] = a]
    /\ moved' = IF a = account[c] THEN moved
                ELSE moved \cup {m \in Clients : at[m] = "found" /\ job[m].client = c}

Init ==
    /\ clients = {} /\ terminating = {}
    /\ account = [c \in Clients |-> NoAccount]
    /\ exists = FALSE /\ members = {} /\ log = <<>>
    /\ stale = {} /\ told = {} /\ lost = {}
    /\ bans = {} /\ now = 1
    /\ at = [c \in Clients |-> "offline"]
    /\ job = [c \in Clients |-> Idle]
    /\ spared = {} /\ moved = {}

(***************************************************************************)
(* handleConnection: the bans of the server are looked up, then the client *)
(* is stored.  Its identifier is new: nobody refers to it.                 *)
(***************************************************************************)
AddressBanned(c) ==
    \E b \in bans : b.scope = Server /\ b.target = Address[c] /\ InForce(b)

Accept(c) ==
    /\ at[c] = "offline" /\ c \notin members
    /\ \A g \in Clients : c \notin job[g].left /\ c # job[g].client
    /\ ~AddressBanned(c)
    /\ account' = [account EXCEPT ![c] = NoAccount]
    /\ told' = told \ {c} /\ lost' = lost \ {c}
    /\ Goto(c, "accepted")
    /\ spared' = spared \ ({c} \X Scopes)
    /\ UNCHANGED <<clients, terminating, exists, members, log, stale, bans, now, job, moved>>

Store(c) ==
    /\ at[c] = "accepted"
    /\ clients' = clients \cup {c} /\ terminating' = terminating \ {c}
    /\ Goto(c, "login")
    /\ UNCHANGED <<account, channel, bans, now, job, spared, moved>>

\* PASS, before USER
Pass(c) ==
    /\ at[c] = "login" /\ c \notin terminating
    /\ \E a \in Accounts : SetAccount(c, a)
    /\ UNCHANGED <<clients, terminating, channel, bans, now, at, job, spared>>

\* USER makes the client join the channel, JOIN lets it come back
JoinCommand(c) ==
    /\ at[c] = "login" \/ (at[c] = "read" /\ c \notin members)
    /\ c \notin terminating
    /\ Goto(c, "join")
    /\ UNCHANGED <<registry, channel, bans, now, job, spared, moved>>

(***************************************************************************)
(* joinChannel: a client that finds no channel creates it and is asked     *)
(* nothing.  Whatever another has created meanwhile is replaced, with the  *)
(* members and the log it had.                                             *)
(***************************************************************************)
FindNone(c) ==
    /\ at[c] = "join" /\ ~exists
    /\ Goto(c, "create")
    /\ UNCHANGED <<registry, channel, bans, now, job, spared, moved>>

Create(c) ==
    /\ at[c] = "create"
    /\ exists' = TRUE /\ members' = {} /\ log' = <<>>
    /\ stale' = {d \in Clients : at[d] = "store"}
    /\ lost' = lost \cup members
    /\ Goto(c, "store")
    /\ spared' = IF IsBanned(c, Chat) THEN spared \cup {<<c, Chat>>}
                    ELSE spared \ {<<c, Chat>>}
    /\ UNCHANGED <<registry, told, bans, now, job, moved>>

(***************************************************************************)
(* The others are looked up in the bans of the channel.                    *)
(***************************************************************************)
\* Mutant: only bans of the server are looked up
AdmitServer(c) ==
    /\ at[c] = "join" /\ exists /\ ~IsBanned(c, Server)
    /\ Goto(c, "store")
    /\ spared' = spared \ {<<c, Chat>>}
    /\ UNCHANGED <<registry, channel, bans, now, job, moved>>

Admit(c) ==
    /\ at[c] = "join" /\ exists /\ ~IsBanned(c, Chat)
    /\ Goto(c, "store")
    /\ spared' = spared \ {<<c, Chat>>}
    /\ UNCHANGED <<registry, channel, bans, now, job, moved>>

Refuse(c) ==
    /\ at[c] = "join" /\ exists
    /\ Goto(c, "read")
    /\ UNCHANGED <<registry, channel, bans, now, job, spared, moved>>

\* the client is stored in the channel it has found, and told so
JoinStore(c) ==
    /\ at[c] = "store"
    /\ told' = IF c \in terminating THEN told ELSE told \cup {c}
    /\ stale' = stale \ {c}
    /\ IF c \in stale
       THEN lost' = lost \cup {c} /\ UNCHANGED <<members, log>>
       ELSE lost' = lost \ {c} /\ members' = members \cup {c} /\ Log(c, "JOIN")
    /\ Goto(c, "read")
    /\ UNCHANGED <<registry, exists, bans, now, job, spared, moved>>

(***************************************************************************)
(* IDENTIFY: a member whose account is banned has to leave.                *)
(***************************************************************************)
Identify(c) ==
    /\ Reading(c)
    /\ \E a \in Accounts : SetAccount(c, a)
    /\ Goto(c, "identified")
    /\ UNCHANGED <<clients, terminating, channel, bans, now, job, spared>>

PartIfBanned(c) ==
    /\ at[c] = "identified"
    /\ IF IsBanned(c, Chat) THEN PartChannel(c) ELSE UNCHANGED <<members, log, told, lost>>
    /\ Goto(c, "read")
    /\ UNCHANGED <<registry, exists, stale, bans, now, job, spared, moved>>

Part(c) ==
    /\ Reading(c) /\ c \in members
    /\ PartChannel(c)
    /\ UNCHANGED <<registry, exists, stale, bans, now, at, job, spared, moved>>

Privmsg(c) ==
    /\ Reading(c) /\ c \in members
    /\ Log(c, "PRIVMSG")
    /\ UNCHANGED <<registry, exists, members, stale, told, lost, bans, now, at, job,
                   spared, moved>>

(***************************************************************************)
(* QUIT, a wrong password, or a connection that fails.  killClient marks   *)
(* the client, and only who does so parts it from its channels then.       *)
(***************************************************************************)
Quit(c) ==
    /\ at[c] \in {"login", "read"} /\ c \notin terminating
    /\ terminating' = terminating \cup {c}
    /\ Goto(c, "quit")
    /\ UNCHANGED <<clients, account, channel, bans, now, job, spared, moved>>

QuitPart(c) ==
    /\ at[c] = "quit"
    /\ PartChannel(c)
    /\ Goto(c, "read")
    /\ UNCHANGED <<registry, exists, stale, bans, now, job, spared, moved>>

Exit(c) ==
    /\ at[c] \in {"login", "read"} /\ c \in terminating
    /\ clients' = clients \ {c}
    /\ Goto(c, "offline")
    /\ UNCHANGED <<terminating, account, channel, bans, now, job, spared, moved>>

\* the connections KICK, BAN and KILL may take an identifier for, and whose entry it is
Revealed(id) ==
    {r \in [author : {log[i + 1].author : i \in Named(log, id)}, client : clients] :
        SameAuthor(r.client, r.author)}

Identifiers == {Identifier(log, i) : i \in Places(log)}

Kick(m) ==
    /\ Reading(m) /\ account[m] \in Moderators /\ exists
    /\ \E id \in Identifiers : \E r \in Revealed(id) : PartChannel(r.client)
    /\ UNCHANGED <<registry, exists, stale, bans, now, at, job, spared, moved>>

(***************************************************************************)
(* BAN and KILL: a connection is found, then its address and its account   *)
(* are banned.  A duration that is negative is refused, and so is, without *)
(* a word, a time that is.                                                 *)
(***************************************************************************)
Commands(m) ==
    (IF account[m] \in Moderators THEN {Chat} ELSE {}) \cup
    (IF account[m] \in Superadmins THEN {Server} ELSE {})

\* Mutant: the time is not looked at
AcceptedDuration(d) == ParseDuration(d) >= 0

Accepted(d) == ParseDuration(d) >= 0 /\ Expires(d) >= 0

Ban(m) ==
    /\ Reading(m) /\ exists /\ Cardinality(bans) < MaxRows
    /\ \E scope \in Commands(m), id \in Identifiers : \E r \in Revealed(id) :
          job' = [job EXCEPT ![m] =
                     [Idle EXCEPT !.scope = scope, !.author = r.author, !.client = r.client]]
    /\ Goto(m, "found")
    /\ UNCHANGED <<registry, channel, bans, now, spared, moved>>

\* the account is the one the connection has by now
Sentence(m) ==
    /\ at[m] = "found"
    /\ \E d \in Durations :
          /\ Accepted(d)
          /\ job' = [job EXCEPT ![m].address = Address[job[m].client],
                                ![m].account = account[job[m].client],
                                ![m].expires = Expires(d), ![m].client = NoAccount]
    /\ Goto(m, "rows")
    /\ UNCHANGED <<registry, channel, bans, now, spared, moved>>

(***************************************************************************)
(* ban: the rows are added one by one.  Whoever has been let in on a       *)
(* lookup made before is spared, and so is everybody when the database     *)
(* refuses the second: ban returns, and the first stays.                   *)
(***************************************************************************)
Entering(scope) == {c \in Clients : at[c] = IF scope = Server THEN "accepted" ELSE "store"}

AddBan(m, target) ==
    /\ bans' = bans \cup {[scope |-> job[m].scope, target |-> target,
                           expires |-> job[m].expires]}
    /\ spared' = spared \cup
          {<<c, job[m].scope>> : c \in {d \in Entering(job[m].scope) : Matches(job[m], d)}}
    /\ UNCHANGED <<registry, channel, now, job, moved>>

\* Mutant: the account is forgotten
BanAddressOnly(m) ==
    /\ at[m] = "rows"
    /\ AddBan(m, job[m].address)
    /\ Goto(m, "snapshot")

BanAddress(m) ==
    /\ at[m] = "rows"
    /\ AddBan(m, job[m].address)
    /\ Goto(m, IF job[m].account = NoAccount THEN "snapshot" ELSE "account")

BanAccount(m) ==
    /\ at[m] = "account"
    /\ AddBan(m, job[m].account)
    /\ Goto(m, "snapshot")

\* getClients: of the channel, or of the server
Sought(scope) == IF scope = Server THEN clients ELSE clients \cap members

Return(m) ==
    /\ job' = [job EXCEPT ![m] = Idle] /\ moved' = moved \ {m}
    /\ Goto(m, "read")

\* a duration that is refused, or a row
BanFails(m) ==
    /\ at[m] \in {"found", "rows", "account"}
    /\ spared' = IF at[m] = "account"
                 THEN spared \cup {<<c, job[m].scope>> :
                         c \in {d \in Sought(job[m].scope) : Address[d] = job[m].address}}
                 ELSE spared
    /\ Return(m)
    /\ UNCHANGED <<registry, channel, bans, now>>

\* Mutant: only the channel is searched
SnapshotChannel(m) ==
    /\ at[m] = "snapshot"
    /\ job' = [job EXCEPT ![m].left = clients \cap members]
    /\ Goto(m, "expel")
    /\ UNCHANGED <<registry, channel, bans, now, spared, moved>>

Snapshot(m) ==
    /\ at[m] = "snapshot"
    /\ job' = [job EXCEPT ![m].left = Sought(job[m].scope)]
    /\ Goto(m, "expel")
    /\ UNCHANGED <<registry, channel, bans, now, spared, moved>>

(***************************************************************************)
(* Client after client is removed: for KILL it is marked, then parted.     *)
(***************************************************************************)
Expel(m, c) ==
    /\ at[m] = "expel" /\ c \in job[m].left
    /\ IF job[m].scope = Server /\ Matches(job[m], c) /\ c \notin terminating
       THEN /\ terminating' = terminating \cup {c}
            /\ job' = [job EXCEPT ![m].left = @ \ {c}, ![m].client = c]
            /\ Goto(m, "part")
            /\ UNCHANGED <<members, log, told, lost>>
       ELSE /\ job' = [job EXCEPT ![m].left = @ \ {c}]
            /\ IF job[m].scope = Chat /\ Matches(job[m], c)
               THEN PartChannel(c)
               ELSE UNCHANGED <<members, log, told, lost>>
            /\ UNCHANGED <<terminating, at>>
    /\ UNCHANGED <<clients, account, exists, stale, bans, now, spared, moved>>

\* a client that has exited since is refused, and stays a member
ExpelPart(m) ==
    /\ at[m] = "part"
    /\ PartChannel(job[m].client)
    /\ job' = [job EXCEPT ![m].client = NoAccount]
    /\ Goto(m, "expel")
    /\ UNCHANGED <<registry, exists, stale, bans, now, spared, moved>>

Finish(m) ==
    /\ at[m] = "expel" /\ job[m].left = {}
    /\ Return(m)
    /\ UNCHANGED <<registry, channel, bans, now, spared>>

Tick ==
    /\ now < MaxTime
    /\ now' = now + 1
    /\ UNCHANGED <<registry, channel, bans, at, job, spared, moved>>

\* the process ends, at any moment, and starts again on the same database
Restart ==
    /\ clients' = {} /\ terminating' = {}
    /\ account' = [c \in Clients |-> NoAccount]
    /\ exists' = FALSE /\ members' = {} /\ log' = <<>>
    /\ stale' = {} /\ told' = {} /\ lost' = {}
    /\ at' = [c \in Clients |-> "offline"]
    /\ job' = [c \in Clients |-> Idle]
    /\ spared' = {} /\ moved' = {}
    /\ UNCHANGED <<bans, now>>

Handle(c) ==
    \/ Accept(c) \/ Pass(c) \/ JoinCommand(c) \/ Identify(c) \/ Part(c) \/ Privmsg(c)
    \/ Quit(c) \/ Kick(c) \/ Ban(c)

Step(c) ==
    \/ Store(c) \/ FindNone(c) \/ Create(c) \/ Admit(c) \/ Refuse(c) \/ JoinStore(c)
    \/ PartIfBanned(c) \/ QuitPart(c) \/ Exit(c)
    \/ Sentence(c) \/ BanAddress(c) \/ BanAccount(c) \/ BanFails(c) \/ Snapshot(c)
    \/ (\E d \in Clients : Expel(c, d)) \/ ExpelPart(c) \/ Finish(c)

Next == (\E c \in Clients : Handle(c) \/ Step(c)) \/ Tick \/ Restart

Spec == Init /\ [][Next]_vars

(***************************************************************************)
(* Properties.                                                             *)
(***************************************************************************)

(***************************************************************************)
(* The tables, the log, the arguments of every ban and what was revealed   *)
(* are of their types.  No row has a time before the clock's zero, which   *)
(* would be neither in force nor forever (server.go:821).                  *)
(***************************************************************************)
TypeOK ==
    /\ clients \subseteq Clients /\ terminating \subseteq Clients
    /\ account \in [Clients -> Accounts \cup {NoAccount}]
    /\ exists \in BOOLEAN /\ members \subseteq Clients
    /\ log \in Seq([author : Authors, action : Actions, digits : Digits])
    /\ Len(log) <= MaxLog
    /\ bans \subseteq [scope : Scopes, target : Targets, expires : Nat]
    /\ now \in 1..MaxTime
    /\ at \in [Clients -> Stages]
    /\ job \in [Clients -> [scope : Scopes, author : Authors \cup {NoAccount},
                            client : Clients \cup {NoAccount},
                            address : Addresses \cup {NoAccount},
                            account : Accounts \cup {NoAccount},
                            expires : Nat, left : SUBSET Clients]]
    /\ stale \subseteq Clients /\ told \subseteq Clients /\ lost \subseteq Clients
    /\ spared \subseteq Clients \X Scopes /\ moved \subseteq Clients

(***************************************************************************)
(* An identifier that some page of the log shows goes on to name the entry *)
(* it was shown with for as long as there is a log, whatever is written;   *)
(* or nobody, when it has more than five characters (channel.go:37, 96,    *)
(* 121-146).                                                               *)
(***************************************************************************)
Pages == {-1} \cup 1..(MaxLog + 1)

RevealedNamesHold ==
    [][\A page \in Pages, showAll \in BOOLEAN : \A r \in Printed(log, page, showAll) :
          log' # <<>> => {log'[i + 1].author : i \in Named(log', r.id)} =
                        IF FiveCharacters(r.id) THEN {r.author} ELSE {}]_vars

(***************************************************************************)
(* Whoever reads the pages of a log from the first on, as long as a page   *)
(* names the next, has seen every entry that is to be shown, and no page   *)
(* is longer than PerPage (channel.go:90-114).                             *)
(***************************************************************************)
PagesShowAll ==
    \A showAll \in BOOLEAN :
        /\ \A i \in Listed(log, showAll) :
              \E p \in 1..(Len(log) + 1) :
                  /\ i \in Page(log, p, showAll)
                  /\ \A q \in 1..(p - 1) : LogsRemain(log, q, showAll)
        /\ \A p \in 1..(Len(log) + 1) : Cardinality(Page(log, p, showAll)) <= PerPage

(***************************************************************************)
(* Somebody is about to be removed: by a goroutine that has stored a row   *)
(* and is to look for those it is about, or by its own after IDENTIFY.     *)
(***************************************************************************)
Pending(c, scope) ==
    \/ at[c] = "identified"
    \/ \E m \in Clients :
          /\ job[m].scope = scope /\ Matches(job[m], c)
          /\ \/ at[m] \in {"account", "snapshot"}
             \/ at[m] \in {"expel", "part"} /\ c \in job[m].left

(***************************************************************************)
(* A connected member of the channel that a row in force keeps out is      *)
(* about to be removed.  The exceptions are those let in before the row    *)
(* was stored or as the first of the channel, and those whom a ban of both *)
(* an address and an account leaves when its second row fails (server.go   *)
(* 326, 394, 829-852, 948-958).                                            *)
(***************************************************************************)
BannedAreLeaving ==
    \A c \in clients \cap members :
        IsBanned(c, Chat) => <<c, Chat>> \in spared \/ Pending(c, Chat)

(***************************************************************************)
(* A connection whose address is banned from the server is about to be     *)
(* killed, unless it was accepted before the row was stored or the second  *)
(* row of the ban failed (server.go:829-860, 1422-1427).  Of its account   *)
(* nobody asks.                                                            *)
(***************************************************************************)
KilledAreLeaving ==
    \A c \in clients \ terminating :
        AddressBanned(c) => <<c, Server>> \in spared \/ Pending(c, Server)

(***************************************************************************)
(* Whoever BAN removes from the channel, and whoever KILL removes from the *)
(* server for its address, is kept out by a row that is stored already,    *)
(* which a crash does not lose, unless the time asked for has run out.  A  *)
(* connection that KILL removes for its account alone may come back: the   *)
(* lookup on connecting names no account (server.go:820-867, 1422).        *)
(***************************************************************************)
ExpelledAreBanned ==
    [][\A m \in Clients : \A c \in job[m].left \ job'[m].left :
          at[m] = "expel" /\ at'[m] \in {"expel", "part"} =>
             /\ c \in members \ members' => IsBanned(c, Chat) \/ job[m].expires \in 1..now
             /\ c \in terminating' \ terminating /\ Address[c] = job[m].address =>
                    AddressBanned(c) \/ job[m].expires \in 1..now]_vars

(***************************************************************************)
(* A client that was told it is in the channel is a member of it, and a    *)
(* member was told so, for as long as the client lives.  The exceptions    *)
(* are those whose channel another client has replaced when both found     *)
(* none (server.go:393-396, 404-405, 421-423).                             *)
(***************************************************************************)
MembersWereTold ==
    \A c \in clients \ terminating : c \in members <=> c \in told \ lost

(***************************************************************************)
(* What a BAN or KILL of an entry bans is the address or the account the   *)
(* entry was written under, though perhaps with the account or address of  *)
(* somebody who shares it; unless the connection found has identified      *)
(* before its account was read (server.go:287, 942, 1117).                 *)
(***************************************************************************)
BanHitsAuthor ==
    \A m \in Clients : at[m] \in {"rows", "account", "snapshot", "expel", "part"} =>
        \/ m \in moved
        \/ job[m].address = job[m].author.address
        \/ job[m].account # NoAccount /\ job[m].account = job[m].author.account

=============================================================================
