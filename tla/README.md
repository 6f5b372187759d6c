# AnonIRCd in TLA+

A verification project for AnonIRCd, an anonymous IRC server (`src/*.go`). Everybody on a channel
is called *Anonymous*; a client is only shown how many there are. The project models the server's
state and its goroutines, checks the models with TLC on small instances, and proves its safety
properties with TLAPS for instances of any size.

References such as `server.go:505` are to files of the repository's source.

## 1. The system

### Parts, their state, their operations

| part | source | state | operations |
|---|---|---|---|
| modes | `entity.go` | a map from a mode's letter to its value, per client and channel | `hasMode`, `addMode`, `addModes`, `removeModes`, `diffModes` |
| chat core | `server.go:200-760, 1139-1373`, `channel.go` | `s.clients`, `s.channels`, and per channel `clients` (member -> the count the member was told), modes, topic | `joinChannel`, `partChannel`, `partAllChannels`, `updateClientCount`, `sendNames`, `handlePrivmsg`, `handleTopic`, `handleChannelMode`, `handleUserMode`, `enforceModes` |
| permissions, access, bans | `client.go:127-206`, `server.go:318-381, 760-960`, `database.go` | tables `permissions`, `channels`, `bans`; `Client.account` | `getPermission`, `canUse`, `canJoin`, `isBanned`, IDENTIFY, PASS, KICK, BAN, KILL, GRANT, REVEAL |
| connections | `server.go:1186-1449`, `client.go:37-86` | `Client.state`, `writebuffer` (10 messages), `wg` | `handleConnection`, `handleRead`, `handleWrite`, `write`, `killClient`, `pingClients` |
| channel log | `channel.go` | `logs`: a timestamp -> address, account, action | `Log`, `RevealLog`, `RevealInfo` |
| accounts, database | `database.go`, `client.go:127` | tables `meta`, `accounts`, `channels`, `permissions`, `bans` | `Initialize`, `AddAccount`, `SetUsername`, `SetPassword`, `Auth`, `AddBan`, ... |
| listeners, configuration | `server.go:1451-1620`, `main.go` | `config`, `oldconfig`, `restartplain`, `restartssl` | `listenPlain`, `listenSSL`, `loadConfig`, `reload` (REHASH, SIGHUP) |
| utilities | `utilities.go` | none | `parseDuration`, hashing, identifiers, sorting |

### How they interact

* Every accepted connection has two goroutines. `handleConnection` calls `handleRead`, which
  handles one message after the other; `handleWrite` takes messages from the client's buffer and
  sends them. `pingClients` is one more goroutine; each listener is one.
* The goroutines share `s.clients`, `s.channels` and `Channel.clients`, which are `sync.Map`s:
  every single load and store is atomic and **nothing else is**. The modes of an entity have a
  lock of their own. `Client.state`, `Client.account`, `nick`, `topic` have none.
* A handler calls other operations directly; what it tells another client goes through
  `Client.write`, which waits while that client's buffer is full.

### What is hard

* **Counts.** A client is shown itself and `Anonymous`, `Anonymous2`, ... A join, a part or a
  change of mode `c` or `D` compares the count stored for each member with the count the member
  should see and sends the difference as JOINs or PARTs. Several goroutines do this to one
  channel. A forgotten update leaves a member with a wrong number of people for good, and a wrong
  number in one JOIN is never repaired.
* **Teardown.** A connection ends because of QUIT, a failed read, a wrong password, a ban or a
  moderator, while other goroutines write to it. `killClient` waits for the messages in flight,
  closes the buffer and the connection, and the client has to be out of all channels by the time
  it is deleted.
* **Checks and effects in different steps.** Mode `z` is set, then enforced; modes are read,
  changed, and compared with what was read; a limit is read and a member stored later.
* **Stored against live state.** Bans, accounts and founded channels survive a restart; channels,
  their modes and logs do not.

The list of hazards, each with its line and the properties about it, is in `PROJECT.json`.

### What makes each part correct

* modes: letters and arguments are paired as in the command, and no unknown letter is stored;
* counts: no update is lost; what is shown is what is stored; mode `D` delays until somebody
  speaks;
* membership: who has gone is in no channel; mode `z` leaves nobody without SSL; a banned client
  stays out;
* connections: messages are counted exactly; the buffer is closed once and not used after; nobody
  waits for ever; no goroutine is left behind;
* log: an entry is named by a code that finds it again, and nobody else; the pages show all;
* moderation: who is removed is kept out, also after a crash; who is banned is removed; what is
  banned belongs to the entry that was named;
* accounts: every account can be opened; a name is taken once; the first start founds the
  channels;
* listeners: a reload ends, and a certificate that is configured is served.

Several of these do not hold without exceptions: the code has no lock or transaction where two
steps should be one. The properties then name the exception exactly, by a history variable
(`late`, `killed`, `misled`, `disturbed`, `spared`, `moved`, `lost`, `overtaken`, `torn`, `cut`,
`failed`, `unfinished`), so that each says both what the race costs and that it costs nothing
else.

## 2. The modules

| module | what it is | extends |
|---|---|---|
| `Entity` | modes, as functions; `addModes` in closed form | standard modules |
| `ModeLoop` | the loop of `addModes`, a letter at a time, against the closed form | `Entity` |
| `ModeLoopProofs` | the loop computes the closed form, proved | `ModeLoop` |
| `Server` | clients, channels, membership, counts, modes, access, the log's identities | `Entity` |
| `MCServer` | instances of `Server` | `Server` |
| `ServerProofs` | the types of `Server`, proved | `Server` |
| `ServerSafety` | the other safety properties of `Server`, proved | `ServerProofs` |
| `AnonymousChannel` | what a channel promises: the abstract specification | standard modules |
| `Membership` | one channel, with the steps *inside* its operations | standard modules |
| `MCMembership` | an instance of `Membership` | `Membership` |
| `MembershipProofs` | `Membership` implements `AnonymousChannel`, and what is shown is what is stored, proved | `Membership` |
| `ChannelLog` | the log of a channel: identifiers, pages, the search by identifier | standard modules |
| `Moderation` | KICK, BAN, KILL and the stored bans, with restarts | `ChannelLog` |
| `MCModeration` | an instance of `Moderation` | `Moderation` |
| `ModerationProofs` | the safety of `Moderation`, proved | `Moderation` |
| `Accounts` | what accounts promise: the abstract specification | standard modules |
| `Database` | accounts, start-up, USERNAME and PASSWORD, with crashes | standard modules |
| `MCDatabase` | an instance of `Database` | `Database` |
| `DatabaseProofs` | the safety of `Database`, and that it implements `Accounts`, proved | `Database` |
| `Listeners` | two listeners, the configuration, REHASH and SIGHUP | standard modules |
| `ListenersProofs` | the safety of `Listeners`, proved | `Listeners` |
| `Connection` | one connection and every goroutine that touches it, step by step | standard modules |
| `ConnectionProofs` | theorems about `Connection` | `Connection` |

The modules cut the server along its granularity. `Server` has all channels and handlers, and an
operation is a step or two. `Membership` opens the operations for one channel, `Connection` opens
the end of one client, `Moderation` opens BAN and KILL. Each of these three leaves to `Server`
what its own steps do not need.

### Entity and ModeLoop

A map of modes is a function from the modes of the entity to values, `Unset` where the map has no
entry. `AddModes` says what the loop of `addModes` (`entity.go:79-88`) computes: a letter takes
effect at its *first* place where it applies, and the k-th letter that takes an argument gets the
k-th argument if there is one. `ModeLoop` is that loop itself, with its index of arguments, and
`LoopComputesAddModes` is the equality of the two.

### Server

The state follows `type Server`, `Channel` and `Client`: `clients`, `channels`, `count`
(`Channel.clients`), `cmode`, `umode`, `account`, `bans`, `topic`, and `logs` reduced to whom an
entry identifies. Two variables are not in the code: `prog`, the operations a goroutine has still
to perform, which is the goroutine's stack; and `shown`, the set of numbers of the Anonymous a
client has been told are present, which is the effect of every JOIN, PART and NAMES sent to it.

A handler (`User`, `JoinCommand`, `ChannelMode`, ...) runs when its goroutine is at the top of its
loop. It does what the handler does up to its first call of a shared operation and leaves the
calls in `prog`; each call is one step (`PartChannel`, `RefreshCounts`, `EnforceModes`,
`AnnounceMode`, `PartIfBanned`, `KillClient`), but for a join, which is two: `Admit` asks
`canJoin` (`server.go:397`) and `JoinChannel` stores the member (404), so that a mode can be set
and enforced between them. So goroutines interleave *between* operations, in every order; *inside*
an operation they do not, which is the main abstraction of this module. Where the code ranges over
a map, the order is any order (`SetToSeqs`).

KICK, BAN and KILL (`Kick`, `Ban`, `KillCommand`) find a client by an entry of the log and put
parts and kills of *others* into the program of the moderator; a BAN of `&` is a KILL
(`server.go:847`). Who is killed so exits by itself, before or after the moderator parts it. The
steps of `ban` itself, its rows and their times are in `Moderation`.

`Init` is the empty server after a start: tables are constants, bans are those stored by an
earlier run. A ban may expire at any time (`BanExpires`). Two histories are kept: `late`, who was
admitted to a channel before mode `z` was set and stored after, and `killed`, whom the goroutine
of another has terminated.

Not modelled: the nickname; the texts of messages; WHO, which shows what NAMES does (`Names`), and
LIST. An address is a value, not a hash. The names NAMES sends are taken as one list. Channels
whose name does not begin with `#` or `&` are left out: JOIN creates one of any name
(`server.go:394-396, 1328-1330`) and PART leaves it, but no row of table `channels` lets a second
client in, MODE takes such a name for a user (745) and PRIVMSG refuses it (1158).

### Membership and AnonymousChannel

`Membership` is `Channel.clients` under several goroutines. `members` and `count` are the keys and
values of the `sync.Map`; `at[g]` is where goroutine `g` is inside `joinChannel`, `partChannel`,
`handleChannelMode` or `updateClientCount`; `who`, `left`, `key`, `old`, `new`, `was` are its
local variables: the client the operation is about, the keys `Range` has still to visit, the key
and value it has yielded, the count to be stored, the modes before the command. Every load, store
and deletion, every key `Range` yields, and every reading or changing of the modes by a command is
a step, and so is one counting of the members: the limit is read (`Join`), the members are counted
(`JoinCount`), the member is stored (`JoinStore`), the names are sent to it (`JoinNames`). An
update compares what it has yielded with a new count (`Recount`), sends JOINs or PARTs for the
difference (`Tell`), and stores the count (`Store`). `Range` takes the keys there are when it
starts and skips those that have gone when their turn comes, which `sync.Map` allows. `shown` is
what each client sees, as in `Server`.

Overlapping operations do real damage: a limit of `n` lets `n + 1` in, a member that has left is
stored again by an update that has already read it (`server.go:525`), a count is stored that is
out of date. `AnonymousChannel` says what remains. Somebody enters a full channel, is put back, or
is left with a wrong number, *only* through an operation that has overlapped another; outside of
mode `D` an operation that ran alone ends with every member knowing the right number, even when
the numbers were wrong before if it updated, and if they were right when it began otherwise; a
client that has gone is a member only if it was put back, entered when already killed, or was
killed by another goroutine that had not parted it when it went. That goroutine may come too late:
a part of a client that is not known is refused (`server.go:417`), and the client stays counted.
Four histories carry this: `disturbed` (goroutines whose operation overlapped another), `calm`
(those that began when all counts were right), `stray` (members put back, or stored when
terminating) and `killed`. A fifth, `misled`, is of `Membership` alone: whom NAMES told of a count
that is not stored, or an operation that was disturbed is about or told.

The refinement mapping (`Promise`) keeps the members, modes and histories, calls the counts
`told`, and reduces the locals to a stage (idle, busy, updating) and to the clients a goroutine is
to part or may still tell (`Stage`, `Met`). `KeepsPromise` is the abstract specification itself.

All clients are known to the server at the start, and one that has gone stays away, since
identifiers are new for every connection. Keys, bans and mode `z` are in `Server`.

### ChannelLog and Moderation

`ChannelLog` has the log as a sequence of entries, each with an author, an action and the last two
digits of its time; `Identifier`, `Named` (`RevealInfo`), `Page` and `LogsRemain` (`RevealLog`)
are operators on it. Identifiers are an index and two digits. From the thousandth entry on the
index has four digits and the identifier six characters, which `RevealInfo` refuses: here from
index `Indices` on.

`Moderation` has one channel and the whole of `ban`. The entry is looked up and any connection
with its address *or* account is taken (`Ban`, after `revealClient`); the account it has by then
and the duration are read (`Sentence`), and an IDENTIFY may come between the two (`moved`); a row
for the address is stored, another for the account (`BanAddress`, `BanAccount`), and either may be
refused (`BanFails`), which leaves the first row when it is the second; the clients are listed
(`Snapshot`), and each one concerned is parted (`Expel`), or marked and then parted (`Expel`,
`ExpelPart`). All of these are steps. The lookups a client makes before it is stored are steps as
well: `Accept` and `Store` for the server, `Admit` or `FindNone` and `Create` and then `JoinStore`
for the channel. So a ban may fall in between, two clients may each create the channel, and the
second replaces what the first has made (`stale`, `lost`). `spared` are those a ban does not
remove: who was let in on an older lookup, the first of a channel, and whom a ban that failed
half-way leaves. `job[m]` are the connection found and the arguments of `ban` in goroutine `m`,
with the author of the entry named as a history. `told` is what the clients know. The clock and
the durations wrap around at `Half` as `int64` does at 2^63. `Restart` ends the process at any
moment; the rows stay.

`Refuse` stands for every reason to refuse a client that `Server` has, so it may happen at any
time.

### Database and Accounts

The tables `accounts` (`name`, and `key`, the hash of name and password together), `channels` and
the administrator's rows of `permissions`; `start`, how far `Connect` and `Initialize` have come;
and per session the account and where its command is. Every SQL statement is a step and the
process may end between any two. `USERNAME` is a lookup of the credentials, a lookup of the new
name and an update; `PASSWORD` a lookup and an update, which hashes the name of the *lookup*. A
name that is taken ends the process (`UsernameTaken`). `Initialize` ignores the errors of
`AddChannel` (`database.go:175, 178`): a statement that fails there (`FoundingFails`) is passed
over, with the permission that would follow it, and the server goes on to serve. `Insert` is an
operator with the database's own tools: REGISTER adds no account.

`Accounts` says what the statements amount to for those who use an account. A command that no
other has disturbed takes effect at a *single moment*: at that moment the name and password it was
given open the account, nobody has the name it asks for, and it changes that account and nothing
else. A command that was disturbed (another has updated its account, or has taken the name it
found free, since its lookup) may leave its own account in any state; of that account (`lost`)
nothing is promised any more, and of every other account everything is. Under the mapping `Atomic`
an account is its name and the passwords that open it (`Opens`, from the hashes stored), the lost
ones are `torn`, and the disturbed commands are `overtaken`; the three places of USERNAME are one
command, so that its second lookup is a stutter. The statements of the initialisation are stutters
too, except the one that adds the administrator.

### Listeners

The configuration file may change at any time and may be malformed; `config` is the certificate in
use, `loaded` the one `listenSSL` has read; `restartplain` and `restartssl` are the tokens in the
two channels of capacity one. `Reload` decodes the file into the configuration *in use*, so one
that fails may have changed it (`ReloadFails`): the configuration to fall back on is the same
structure. A token is looked for between two connections only. Without a certificate `listenSSL`
returns for good; when its port cannot be opened it reads everything again (`SSLListenFails`).

### Connection

Every read and write of shared state is a step: the test of `c.state` in `write` and in
`killClient`, `wg.Add`, the send on the buffer, `wg.Wait` (which may sleep and be woken by
`Done`), `close`, `conn.Close`, the deletion from the table. `at[p]` is where goroutine `p` is and
`back[p]` its return addresses, because `write` and `killClient` are called from several places.
`Writers` are goroutines of other clients, and `pingClients`; `Killers` are goroutines of
moderators that reach `ban` with the server channel. The peer reads, stalls, resumes or leaves.

What the messages are, and what they do to channels, is left to `Server`; `partAllChannels`, which
`killClient` calls before it waits, only writes to *other* clients. `handleRead` asks on every
round whether the client is in the table (`server.go:1191`): it always is, since only its own
goroutine deletes it, later, so `Loop` does not ask. A `sync.WaitGroup` panics when a counter that
was zero is raised before a sleeper has returned from `Wait`: `Wake`. The detail of `Add` racing
the first instructions of `Wait` is part of that step.

## 3. The runs

| run | instance | checks |
|---|---|---|
| `mode_loop` | commands of up to 4 letters, 2 arguments, on clients and channels | `TypeOK`, `LoopComputesAddModes` |
| `server_counts` | 3 clients behind one address, the lobby open and all in it, two moderators; `+c -c +D -D` on the channel, `+c -c` on a user, NAMES, PRIVMSG, a KILL, quits and new connections | `NoLostUpdate`, `ExitLeavesNoTrace`, `DelayedUntilSpeech` |
| `server_access` | 2 clients, one with SSL, both channels, from the empty server; PASS, IDENTIFY, JOIN with and without key, PART of two channels, `+zo`, `-zk`, `+k`, KICK and BAN by alice; a ban of the account; rows expire | `TypeOK`, `PlainIsLeaving` |
| `server_live` | 3 clients, one without SSL, in the lobby; `+c`, `-cz`, `+z` by alice, a KILL by bob, quits, carol comes back; under fairness | `TerminatingLeaves`, `CountsSettle`, `PlainLeaves` |
| `connection` | a buffer for one message, one writer, one killer | `TypeOK`, `WaitGroupCounts`, `ClosedOnce`, `WaitersAreServed`, `BufferGetsClosed`, `WriteReturns`, `KillReturns`, `EndsForGood` |
| `membership` | 3 clients, a limit of 2; carol is in the channel and in mode `c`, and does nothing; alice, a moderator, joins, speaks, changes `c` and `D`, and kills bob; bob joins, parts, quits and asks for NAMES | `TypeOK`, `KeepsPromise`, `DelayKept`, `DisplayFollowsCount` |
| `moderation` | 3 connections, two of them behind one address; alice kicks, bans and kills, bob speaks, parts and comes back, carol joins again when somebody is banned and identifies, perhaps between the match and the rows; two accounts, four durations, a clock of 2 seconds, 4-bit time, a log of 2 entries, one entry a page; rows that are refused; restarts | `TypeOK`, `BannedAreLeaving`, `KilledAreLeaving`, `ExpelledAreBanned`, `BanHitsAuthor`, `MembersWereTold`, `RevealedNamesHold`, `PagesShowAll` |
| `database` | 2 sessions (symmetric), 2 accounts, 3 names, 2 passwords; crashes, statements of the initialisation that fail | `TypeOK`, `AccountsOpen`, `NamesDiffer`, `ServesFounded`, `ActsAtomically` |
| `listeners` | 2 goroutines that reload, 3 certificates of which one is broken, files without the key or malformed, channels of capacity 1, a port that may not open; deadlock is checked | `TypeOK`, `NoReloadLost`, `ReloadReturns`, `ConfiguredIsServed` |
| `server_speech` | as `server_counts` | `SpeechShowsCount`: **violated** |
| `server_banned` | as `server_access` | `BannedStayOut`: **violated** |
| `connection_kill` | a buffer for one message, no writer, one killer | `ServerSurvives`: **violated** |

What the runs show beyond the names of their properties:

* `NoLostUpdate`, `PlainIsLeaving`, `ExitLeavesNoTrace` are about what is still to be done: a
  stale count, a client without SSL in mode `z` or a member that is ending has an operation in the
  program of some goroutine. The exceptions are mode `D`; a join that `canJoin` admitted before
  mode `z` was set (`late`); and the victim of a KILL, whose own goroutine does not wait for the
  parts of the moderator (`killed`).
* `KeepsPromise`: `Membership` implements `AnonymousChannel`, as described above. `DelayKept`: in
  mode `D` nobody's count changes but by speech, by the member's own doing, or by an update that
  was disturbed and had looked for the mode before it was set. `DisplayFollowsCount`: what a
  member sees is what is stored for it, except while it is being told, and except for the
  `misled`: NAMES told it of another count, or two updates that overlapped numbered their JOINs
  and PARTs from one old count and stored different new ones.
* `BannedAreLeaving`, `KilledAreLeaving`: whoever is in the channel against a row in force, or on
  the server with an address that is banned, is about to be removed by a goroutine that is on its
  way, or is `spared`: let in on a lookup made before the row, the first of a channel, or left by
  a ban whose second row was refused. A KILL's row for an *account* keeps nobody out, because
  nobody asks for it when a connection is accepted.
* `ExpelledAreBanned`: nobody is parted by BAN before a row that keeps it out is stored, and
  nobody is marked by KILL for its address before a row of that address is, so a crash in the
  middle of `ban` forgives none of them, unless the time has run out. Whom KILL finds by the
  account alone may come back at once. A duration that wraps to a negative time is refused and
  removes nobody; one that wraps to a small positive time is stored as such, and nothing here says
  that a ban lasts as long as was asked.
* `BanHitsAuthor`: what is banned is the entry's address or its account, though the other one of
  the two may be a bystander's; unless the connection found takes another account before `ban`
  reads it (`moved`): then neither row need be the author's.
* `MembersWereTold`: who was told of its JOIN is a member, and conversely, except for those whose
  channel was replaced.
* `RevealedNamesHold`: an identifier on a page goes on to name its entry; or nobody, when it is
  too long. `PagesShowAll`: whoever reads page after page sees every entry, and no page is too
  long.
* `AccountsOpen`, `NamesDiffer`: only an update made on a stale lookup leaves an account that no
  password opens, or two accounts of one name. `ServesFounded`: only a process that ended in the
  middle of `Initialize`, or a failing statement of that channel's own, leaves a server without a
  channel. `ActsAtomically`: `Database` implements `Accounts`, so that an overlap of commands
  costs an account that a disturbed command was about, and never a third one.
* `WaitersAreServed`: goroutines of a connection never wait for each other alone; a writer that
  waits for room and a `killClient` that waits for messages have `handleWrite` with something to
  do, or another writer that can send. `BufferGetsClosed`: when a client is terminating there is
  always somebody who will close its buffer, unless it is closed, though every later `killClient`
  returns at once.
* `NoReloadLost`, `ConfiguredIsServed`, `ReloadReturns`: a listener that uses another certificate
  than the configured one has a token waiting for it, and gets to it; a reload returns, unless
  `listenSSL` has returned for want of a certificate and left `restartssl` full.

### Why these bounds

* *Three clients* are the least for which two moderators can race while a third one is shown the
  result, and for which mode `c` (at most 2) hides somebody. Two clients are enough for access,
  where a property is about one client and whoever changes the modes.
* *Two channels* are all that can be joined by more than their creator: `canJoin` asks for a row
  of table `channels`, and the code inserts rows for `#` and `&` only.
* *Modes*: each run has the letters that matter to it, among them one that is no mode (`o`). The
  pairing of letters and arguments is `mode_loop`'s subject, for all letters.
* `server_counts` and `server_live` begin with an open lobby, a state that connecting, passing,
  joining and one message reach; beginning there leaves room for what comes after. In
  `server_counts` only carol sends user modes, topics and NAMES, and alice alone kills: another
  client's would differ by its name alone. In `server_live` one client changes modes and another
  kills, so that a KILL may fall between the enforcement of mode `z` and its parts. In
  `server_access` there is one moderator of the lobby who kicks and bans, either client or
  herself. The proofs are of every client doing everything.
* *A buffer of one* fills with every message, so that the full buffer, which ten would hardly
  reach, is met in every second state. One writer writes again and again. Two make the run five
  times larger and it passes as well. The proofs cover every number of both and every size.
* `membership`: two clients act, because three make the run too long, and each of them does what
  the races need: the one that changes modes, speaks and kills, and the one that comes, goes and
  asks for names. A third is there to be counted and told. Two operations that overlap are enough
  for each of the races the hazards name. `KeepsPromise` is proved for any number of clients that
  all act.
* `moderation`: one client that bans, one that shares its address and may share the account of the
  entry, one that writes entries. No BAN begins when there is a row (`MaxRows`), so there are two
  at most, of one ban. With `Half = 8` there is a duration whose product wraps (7 times 2), and
  one whose sum with the clock does (7). A log of two entries with `Indices = 1` has an identifier
  of each length, and with `PerPage = 1` two pages. Who does what when is narrowed to keep the run
  short (`Active`): alice is there first and quits only before she joins, carol identifies to
  alice's account only while alice has found somebody, carol comes back to the channel only when
  somebody is banned, the clock ticks only when a row can expire. Moderators that both ban, and
  everybody doing everything, are covered by the proofs.
* `database`: two sessions are what a stale lookup needs; three names let both rename at once.
  Sessions do not act on a database whose initialisation was cut short or whose channels were not
  founded: they would do there what they do on a whole one, since their commands read neither
  channels nor permissions.
* `listeners`: two callers fill a channel of capacity one and wait. Two certificates that load, so
  that the configured and the loaded one can differ.
* Deadlock is not checked but in `listeners`: elsewhere a server whose clients have nothing to
  say, or have all left, may stop.

### Fairness

`Server`: weak fairness of every goroutine that has an operation to perform (the Go scheduler runs
what can run). Nobody has to send a message or to connect. `Connection`: weak fairness of every
step a goroutine can take by itself. Strong fairness of `Send`, because a Go channel keeps waiting
senders in a queue and hands each free slot to the first; and of `Encode`, because a peer that
reads again and again makes the send succeed. Nothing makes the peer read: the three liveness
properties suppose `PeerAnswers`, that the peer does not stall for ever on an open connection. The
supposition is needed. There is a deadline for reading (`server.go:1196`) and none for writing, so
a peer that keeps the connection and reads nothing holds `handleWrite`, then `killClient` in
`wg.Wait`, then the moderator who sent the KILL. Both also stop at a panic, which ends the
program.

`Listeners`: weak fairness of each listener's own steps, strong fairness of each send, because
goroutines waiting to send on a Go channel are served in their order. Nobody is made to connect,
and the file need not change. Both liveness properties suppose that connections keep arriving,
because a listener looks for its token between two connections only: at both listeners for
`ConfiguredIsServed` (`Accepting`), at each that has not returned for good for `ReloadReturns`
(`Served`). On a server without a certificate `listenSSL` has returned, so the first REHASH leaves
a token there and the second waits for ever, with the client that sent it: `Unread`, the one
exception in `ReloadReturns`. Nothing makes the SSL listener open its port; who accepts again and
again has opened it.

`Membership` states weak fairness of the steps of each goroutine, and only safety is checked of
it. `Moderation` and `Database` state no fairness: they may crash at any moment, and all that is
said of them is safety.

Liveness of `handleConnection` supposes in turn that the writes to *other* clients return;
`WriteReturns` says when they do.

## 4. What the violated runs show

* `connection_kill`: `killClient` tests and sets `c.state` without a lock. Two goroutines can both
  pass the test and close the buffer twice; and a writer that has passed the test in `write` may
  send when the buffer is closed, or raise the counter of the WaitGroup under a sleeper. Each
  panics, and a panic in any goroutine ends the server. The run needs a moderator and the client
  only. (A plain QUIT that races a PING has the second panic, with no moderator at all.)
  `ClosedOnce` and its proof say what remains true: by itself the connection's goroutine never
  closes twice.
* `server_speech`: NAMES tells the current count and does not store it. In mode `D` the next
  message then sends the difference from the *stored* count, and the client is left with too many
  or too few.
* `server_banned`: `joinChannel` creates a missing channel without asking `canJoin`. After a
  restart the first client to join, banned or not, is in.

What the exceptions of the passing properties describe is real as well: without the exception TLC
finds each of them.

* A client that a moderator kills can stay counted for ever. Its own `killClient` returns at once
  (`server.go:1438`) and it is deleted (1434) before the goroutine of the moderator has parted it;
  those parts are then refused (417). It is `killed` in `ExitLeavesNoTrace`; the promise
  `AnonymousChannel` does not oblige its `Exit` to end the membership either.
* A client without SSL can stay in a channel in mode `z`, when `canJoin` let it in before the mode
  was set and `joinChannel` stores it after the members were listed (331, 397, 404 against 645,
  456-466): `late` in `PlainIsLeaving` and `PlainLeaves`.
* Two operations that overlap can leave a client with more or fewer Anonymous than the count
  stored for it, with no NAMES: both number what they send from the same old count, one sends up
  to the higher count, the other stores the lower (492-528): `misled` in `DisplayFollowsCount`.
* A ban can be of neither the address nor the account that wrote the entry: the connection was
  found by its account (287) and has identified as somebody else when its account is read (1117):
  `moved` in `BanHitsAuthor`.
* A server can serve without a founded channel after a failed statement (`database.go:175, 178`):
  `failed` in `ServesFounded`. A ban whose second row is refused leaves the first in the table and
  removes nobody (`server.go:836-839`): `spared` in `BannedAreLeaving` and `KilledAreLeaving`.

Smaller observations, noted here and not run because a look at the lines settles them: mode `D` is
documented and accepted as a mode of users (`README.md:19`) and has no effect there, since
`server.go:498` asks only the channel; IDENTIFY parts the first channel found that bans the
account and returns (`server.go:957`), so that the client stays in a second one; `Migrate` updates
the version of the database but never inserts it (`database.go:125-157`), so a new database has
none; `README.md:12` invites to `/join #anonirc`, which only the first client can do, because no
row of table `channels` is ever made for it; and `README.md:18` says that `+c` sets the user count
to 1, while a channel of two or more shows 2.

## 5. What is proved

`ServerProofs`, from the assumptions named in `Server` (finite sets of clients and channels;
tables and messages of their types):

* `TypeCorrect`: `TypeOK` (which the run `server_access` checks) is inductive by itself. The work
  is in the lemmas on `AddModes` (an argument that is taken exists), on counts (a member's count
  is at least one), and on orders of a set (`OrderVisitsAll`).

`ServerSafety`, from the same assumptions. The invariants are about operations that are to be
done, so the lemmas that carry them say what a step takes from and adds to `prog`
(`ContinuedElements`, `ContinueTodo`, `BeginTodo`), and to the members of channels (`JoinStep`,
`PartStep`, `OtherSteps`). The invariants need `Existing`: a channel that does not exist has no
members and no modes, because nothing is asked of the client that creates it; and a join between
its two steps is of a channel that exists, and was admitted in mode `z` only with SSL.

* `NoLostUpdateCorrect`: `TypeOK /\ Existing /\ NoLostUpdate` is inductive. A part or a join
  changes everybody's count and updates everybody in the same operation (`UpdateSettles`); a
  change of modes leaves an `announce` that compares with the modes *before* the command, so it
  still covers the members when another moderator has changed the modes in between
  (`ChannelModeCovers`); a change of a user's own modes leaves a `refresh` for each channel.
* `PlainIsLeavingCorrect`: `TypeOK /\ Existing /\ PlainIsLeaving` is inductive. An enforcement
  makes a part for every client without SSL that is in the channel at that moment. After it
  `canJoin` admits none; whoever is stored after the mode was set had been admitted before it, by
  `Existing`, and is `late`.
* `DelayedUntilSpeechCorrect`, an action property, from `Orderly` below: an update on behalf of a
  client is made by its own goroutine, except a part, such as those of mode `z`, whose client is
  no member afterwards.
* `ExitLeavesNoTraceCorrect`: needs `Orderly`, which says of each goroutine that it joins channels
  and updates counts for its own client only; that when its client is to be killed, or is
  terminating and not `killed` by another, only parts and kills are left, among them a part for
  each channel the client is still in; and that a client that is gone has no operations.

`ConnectionProofs`, for any number of writers and killers and any size of the buffer:

* `ConnectionTypeCorrect` and `WaitGroupCorrect`: `TypeOK` needs `WaitGroupCounts` (a counter that
  counts every message in flight is positive when one is done), and `WaitGroupCounts` needs
  `Calls`: return addresses are such that a call never returns into the middle of `write`, so that
  the goroutines at `send` are exactly those that have counted. The conjunction, `IInv`, is
  inductive.
* `WaitersAreServedCorrect`: needs `Sleepers` (somebody sleeps in `wg.Wait` only while the counter
  is positive, hence, by `WaitGroupCounts`, while there is a message) and `Finished`
  (`handleWrite` has ended only when the buffer is closed and empty). `WInv`, the conjunction with
  `IInv`, is inductive.
* `ClosedOnceCorrect`: `Roles` (a writer never gets into `killClient`, a killer does so once) and
  `Closing` (who is past the test has set the state; while nobody else has killed the client, its
  goroutine has not yet closed when it is about to). `CInv`, the conjunction with `IInv`, is
  inductive.
* `BufferGetsClosedCorrect`: `Ending` (who has set the state stays `Ahead`, on the way to closing
  the buffer, until it is closed; and the connection's goroutine is past its last `killClient`
  only when somebody has set the state). `EInv`, the conjunction with `CInv`, is inductive.

`ModeLoopProofs`, for commands and arguments of any length:

* `LoopComputesAddModesCorrect`: `LInv` says that after `next - 1` letters the modes are those of
  the closed form for the first `next - 1` letters (`Read`), that the index of arguments is the
  number of letters before that take one (`Counting`), and that the first place at which a letter
  applies does not move when the loop goes on (`FirstFound`). The induction is over the behaviour,
  not over the data, so that it can be done.

`MembershipProofs`, for any number of clients, all active, any limit, any members at the start:

* `PromiseKept`: `Spec => KeepsPromise`, the refinement: `Init` maps to the initial states of
  `AnonymousChannel`, and every step to a step of it or to a stutter, under the invariant `MInv`.
  Its parts say what each place of a goroutine implies (who the operation is about, what was
  yielded, what is still to be visited); that an operation nobody has disturbed is alone, so that
  what it has read is still true; and where a client that is terminating can still be a member.
* `DelayKeptCorrect`: from the same invariant.
* `DisplayFollowsCountCorrect`: `SInv` adds to `MInv` that a join is about its own client and has
  counted at least one (`Joining`), that stored counts are positive (`Positive`), and what an
  operation nobody has disturbed knows at each place (`Unimpeded`): since it is alone, the count
  it has yielded is still the one stored, so that the numbers it sends, from that one to the count
  it stores, take the client exactly from what it sees to what it shall see.

`ModerationProofs`, for any clients, addresses, accounts, durations, width of the clock and length
of the log:

* `BannedAreLeavingCorrect`, `KilledAreLeavingCorrect`: each has an inductive invariant that
  follows a client through its lookup (`ServerEntered`, `ChatEntered`: whoever is past the lookup
  and against a row is `spared`) and the ban through its rows (`Hunted`, `ChatHunted`: a row in
  force has a goroutine that is still to list the clients, or has those against it on its list).
* `BanHitsAuthorCorrect`: `Banning`, what is stored and what `job` holds at each place of `ban`,
  and `FoundAuthor`: the connection that was found still fits the entry, unless it has `moved`.
* `ExpelledAreBannedCorrect`: from `Banning`. What the ban was given is still what its rows say,
  and a row that does not expire before the clock is one the lookup finds (`RowInForce`,
  `RowKeepsOut`); for KILL that is the row of the address, the only one `handleConnection` asks
  about.
* `MembersWereToldCorrect`: `Outside`, which clients can be members, told or lost at each place of
  their goroutine.
* `RevealedNamesHoldCorrect`: entries are only added at the end of a log or all forgotten.
* `PagesShowAllCorrect`, for a log of any length and pages of any size: a page begins at a place
  of the *whole* log and has the first `PerPage` entries from there that are shown. The page on
  which an entry is found is the first one from whose beginning fewer than `PerPage` shown entries
  precede it (`PageFound`); every page before that one is full before it reaches the entry, which
  therefore remains, so that the page names the next (`FullBefore`). `PageFits` bounds a page.
  None of this is an induction over the log: the first such page is the least element of a set of
  numbers (`LeastNatural`).

`DatabaseProofs`, for any sessions, names, passwords and accounts:

* `DInv`, of `TypeOK`, `Quiet` (no session acts while the process starts), `AdminFirst`,
  `Founding` (what has been inserted at each place of the initialisation, unless the channel
  `failed`), `Lookups` (what a session has found still holds unless it is overtaken),
  `AccountsOpen` and `NamesDiffer`, is inductive, and the theorems about `Database` alone follow
  from it, among them `StartKeepsAccountsCorrect`: starting changes no account, which no run
  checks.
* `ActsAtomicallyCorrect`: `Spec => ActsAtomically`, the refinement, step by step. `Lookups` has
  what it needs at the update: unless overtaken, the account has the name and the key of the
  credentials that were looked up, and the new name is free. `Torn`: the torn accounts have rows.
  Each update is split on whether the session was overtaken (`UpdateChanges`, `UpdateSpoils`),
  with `UpdateEnds` for what becomes of the commands of the others.

`ListenersProofs`, for any number of callers, certificates and any capacity: `TypeOK`,
`NoReloadLost`, and `UnreadForGoodCorrect`, which no run checks: the exception of `ReloadReturns`
is for good.

## 6. What is only model-checked

Liveness: `TerminatingLeaves`, `CountsSettle`, `PlainLeaves`, `WriteReturns`, `KillReturns`,
`EndsForGood`, `ReloadReturns`, `ConfiguredIsServed` (TLAPS has no rule for fairness and ENABLED
here). Every other property of a passing run is proved for all values of the constants.

## 7. What is not modelled, and what is taken for granted

* *Granularity.* A row of the database, an access to a `sync.Map`, a read or write of a mode is
  atomic. `Client.state`, `account`, `nick` and `topic` are read and written without locks; a torn
  value is not modelled for them. Two `loadConfig` at once write the same structure, which is a
  data race: they are taken one after the other.
* *Time.* The entries of a log have different nanoseconds (two in the same one would be one
  entry). The clock does not go back.
* *Hashes.* The hash of an address or of a name and password is taken to be injective. The text
  `user-password` that is hashed is not (`a-b` and `c`, `a` and `b-c`), but the name is compared
  as well.
* *The database.* A failing statement does what its caller does with the error. Most callers
  panic: that is a crash, and a step of `Database`. `Initialize` ignores it (`database.go:175,
  178`): `FoundingFails`. `canJoin` refuses the client (`server.go:320`): `JoinRefused` in
  `Server`, `Refuse` in `Moderation`; in `Membership` such a client has not asked to join. `ban`
  returns it (829-839): `BanFails` in `Moderation`.
* *Commands without an effect.* LIST, WHO, WHOIS, ISON, AWAY, HELP, INFO and STATS answer and
  change nothing. REGISTER adds no account; DROP, GRANT, AUDIT and UPGRADE are in the table of
  commands and are not implemented. `printModes` is the text of a reply.
* *Outside.* The IRC encoding, TLS and the SQL driver are libraries; the models use what the code
  relies on. Flags and profiling (`main.go`) have no part in what the server does. `odyssey.go` is
  some ten thousand lines of text in a string constant and one function of fourteen lines that
  picks one of them: it is most of the lines of the repository, and there is nothing to model in
  it.

What could still be done: a module of several channels in which `ban` and `updateClientCount`
interleave step by step at once, so that the exceptions `disturbed` and `spared` meet; and the
second buffer between `handleWrite` and TLS, of which `Connection` knows only that it fails or
delivers.
