------------------------------ MODULE Database ------------------------------
(***************************************************************************)
(* The database of the server (src/database.go) and the commands that      *)
(* change accounts (src/server.go): the process starts, initialises an     *)
(* empty database, serves IDENTIFY, USERNAME and PASSWORD of many sessions *)
(* at once, and may end at any moment.  Every SQL statement is atomic, and *)
(* nothing more is: a command that looks up, checks and updates does so in *)
(* three statements without a transaction, and so does the initialisation. *)
(***************************************************************************)
EXTENDS Naturals, FiniteSets

CONSTANTS
    Sessions,   \* connections that have a goroutine
    Ids,        \* column id of table accounts; 1 is the administrator's
    NoId,       \* account 0
    Names,      \* usernames
    NoName,     \* there is no such row
    Passwords,
    Admin,      \* "admin"
    Default,    \* "password"
    Lobby,      \* CHANNEL_LOBBY
    Server      \* CHANNEL_SERVER

ASSUME DatabaseAssumption ==
    /\ 1 \in Ids /\ NoId \notin Ids
    /\ Admin \in Names /\ NoName \notin Names /\ Default \in Passwords
    /\ Lobby # Server

VARIABLES
    start,      \* how far the process is: down, initialising or serving
    name,       \* table accounts: the username of each row
    key,        \* table accounts: username and password, hashed together
    founded,    \* table channels
    granted,    \* table permissions: the channels account 1 is SUPERADMIN of
    account,    \* Client.account
    at,         \* where the goroutine of a session is
    args,       \* its command: the account found, the credentials, what is new
    overtaken,  \* history: sessions whose lookup another's update has made stale
    torn,       \* history: accounts that such a session has updated
    cut,        \* history: the process ended while it initialised the database
    failed      \* history: channels that a failing statement has left unfounded

table   == <<name, key, founded, granted>>
session == <<account, at, args>>
history == <<overtaken, torn, cut, failed>>
vars    == <<start, table, session, history>>

Channels == {Server, Lobby}
Starting == {"channel &", "permission &", "channel #", "permission #"}
Keys     == Names \X Passwords

NoCommand == [id |-> NoId, user |-> NoName, password |-> Default, new |-> NoName]

Rows == {i \in Ids : name[i] # NoName}

\* AccountU
AccountU(n) == {i \in Rows : name[i] = n}

\* Auth: a row with the username, and with the hash of both
Auth(n, p) == {i \in AccountU(n) : key[i] = <<n, p>>}

Init ==
    /\ start = "down"
    /\ name = [i \in Ids |-> NoName] /\ key = [i \in Ids |-> <<Admin, Default>>]
    /\ founded = {} /\ granted = {}
    /\ account = [s \in Sessions |-> NoId]
    /\ at = [s \in Sessions |-> "read"] /\ args = [s \in Sessions |-> NoCommand]
    /\ overtaken = {} /\ torn = {} /\ cut = FALSE /\ failed = {}

(***************************************************************************)
(* Connect: the tables are created when there are none, and a database     *)
(* without account 1 is initialised, statement by statement.               *)
(***************************************************************************)
Connect ==
    /\ start = "down"
    /\ start' = "connected"
    /\ UNCHANGED <<table, session, history>>

Initialized ==
    /\ start = "connected" /\ 1 \in Rows
    /\ start' = "serving"
    /\ UNCHANGED <<table, session, history>>

\* Mutant: the account is looked for by its first name
AddAdminByName ==
    /\ start = "connected" /\ AccountU(Admin) = {}
    /\ name' = [name EXCEPT ![1] = Admin]
    /\ key' = [key EXCEPT ![1] = <<Admin, Default>>]
    /\ start' = "channel &"
    /\ UNCHANGED <<founded, granted, session, history>>

AddAdmin ==
    /\ start = "connected" /\ 1 \notin Rows
    /\ name' = [name EXCEPT ![1] = Admin]
    /\ key' = [key EXCEPT ![1] = <<Admin, Default>>]
    /\ start' = "channel &"
    /\ UNCHANGED <<founded, granted, session, history>>

\* AddChannel, whose last statement is SetPermission
AddChannel(ch, from, to) ==
    /\ start = from /\ start' = to
    /\ founded' = founded \cup {ch}
    /\ UNCHANGED <<name, key, granted, session, history>>

\* Mutant: a row that is not there is to be updated
SetPermissionUpdate(ch, from, to) ==
    /\ start = from /\ start' = to
    /\ UNCHANGED <<table, session, history>>

SetPermission(ch, from, to) ==
    /\ start = from /\ start' = to
    /\ granted' = granted \cup {ch}
    /\ UNCHANGED <<name, key, founded, session, history>>

(***************************************************************************)
(* A statement of AddChannel fails: its error keeps the permission from    *)
(* being set, and Initialize does not look at it.  (An account that cannot *)
(* be added ends the process: Crash.)                                      *)
(***************************************************************************)
FoundingFails(ch, stages, to) ==
    /\ start \in stages /\ start' = to
    /\ failed' = failed \cup {ch}
    /\ UNCHANGED <<table, session, overtaken, torn, cut>>

Initialize ==
    \/ Initialized \/ AddAdmin
    \/ AddChannel(Server, "channel &", "permission &")
    \/ SetPermission(Server, "permission &", "channel #")
    \/ AddChannel(Lobby, "channel #", "permission #")
    \/ SetPermission(Lobby, "permission #", "serving")
    \/ FoundingFails(Server, {"channel &", "permission &"}, "channel #")
    \/ FoundingFails(Lobby, {"channel #", "permission #"}, "serving")

\* the process ends: the goroutines are gone, the tables stay
Ended ==
    /\ start' = "down"
    /\ account' = [s \in Sessions |-> NoId]
    /\ at' = [s \in Sessions |-> "read"] /\ args' = [s \in Sessions |-> NoCommand]
    /\ overtaken' = {}
    /\ cut' = (cut \/ start \in Starting)
    /\ UNCHANGED <<table, torn, failed>>

Crash == start # "down" /\ Ended

(***************************************************************************)
(* REGISTER adds no account; an operator may, with the tools of the        *)
(* database.                                                               *)
(***************************************************************************)
Insert(i, n, p) ==
    /\ start = "serving" /\ i \notin Rows /\ AccountU(n) = {}
    /\ \A s \in Sessions : at[s] = "read"
    /\ name' = [name EXCEPT ![i] = n] /\ key' = [key EXCEPT ![i] = <<n, p>>]
    /\ UNCHANGED <<start, founded, granted, session, history>>

Reading(s) == start = "serving" /\ at[s] = "read"

\* IDENTIFY and PASS
Identify(s, n, p) ==
    /\ Reading(s)
    /\ \E i \in Auth(n, p) : account' = [account EXCEPT ![s] = i]
    /\ UNCHANGED <<start, table, at, args, history>>

\* Mutant: that no account was found is not looked at
BeginUnchecked(s, n, p, new, next) ==
    /\ Reading(s) /\ account[s] # NoId
    /\ \E i \in Auth(n, p) \cup {NoId} :
          args' = [args EXCEPT ![s] = [id |-> i, user |-> n, password |-> p, new |-> new]]
    /\ at' = [at EXCEPT ![s] = next]
    /\ UNCHANGED <<start, table, account, history>>

\* what USERNAME and PASSWORD begin with; both need a session that identified
Begin(s, n, p, new, next) ==
    /\ Reading(s) /\ account[s] # NoId
    /\ \E i \in Auth(n, p) :
          args' = [args EXCEPT ![s] = [id |-> i, user |-> n, password |-> p, new |-> new]]
    /\ at' = [at EXCEPT ![s] = next]
    /\ UNCHANGED <<start, table, account, history>>

Username(s, n, p, new) == new \in Names /\ Begin(s, n, p, new, "username")
Password(s, n, p, new) == new \in Passwords /\ Begin(s, n, p, new, "password")

(***************************************************************************)
(* An update makes stale what another session has found of the account, or *)
(* of the username that is taken now.                                      *)
(***************************************************************************)
Update(s, i, n, k) ==
    /\ name' = [name EXCEPT ![i] = n] /\ key' = [key EXCEPT ![i] = k]
    /\ at' = [at EXCEPT ![s] = "read"] /\ args' = [args EXCEPT ![s] = NoCommand]
    /\ overtaken' = (overtaken \ {s}) \cup
          {t \in Sessions \ {s} : \/ at[t] # "read" /\ args[t].id = i
                                  \/ at[t] = "free" /\ args[t].new = n}
    /\ torn' = IF s \in overtaken THEN torn \cup {i} ELSE torn
    /\ UNCHANGED <<start, founded, granted, account, cut, failed>>

\* SetUsername: the new name must be free, ...
\* Mutant: the name is not looked up
UsernameFreeUnchecked(s) ==
    /\ at[s] = "username"
    /\ at' = [at EXCEPT ![s] = "free"]
    /\ UNCHANGED <<start, table, account, args, history>>

UsernameFree(s) ==
    /\ at[s] = "username" /\ AccountU(args[s].new) = {}
    /\ at' = [at EXCEPT ![s] = "free"]
    /\ UNCHANGED <<start, table, account, args, history>>

\* ... and one that is taken is an error that ends the process
UsernameTaken(s) ==
    /\ at[s] = "username" /\ AccountU(args[s].new) # {}
    /\ Ended

\* Mutant: the hash, which the name is part of, is left as it was
SetUsernameOnly(s) ==
    /\ at[s] = "free"
    /\ Update(s, args[s].id, args[s].new, key[args[s].id])

SetUsername(s) ==
    /\ at[s] = "free"
    /\ Update(s, args[s].id, args[s].new, <<args[s].new, args[s].password>>)

SetPassword(s) ==
    /\ at[s] = "password"
    /\ Update(s, args[s].id, name[args[s].id], <<args[s].user, args[s].new>>)

Handle(s) ==
    \/ \E n \in Names, p \in Passwords :
          \/ Identify(s, n, p)
          \/ \E new \in Names : Username(s, n, p, new)
          \/ \E new \in Passwords : Password(s, n, p, new)
    \/ UsernameFree(s) \/ UsernameTaken(s) \/ SetUsername(s) \/ SetPassword(s)

Next ==
    \/ Connect \/ Initialize \/ Crash
    \/ \E i \in Ids, n \in Names, p \in Passwords : Insert(i, n, p)
    \/ \E s \in Sessions : Handle(s)

Spec == Init /\ [][Next]_vars

(***************************************************************************)
(* Properties.                                                             *)
(***************************************************************************)

(***************************************************************************)
(* The tables, the sessions and the histories are of their types, and no   *)
(* session is identified, or in a command, for an account that has no row. *)
(***************************************************************************)
TypeOK ==
    /\ start \in Starting \cup {"down", "connected", "serving"}
    /\ name \in [Ids -> Names \cup {NoName}] /\ key \in [Ids -> Keys]
    /\ founded \subseteq Channels /\ granted \subseteq Channels
    /\ account \in [Sessions -> Rows \cup {NoId}]
    /\ at \in [Sessions -> {"read", "username", "free", "password"}]
    /\ args \in [Sessions -> [id : Rows \cup {NoId}, user : Names \cup {NoName},
                              password : Passwords, new : Names \cup Passwords \cup {NoName}]]
    /\ \A s \in Sessions : at[s] # "read" => args[s].id \in Rows /\ args[s].user \in Names
    /\ \A s \in Sessions : at[s] \in {"username", "free"} => args[s].new \in Names
    /\ \A s \in Sessions : at[s] = "password" => args[s].new \in Passwords
    /\ overtaken \subseteq Sessions /\ torn \subseteq Ids /\ cut \in BOOLEAN
    /\ failed \subseteq Channels

(***************************************************************************)
(* Every account has a password that opens it, through all changes of its  *)
(* name and password, and wherever the process ends.  The exception is an  *)
(* account updated by a session whose lookup another's update had made     *)
(* stale.  Of those, a PASSWORD that a USERNAME has overtaken leaves a     *)
(* hash of a name the account no longer has, and nobody can identify to it *)
(* again (database.go:217, 245-268, server.go:978-988, 1004-1014).         *)
(***************************************************************************)
AccountsOpen ==
    \A i \in Rows : (\E p \in Passwords : i \in Auth(name[i], p)) \/ i \in torn

(***************************************************************************)
(* No two accounts have one name, unless one of them took it when the name *)
(* had been looked up before another took it (database.go:246-253).        *)
(***************************************************************************)
NamesDiffer ==
    \A i, j \in Rows : i # j /\ name[i] = name[j] => {i, j} \cap torn # {}

(***************************************************************************)
(* A server that serves has founded both its channels, and account 1 is    *)
(* the SUPERADMIN of each, but for two exceptions that no later start      *)
(* repairs, because the account is there: the process ended once in the    *)
(* middle of the initialisation, or a statement that founds the channel    *)
(* failed and its error was ignored.  Such a failure leaves the other      *)
(* channel as it should be (database.go:159-181, 285-360).                 *)
(***************************************************************************)
ServesFounded ==
    start = "serving" => cut \/ \A ch \in Channels \ failed : ch \in founded \cap granted

(***************************************************************************)
(* Starting the server changes no account there is: not its name, not its  *)
(* password, whatever they have been changed to (database.go:160-169).     *)
(***************************************************************************)
StartKeepsAccounts ==
    [][start # "serving" => \A i \in Rows : name'[i] = name[i] /\ key'[i] = key[i]]_vars

(***************************************************************************)
(* The database and the sessions implement the specification Accounts: an  *)
(* account is known by its name and the passwords Auth accepts for it, and *)
(* a command that nobody has overtaken is as good as atomic, wherever the  *)
(* process ends and starts again (database.go:159-181, 217, 245-268,       *)
(* server.go:962-1014).                                                    *)
(***************************************************************************)
Opens(i) == {p \in Passwords : i \in Auth(name[i], p)}

Command(s) ==
    IF at[s] = "read" THEN "none" ELSE IF at[s] = "password" THEN "password" ELSE "username"

Atomic == INSTANCE Accounts WITH
    NoRequest  <- NoCommand,
    accounts   <- [i \in Rows \ torn |-> [name |-> name[i], opens |-> Opens(i)]],
    lost       <- torn,
    identified <- account,
    command    <- [s \in Sessions |-> Command(s)],
    request    <- args,
    disturbed  <- overtaken

ActsAtomically == Atomic!Spec

=============================================================================
