-------------------------- MODULE ModerationProofs --------------------------
(***************************************************************************)
(* Theorems about module Moderation, for any number of connections,        *)
(* addresses, accounts, rows and entries of the log, and any durations.    *)
(***************************************************************************)
EXTENDS Moderation, FiniteSetTheorems, TLAPS

Entries == [author : Authors, action : Actions, digits : Digits]

Jobs == [scope : Scopes, author : Authors \cup {NoAccount},
         client : Clients \cup {NoAccount},
         address : Addresses \cup {NoAccount}, account : Accounts \cup {NoAccount},
         expires : Nat, left : SUBSET Clients]

USE DEF registry, channel

(***************************************************************************)
(* Arithmetic that wraps yields integers.                                  *)
(***************************************************************************)
LEMMA WrapType == ASSUME NEW n \in Int PROVE Wrap(n) \in Int
  BY ModerationAssumption DEF Wrap

LEMMA ExpiresType ==
    ASSUME now \in Nat, NEW d \in Durations, Accepted(d)
    PROVE  Expires(d) \in Nat
<1>1. ParseDuration(d) \in Int
  BY WrapType, ModerationAssumption DEF ParseDuration
<1>2. Expires(d) \in Int
  BY <1>1, WrapType DEF Expires
<1> QED
  BY <1>2 DEF Accepted

(***************************************************************************)
(* What is written to the log is an entry; a part keeps types.             *)
(***************************************************************************)
LEMMA AuthorType == ASSUME TypeOK, NEW c \in Clients PROVE Author(c) \in Authors
  BY ModerationAssumption DEF TypeOK, Author, Authors

LEMMA LogType ==
    ASSUME TypeOK, NEW c \in Clients, NEW action \in Actions, Log(c, action)
    PROVE  log' \in Seq(Entries) /\ Len(log') <= MaxLog
<1>1. PICK d \in Digits :
         log' = IF Len(log) < MaxLog
                THEN Append(log, [author |-> Author(c), action |-> action, digits |-> d])
                ELSE log
  BY DEF Log
<1>2. [author |-> Author(c), action |-> action, digits |-> d] \in Entries
  BY AuthorType DEF Entries
<1>3. log \in Seq(Entries) /\ Len(log) <= MaxLog /\ Len(log) \in Nat /\ MaxLog \in Nat
  BY ModerationAssumption DEF TypeOK, Entries
<1> QED
  BY <1>1, <1>2, <1>3

LEMMA PartType ==
    ASSUME TypeOK, NEW c \in Clients, PartChannel(c)
    PROVE  /\ members' \subseteq members /\ told' \subseteq told /\ lost' \subseteq lost
           /\ log' \in Seq(Entries) /\ Len(log') <= MaxLog
<1>1. CASE c \in clients \cap members
  BY <1>1, LogType DEF PartChannel, Actions
<1>2. CASE c \notin clients \cap members
  BY <1>2 DEF PartChannel, TypeOK, Entries
<1> QED
  BY <1>1, <1>2

LEMMA RevealedType ==
    ASSUME NEW id, NEW r \in Revealed(id)
    PROVE  r.client \in clients /\ SameAuthor(r.client, r.author)
  BY DEF Revealed

LEMMA RevealedAuthor ==
    ASSUME TypeOK, NEW id, NEW r \in Revealed(id)
    PROVE  r.author \in Authors
<1>1. r.author \in {log[i + 1].author : i \in Named(log, id)}
  BY DEF Revealed
<1>2. PICK i \in Named(log, id) : r.author = log[i + 1].author
  BY <1>1
<1>3. i + 1 \in 1..Len(log) /\ log \in Seq(Entries)
  BY DEF Named, Places, TypeOK, Entries
<1>4. log[i + 1] \in Entries
  BY <1>3
<1> QED
  BY <1>2, <1>4 DEF Entries

LEMMA InitTypeOK == Init => TypeOK
<1> SUFFICES ASSUME Init PROVE TypeOK
  OBVIOUS
<1>1. Idle \in Jobs
  BY DEF Idle, Jobs, Scopes
<1>2. job \in [Clients -> Jobs]
  BY <1>1 DEF Init
<1>3. now \in 1..MaxTime /\ Len(log) <= MaxLog
  BY ModerationAssumption DEF Init
<1>4. log \in Seq([author : Authors, action : Actions, digits : Digits])
  BY DEF Init
<1>5. at \in [Clients -> Stages]
  BY DEF Init, Stages
<1> QED
  BY <1>2, <1>3, <1>4, <1>5 DEF Init, TypeOK, Jobs

LEMMA AtType ==
    ASSUME TypeOK, NEW c \in Clients, NEW s \in Stages, Goto(c, s)
    PROVE  /\ at' \in [Clients -> Stages] /\ at'[c] = s
           /\ \A d \in Clients \ {c} : at'[d] = at[d]
  BY DEF TypeOK, Goto

LEMMA AddBanType ==
    ASSUME TypeOK, NEW m \in Clients, NEW target \in Targets, AddBan(m, target)
    PROVE  /\ bans' \subseteq [scope : Scopes, target : Targets, expires : Nat]
           /\ spared' \subseteq Clients \X Scopes
<1>1. job[m].scope \in Scopes /\ job[m].expires \in Nat
  BY DEF TypeOK
<1>2. Entering(job[m].scope) \subseteq Clients
  BY DEF Entering
<1> QED
  BY <1>1, <1>2 DEF TypeOK, AddBan

(***************************************************************************)
(* The arguments of a ban: there is an address, an account where one is    *)
(* needed, and a row is stored when the ban goes on to the next.           *)
(***************************************************************************)
Row(m, target) ==
    [scope |-> job[m].scope, target |-> target, expires |-> job[m].expires]

Banning ==
    \A m \in Clients :
        /\ at[m] \in {"found", "part"} => job[m].client \in Clients
        /\ at[m] \in {"rows", "account", "snapshot", "expel", "part"} =>
              job[m].address \in Addresses
        /\ at[m] = "account" => job[m].account \in Accounts
        /\ at[m] \in {"account", "snapshot", "expel", "part"} =>
              Row(m, job[m].address) \in bans
        /\ at[m] \in {"snapshot", "expel", "part"} /\ job[m].account # NoAccount =>
              Row(m, job[m].account) \in bans

LEMMA AccountType ==
    ASSUME TypeOK, NEW c \in Clients, NEW a \in Accounts, SetAccount(c, a)
    PROVE  /\ account' \in [Clients -> Accounts \cup {NoAccount}]
           /\ moved' \subseteq Clients /\ moved \subseteq moved'
           /\ \A d \in Clients \ {c} : account'[d] = account[d]
           /\ \A m \in Clients : at[m] = "found" /\ job[m].client = c =>
                 m \in moved' \/ account' = account
  BY DEF TypeOK, SetAccount

(***************************************************************************)
(* Every step keeps the types: those of connections and of joins ...       *)
(***************************************************************************)
LEMMA ConnectionTypes ==
    ASSUME TypeOK, NEW c \in Clients,
           Accept(c) \/ Store(c) \/ Pass(c) \/ JoinCommand(c) \/ Exit(c)
    PROVE  TypeOK'
<1>1. CASE Accept(c)
  <2>1. Goto(c, "accepted") /\ "accepted" \in Stages
    BY <1>1 DEF Accept, Stages
  <2>2. account' \in [Clients -> Accounts \cup {NoAccount}]
    BY <1>1 DEF Accept, TypeOK
  <2> QED
    BY <1>1, <2>1, <2>2, AtType DEF Accept, TypeOK
<1>2. CASE Store(c)
  <2>1. Goto(c, "login") /\ "login" \in Stages
    BY <1>2 DEF Store, Stages
  <2> QED
    BY <1>2, <2>1, AtType DEF Store, TypeOK
<1>3. CASE Pass(c)
  BY <1>3, AccountType DEF Pass, TypeOK
<1>4. CASE JoinCommand(c)
  <2>1. Goto(c, "join") /\ "join" \in Stages
    BY <1>4 DEF JoinCommand, Stages
  <2> QED
    BY <1>4, <2>1, AtType DEF JoinCommand, TypeOK
<1>5. CASE Exit(c)
  <2>1. Goto(c, "offline") /\ "offline" \in Stages
    BY <1>5 DEF Exit, Stages
  <2> QED
    BY <1>5, <2>1, AtType DEF Exit, TypeOK
<1> QED
  BY <1>1, <1>2, <1>3, <1>4, <1>5

LEMMA JoinTypes ==
    ASSUME TypeOK, NEW c \in Clients,
           FindNone(c) \/ Create(c) \/ Admit(c) \/ Refuse(c) \/ JoinStore(c)
    PROVE  TypeOK'
<1>1. CASE FindNone(c)
  <2>1. Goto(c, "create") /\ "create" \in Stages
    BY <1>1 DEF FindNone, Stages
  <2> QED
    BY <1>1, <2>1, AtType DEF FindNone, TypeOK
<1>2. CASE Create(c)
  <2>1. Goto(c, "store") /\ "store" \in Stages
    BY <1>2 DEF Create, Stages
  <2>2. log' \in Seq([author : Authors, action : Actions, digits : Digits])
        /\ Len(log') <= MaxLog
    BY <1>2, ModerationAssumption DEF Create
  <2>3. spared' \subseteq Clients \X Scopes
    BY <1>2 DEF Create, TypeOK, Scopes
  <2> QED
    BY <1>2, <2>1, <2>2, <2>3, AtType DEF Create, TypeOK
<1>3. CASE Admit(c)
  <2>1. Goto(c, "store") /\ "store" \in Stages
    BY <1>3 DEF Admit, Stages
  <2> QED
    BY <1>3, <2>1, AtType DEF Admit, TypeOK
<1>4. CASE Refuse(c)
  <2>1. Goto(c, "read") /\ "read" \in Stages
    BY <1>4 DEF Refuse, Stages
  <2> QED
    BY <1>4, <2>1, AtType DEF Refuse, TypeOK
<1>5. CASE JoinStore(c)
  <2>1. Goto(c, "read") /\ "read" \in Stages
    BY <1>5 DEF JoinStore, Stages
  <2>2. log' \in Seq([author : Authors, action : Actions, digits : Digits])
        /\ Len(log') <= MaxLog
    BY <1>5, LogType DEF JoinStore, TypeOK, Actions, Entries
  <2> QED
    BY <1>5, <2>1, <2>2, AtType DEF JoinStore, TypeOK
<1> QED
  BY <1>1, <1>2, <1>3, <1>4, <1>5

(***************************************************************************)
(* ... those of members, and a KICK, ...                                   *)
(***************************************************************************)
LEMMA MemberTypes ==
    ASSUME TypeOK, NEW c \in Clients,
           \/ Identify(c) \/ PartIfBanned(c) \/ Part(c) \/ Privmsg(c)
           \/ Quit(c) \/ QuitPart(c) \/ Kick(c)
    PROVE  TypeOK'
<1>1. CASE Identify(c)
  <2>1. Goto(c, "identified") /\ "identified" \in Stages
    BY <1>1 DEF Identify, Stages
  <2>2. account' \in [Clients -> Accounts \cup {NoAccount}] /\ moved' \subseteq Clients
    BY <1>1, AccountType DEF Identify
  <2> QED
    BY <1>1, <2>1, <2>2, AtType DEF Identify, TypeOK
<1>2. CASE PartIfBanned(c)
  <2>1. Goto(c, "read") /\ "read" \in Stages
    BY <1>2 DEF PartIfBanned, Stages
  <2>2. CASE IsBanned(c, Chat)
    BY <1>2, <2>1, <2>2, AtType, PartType DEF PartIfBanned, TypeOK, Entries
  <2>3. CASE ~IsBanned(c, Chat)
    BY <1>2, <2>1, <2>3, AtType DEF PartIfBanned, TypeOK
  <2> QED
    BY <2>2, <2>3
<1>3. CASE Part(c)
  BY <1>3, PartType DEF Part, TypeOK, Entries
<1>4. CASE Privmsg(c)
  BY <1>4, LogType DEF Privmsg, TypeOK, Entries, Actions
<1>5. CASE Quit(c)
  <2>1. Goto(c, "quit") /\ "quit" \in Stages
    BY <1>5 DEF Quit, Stages
  <2> QED
    BY <1>5, <2>1, AtType DEF Quit, TypeOK
<1>7. CASE QuitPart(c)
  <2>1. Goto(c, "read") /\ "read" \in Stages
    BY <1>7 DEF QuitPart, Stages
  <2> QED
    BY <1>7, <2>1, AtType, PartType DEF QuitPart, TypeOK, Entries
<1>6. CASE Kick(c)
  <2>1. PICK id \in Identifiers : \E r \in Revealed(id) : PartChannel(r.client)
    BY <1>6 DEF Kick
  <2>2. PICK r \in Revealed(id) : PartChannel(r.client)
    BY <2>1
  <2>3. r.client \in Clients
    BY RevealedType DEF TypeOK
  <2> QED
    BY <1>6, <2>2, <2>3, PartType DEF Kick, TypeOK, Entries
<1> QED
  BY <1>1, <1>2, <1>3, <1>4, <1>5, <1>6, <1>7

(***************************************************************************)
(* ... and those of BAN and KILL.                                          *)
(***************************************************************************)
Alone(m) == \A d \in Clients \ {m} : at'[d] = at[d] /\ job'[d] = job[d]

LEMMA BanSteps ==
    ASSUME TypeOK, NEW m \in Clients, Ban(m)
    PROVE  /\ TypeOK' /\ at'[m] = "found" /\ at[m] = "read" /\ Alone(m)
           /\ job'[m].client \in Clients /\ job'[m].left = {}
           /\ SameAuthor(job'[m].client, job'[m].author)
<1> DEFINE Begun(scope, r) ==
      [Idle EXCEPT !.scope = scope, !.author = r.author, !.client = r.client]
<1>0. PICK scope \in Commands(m), id \in Identifiers :
         \E r \in Revealed(id) : job' = [job EXCEPT ![m] = Begun(scope, r)]
  BY DEF Ban
<1>1. PICK r \in Revealed(id) : job' = [job EXCEPT ![m] = Begun(scope, r)]
  BY <1>0
<1>2. scope \in Scopes
  BY DEF Commands, Scopes
<1>3. r.client \in Clients /\ SameAuthor(r.client, r.author) /\ r.author \in Authors
  BY RevealedType, RevealedAuthor DEF TypeOK
<1>4. /\ Begun(scope, r) \in Jobs /\ Begun(scope, r).left = {}
      /\ Begun(scope, r).client = r.client /\ Begun(scope, r).author = r.author
  BY <1>2, <1>3 DEF Jobs, Idle
<1> HIDE DEF Begun
<1>5. job' \in [Clients -> Jobs] /\ job'[m] = Begun(scope, r)
      /\ \A e \in Clients \ {m} : job'[e] = job[e]
  BY <1>1, <1>4 DEF TypeOK, Jobs
<1>6. Goto(m, "found") /\ "found" \in Stages /\ at[m] = "read"
  BY DEF Ban, Stages, Reading
<1>7. TypeOK'
  BY <1>5, <1>6, AtType DEF Ban, TypeOK, Jobs
<1>8. at'[m] = "found" /\ \A e \in Clients \ {m} : at'[e] = at[e]
  BY <1>6, AtType
<1> QED
  BY <1>3, <1>4, <1>5, <1>6, <1>7, <1>8 DEF Alone

LEMMA SentenceSteps ==
    ASSUME TypeOK, Banning, NEW m \in Clients, Sentence(m)
    PROVE  /\ TypeOK' /\ at'[m] = "rows" /\ at[m] = "found" /\ Alone(m)
           /\ job'[m].author = job[m].author
           /\ job'[m].address = Address[job[m].client] /\ job'[m].address \in Addresses
           /\ job'[m].account = account[job[m].client]
<1>1. PICK d \in Durations :
        /\ Accepted(d)
        /\ job' = [job EXCEPT ![m].address = Address[job[m].client],
                              ![m].account = account[job[m].client],
                              ![m].expires = Expires(d), ![m].client = NoAccount]
  BY DEF Sentence
<1>2. Expires(d) \in Nat
  BY <1>1, ExpiresType, ModerationAssumption DEF TypeOK
<1>3. job[m].client \in Clients
  BY DEF Sentence, Banning
<1>4. /\ Address[job[m].client] \in Addresses
      /\ account[job[m].client] \in Accounts \cup {NoAccount}
  BY <1>3, ModerationAssumption DEF TypeOK
<1> DEFINE j == [job[m] EXCEPT !.address = Address[job[m].client],
                               !.account = account[job[m].client],
                               !.expires = Expires(d), !.client = NoAccount]
<1>5. job \in [Clients -> Jobs] /\ job[m] \in Jobs
  BY DEF TypeOK, Jobs
<1>6. /\ j \in Jobs /\ j.author = job[m].author
      /\ j.address = Address[job[m].client] /\ j.account = account[job[m].client]
  BY <1>2, <1>4, <1>5 DEF Jobs
<1>7. job' = [job EXCEPT ![m] = j]
  BY <1>1
<1> HIDE DEF j
<1>8. job' \in [Clients -> Jobs] /\ job'[m] = j /\ \A e \in Clients \ {m} : job'[e] = job[e]
  BY <1>5, <1>6, <1>7
<1>9. Goto(m, "rows") /\ "rows" \in Stages /\ at[m] = "found"
  BY DEF Sentence, Stages
<1>10. TypeOK'
  BY <1>8, <1>9, AtType DEF Sentence, TypeOK, Jobs
<1>11. at'[m] = "rows" /\ \A e \in Clients \ {m} : at'[e] = at[e]
  BY <1>9, AtType
<1> QED
  BY <1>4, <1>6, <1>8, <1>9, <1>10, <1>11 DEF Alone

LEMMA RowTypes ==
    ASSUME TypeOK, Banning, NEW m \in Clients, BanAddress(m) \/ BanAccount(m)
    PROVE  TypeOK'
<1>1. CASE BanAddress(m)
  <2>1. PICK s \in Stages : Goto(m, s)
    BY <1>1 DEF BanAddress, Stages
  <2>2. job[m].address \in Targets /\ AddBan(m, job[m].address)
    BY <1>1 DEF BanAddress, Banning, Targets
  <2> QED
    BY <2>1, <2>2, AtType, AddBanType DEF AddBan, TypeOK
<1>2. CASE BanAccount(m)
  <2>1. Goto(m, "snapshot") /\ "snapshot" \in Stages
    BY <1>2 DEF BanAccount, Stages
  <2>2. job[m].account \in Targets /\ AddBan(m, job[m].account)
    BY <1>2 DEF BanAccount, Banning, Targets
  <2> QED
    BY <2>1, <2>2, AtType, AddBanType DEF AddBan, TypeOK
<1> QED
  BY <1>1, <1>2

\* a command that returns, with what it was asked for done or not
LEMMA ReturnSteps ==
    ASSUME TypeOK, NEW m \in Clients, Finish(m) \/ BanFails(m)
    PROVE  /\ TypeOK' /\ at'[m] = "read" /\ Alone(m)
           /\ spared \subseteq spared' /\ moved' = moved \ {m}
           /\ UNCHANGED <<registry, channel, bans, now>>
<1>1. Return(m) /\ UNCHANGED <<registry, channel, bans, now>>
  BY DEF Finish, BanFails
<1>2. Goto(m, "read") /\ "read" \in Stages
  BY <1>1 DEF Return, Stages
<1>3. Idle \in Jobs
  BY DEF Idle, Jobs, Scopes
<1>4. job' \in [Clients -> Jobs] /\ \A e \in Clients \ {m} : job'[e] = job[e]
  BY <1>1, <1>3 DEF Return, TypeOK, Jobs
<1>5. spared \subseteq spared' /\ spared' \subseteq Clients \X Scopes
  <2>1. CASE Finish(m)
    BY <2>1 DEF Finish, TypeOK
  <2>2. CASE BanFails(m)
    <3>1. Sought(job[m].scope) \subseteq Clients /\ job[m].scope \in Scopes
      BY DEF Sought, TypeOK
    <3> QED
      BY <2>2, <3>1 DEF BanFails, TypeOK
  <2> QED
    BY <2>1, <2>2
<1>6. moved' = moved \ {m}
  BY <1>1 DEF Return
<1>7. TypeOK'
  BY <1>1, <1>2, <1>4, <1>5, <1>6, AtType DEF TypeOK, Jobs
<1>8. at'[m] = "read" /\ \A e \in Clients \ {m} : at'[e] = at[e]
  BY <1>2, AtType
<1> QED
  BY <1>1, <1>4, <1>5, <1>6, <1>7, <1>8 DEF Alone

(***************************************************************************)
(* While it removes clients, a goroutine keeps the arguments of its ban.   *)
(***************************************************************************)
Keeps(m) ==
    /\ job' \in [Clients -> Jobs]
    /\ job'[m].scope = job[m].scope /\ job'[m].author = job[m].author
    /\ job'[m].address = job[m].address /\ job'[m].account = job[m].account
    /\ job'[m].expires = job[m].expires
    /\ \A e \in Clients \ {m} : job'[e] = job[e]

\* a record with the same arguments
Alike(j, m) ==
    /\ j \in Jobs
    /\ j.scope = job[m].scope /\ j.author = job[m].author
    /\ j.address = job[m].address /\ j.account = job[m].account
    /\ j.expires = job[m].expires

LEMMA KeepsFields ==
    ASSUME TypeOK, NEW m \in Clients, NEW j, Alike(j, m), job' = [job EXCEPT ![m] = j]
    PROVE  Keeps(m) /\ job'[m] = j
<1>1. job \in [Clients -> Jobs]
  BY DEF TypeOK, Jobs
<1>2. job'[m] = j /\ job' \in [Clients -> Jobs] /\ \A e \in Clients \ {m} : job'[e] = job[e]
  BY <1>1 DEF Alike
<1> QED
  BY <1>2 DEF Keeps, Alike

LEMMA SnapshotSteps ==
    ASSUME TypeOK, NEW m \in Clients, Snapshot(m)
    PROVE  /\ Keeps(m) /\ job'[m].left = Sought(job[m].scope)
           /\ at[m] = "snapshot" /\ at'[m] = "expel" /\ at' \in [Clients -> Stages]
           /\ Alone(m)
<1> DEFINE j == [job[m] EXCEPT !.left = Sought(job[m].scope)]
<1>1. job' = [job EXCEPT ![m] = j]
  BY DEF Snapshot
<1>2. Alike(j, m) /\ j.left = Sought(job[m].scope)
  <2>1. Sought(job[m].scope) \in SUBSET Clients /\ job[m] \in Jobs
    BY DEF Sought, TypeOK, Jobs
  <2> QED
    BY <2>1 DEF Alike, Jobs
<1>3. Keeps(m) /\ job'[m].left = Sought(job[m].scope)
  <2> HIDE DEF j
  <2> QED
    BY <1>1, <1>2, KeepsFields
<1>4. Goto(m, "expel") /\ "expel" \in Stages /\ at[m] = "snapshot"
  BY DEF Snapshot, Stages
<1> QED
  BY <1>3, <1>4, AtType DEF Alone, Keeps

Marks(m, c) == job[m].scope = Server /\ Matches(job[m], c) /\ c \notin terminating

LEMMA ExpelSteps ==
    ASSUME TypeOK, NEW m \in Clients, NEW c \in Clients, Expel(m, c)
    PROVE  /\ Keeps(m) /\ job'[m].left = job[m].left \ {c}
           /\ at[m] = "expel" /\ at'[m] \in {"expel", "part"} /\ at' \in [Clients -> Stages]
           /\ at'[m] = "part" => job'[m].client \in Clients
           /\ terminating' = IF Marks(m, c) THEN terminating \cup {c} ELSE terminating
           /\ \/ UNCHANGED <<members, log, told, lost>>
              \/ PartChannel(c) /\ job[m].scope = Chat /\ Matches(job[m], c)
           /\ Alone(m)
<1>1. job[m].left \ {c} \in SUBSET Clients /\ job[m] \in Jobs
  BY DEF TypeOK, Jobs
<1>2. CASE Marks(m, c)
  <2>1. /\ terminating' = terminating \cup {c}
        /\ job' = [job EXCEPT ![m].left = @ \ {c}, ![m].client = c]
        /\ Goto(m, "part") /\ UNCHANGED <<members, log, told, lost>>
    BY <1>2 DEF Expel, Marks
  <2> DEFINE j == [job[m] EXCEPT !.left = job[m].left \ {c}, !.client = c]
  <2>2. Alike(j, m) /\ j.left = job[m].left \ {c} /\ j.client = c
    BY <1>1 DEF Alike, Jobs
  <2>3. Keeps(m) /\ job'[m].left = job[m].left \ {c} /\ job'[m].client = c
    <3>1. job' = [job EXCEPT ![m] = j]
      BY <2>1
    <3> HIDE DEF j
    <3> QED
      BY <2>2, <3>1, KeepsFields
  <2>4. "part" \in Stages /\ at[m] = "expel"
    BY DEF Expel, Stages
  <2> QED
    BY <1>2, <2>1, <2>3, <2>4, AtType DEF Alone, Keeps
<1>3. CASE ~Marks(m, c)
  <2>1. /\ job' = [job EXCEPT ![m].left = @ \ {c}]
        /\ IF job[m].scope = Chat /\ Matches(job[m], c)
           THEN PartChannel(c)
           ELSE UNCHANGED <<members, log, told, lost>>
        /\ UNCHANGED <<terminating, at>>
    BY <1>3 DEF Expel, Marks
  <2> DEFINE j == [job[m] EXCEPT !.left = job[m].left \ {c}]
  <2>2. Alike(j, m) /\ j.left = job[m].left \ {c}
    BY <1>1 DEF Alike, Jobs
  <2>3. Keeps(m) /\ job'[m].left = job[m].left \ {c}
    <3>1. job' = [job EXCEPT ![m] = j]
      BY <2>1
    <3> HIDE DEF j
    <3> QED
      BY <2>2, <3>1, KeepsFields
  <2>4. at[m] = "expel" /\ at \in [Clients -> Stages]
    BY DEF Expel, TypeOK
  <2> QED
    BY <1>3, <2>1, <2>3, <2>4 DEF Alone, Keeps
<1> QED
  BY <1>2, <1>3

LEMMA ExpelPartSteps ==
    ASSUME TypeOK, NEW m \in Clients, ExpelPart(m)
    PROVE  /\ Keeps(m) /\ job'[m].left = job[m].left
           /\ at[m] = "part" /\ at'[m] = "expel" /\ at' \in [Clients -> Stages]
           /\ Alone(m)
<1> DEFINE j == [job[m] EXCEPT !.client = NoAccount]
<1>1. job' = [job EXCEPT ![m] = j]
  BY DEF ExpelPart
<1>2. Alike(j, m) /\ j.left = job[m].left
  <2>1. job[m] \in Jobs
    BY DEF TypeOK, Jobs
  <2> QED
    BY <2>1 DEF Alike, Jobs
<1>3. Keeps(m) /\ job'[m].left = job[m].left
  <2> HIDE DEF j
  <2> QED
    BY <1>1, <1>2, KeepsFields
<1>4. Goto(m, "expel") /\ "expel" \in Stages /\ at[m] = "part"
  BY DEF ExpelPart, Stages
<1> QED
  BY <1>3, <1>4, AtType DEF Alone, Keeps

LEMMA ExpelTypes ==
    ASSUME TypeOK, Banning, NEW m \in Clients,
           Snapshot(m) \/ ExpelPart(m) \/ \E c \in Clients : Expel(m, c)
    PROVE  TypeOK'
<1>1. CASE Snapshot(m)
  BY <1>1, SnapshotSteps DEF Snapshot, TypeOK, Keeps, Jobs
<1>2. CASE ExpelPart(m)
  <2>1. job[m].client \in Clients
    BY <1>2 DEF ExpelPart, Banning
  <2> QED
    BY <1>2, <2>1, ExpelPartSteps, PartType DEF ExpelPart, TypeOK, Keeps, Jobs, Entries
<1>3. ASSUME NEW c \in Clients, Expel(m, c) PROVE TypeOK'
  <2>1. terminating' \subseteq Clients /\ job' \in [Clients -> Jobs]
        /\ at' \in [Clients -> Stages]
    BY <1>3, ExpelSteps DEF TypeOK, Keeps
  <2>2. CASE UNCHANGED <<members, log, told, lost>>
    BY <1>3, <2>1, <2>2 DEF Expel, TypeOK, Jobs
  <2>3. CASE PartChannel(c)
    BY <1>3, <2>1, <2>3, PartType DEF Expel, TypeOK, Jobs, Entries
  <2> QED
    BY <1>3, <2>2, <2>3, ExpelSteps
<1> QED
  BY <1>1, <1>2, <1>3

LEMMA TickTypes == ASSUME TypeOK, Tick PROVE TypeOK'
<1>1. now' \in 1..MaxTime
  BY ModerationAssumption DEF Tick, TypeOK
<1> QED
  BY <1>1 DEF Tick, TypeOK

LEMMA RestartTypes == ASSUME TypeOK, Restart PROVE TypeOK'
<1>1. Idle \in Jobs
  BY DEF Idle, Jobs, Scopes
<1>2. job' \in [Clients -> Jobs] /\ at' \in [Clients -> Stages]
  BY <1>1 DEF Restart, Stages
<1>3. log' \in Seq([author : Authors, action : Actions, digits : Digits]) /\ Len(log') <= MaxLog
  BY ModerationAssumption DEF Restart
<1> QED
  BY <1>2, <1>3 DEF Restart, TypeOK, Jobs

LEMMA NextTypeOK == ASSUME TypeOK, Banning, [Next]_vars PROVE TypeOK'
<1>1. ASSUME NEW c \in Clients, Handle(c) PROVE TypeOK'
  BY <1>1, ConnectionTypes, MemberTypes, BanSteps DEF Handle
<1>2. ASSUME NEW c \in Clients, Step(c) PROVE TypeOK'
  BY <1>2, ConnectionTypes, JoinTypes, MemberTypes, SentenceSteps, RowTypes, ReturnSteps,
     ExpelTypes DEF Step
<1>3. CASE UNCHANGED vars
  BY <1>3 DEF vars, TypeOK
<1> QED
  BY <1>1, <1>2, <1>3, TickTypes, RestartTypes DEF Next

(***************************************************************************)
(* What every step has in common that is no step of BAN or KILL.           *)
(***************************************************************************)
Plain(c) ==
    \/ Accept(c) \/ Store(c) \/ Pass(c) \/ JoinCommand(c) \/ Exit(c)
    \/ FindNone(c) \/ Create(c) \/ Admit(c) \/ Refuse(c) \/ JoinStore(c)
    \/ Identify(c) \/ PartIfBanned(c) \/ Part(c) \/ Privmsg(c) \/ Quit(c) \/ QuitPart(c)
    \/ Kick(c)

BanStages == {"found", "rows", "account", "snapshot", "expel", "part"}

\* the steps of BAN and KILL, after the first
Serves(m) ==
    \/ Sentence(m) \/ BanAddress(m) \/ BanAccount(m) \/ BanFails(m) \/ Snapshot(m)
    \/ (\E c \in Clients : Expel(m, c)) \/ ExpelPart(m) \/ Finish(m)

LEMMA PlainSteps ==
    ASSUME TypeOK, NEW c \in Clients, Plain(c)
    PROVE  /\ at[c] \notin BanStages /\ at'[c] \notin BanStages
           /\ \A d \in Clients \ {c} : at'[d] = at[d]
           /\ moved \subseteq moved'
           /\ UNCHANGED <<bans, now, job>>
<1> USE DEF BanStages, Goto, TypeOK
<1>1. CASE Accept(c) \/ Store(c) \/ Pass(c) \/ JoinCommand(c) \/ Exit(c)
  BY <1>1 DEF Accept, Store, Pass, JoinCommand, Exit, SetAccount
<1>2. CASE FindNone(c) \/ Create(c) \/ Admit(c) \/ Refuse(c) \/ JoinStore(c)
  BY <1>2 DEF FindNone, Create, Admit, Refuse, JoinStore
<1>3. CASE Identify(c) \/ PartIfBanned(c) \/ Part(c) \/ Privmsg(c) \/ Kick(c)
  BY <1>3 DEF Identify, PartIfBanned, Part, Privmsg, Kick, Reading, SetAccount
<1>4. CASE Quit(c) \/ QuitPart(c)
  BY <1>4 DEF Quit, QuitPart
<1> QED
  BY <1>1, <1>2, <1>3, <1>4 DEF Plain

LEMMA NextCases ==
    ASSUME [Next]_vars
    PROVE  \/ \E c \in Clients : Plain(c)
           \/ \E m \in Clients : Ban(m) \/ Serves(m)
           \/ Tick \/ Restart \/ UNCHANGED vars
<1>1. ASSUME NEW c \in Clients, Handle(c) PROVE Plain(c) \/ Ban(c)
  BY <1>1 DEF Handle, Plain
<1>2. ASSUME NEW c \in Clients, Step(c) PROVE Plain(c) \/ Serves(c)
  BY <1>2 DEF Step, Plain, Serves
<1> QED
  BY <1>1, <1>2 DEF Next

\* a goroutine that adds a row
LEMMA AddBanSteps ==
    ASSUME TypeOK, Banning, NEW m \in Clients, BanAddress(m) \/ BanAccount(m)
    PROVE  \E target \in {job[m].address, job[m].account} :
              /\ AddBan(m, target)
              /\ \/ target = job[m].address /\ at[m] = "rows"
                 \/ target = job[m].account /\ at[m] = "account" /\ target \in Accounts
              /\ at[m] = "rows" /\ job[m].account # NoAccount => at'[m] = "account"
              /\ at'[m] \in {"account", "snapshot"}
              /\ at'[m] = "account" => job[m].account # NoAccount /\ at[m] = "rows"
              /\ Alone(m)
<1>1. CASE BanAddress(m)
  BY <1>1 DEF BanAddress, Goto, TypeOK, AddBan, Alone
<1>2. CASE BanAccount(m)
  BY <1>2 DEF BanAccount, Goto, TypeOK, Banning, AddBan, Alone
<1> QED
  BY <1>1, <1>2

\* what all steps of BAN and KILL have in common
LEMMA ServeSteps ==
    ASSUME TypeOK, Banning, NEW m \in Clients, Serves(m)
    PROVE  /\ Alone(m)
           /\ at[m] \in BanStages /\ at'[m] \in BanStages \cup {"read"}
           /\ at'[m] # "found"
           /\ UNCHANGED <<clients, account, exists, stale, now>>
           /\ terminating \subseteq terminating' /\ spared \subseteq spared'
           /\ moved \ {m} \subseteq moved' /\ (at'[m] # "read" => moved' = moved)
           /\ bans' = bans \/ BanAddress(m) \/ BanAccount(m)
           /\ \/ UNCHANGED <<members, log, told, lost>>
              \/ \E c \in Clients : PartChannel(c)
<1> USE DEF BanStages
<1>1. CASE Sentence(m)
  BY <1>1, SentenceSteps DEF Sentence
<1>2. CASE BanAddress(m) \/ BanAccount(m)
  BY <1>2, AddBanSteps DEF AddBan
<1>3. CASE BanFails(m) \/ Finish(m)
  BY <1>3, ReturnSteps DEF BanFails, Finish
<1>4. CASE Snapshot(m)
  BY <1>4, SnapshotSteps DEF Snapshot
<1>5. ASSUME NEW c \in Clients, Expel(m, c)
      PROVE  /\ Alone(m)
             /\ at[m] \in BanStages /\ at'[m] \in BanStages \cup {"read"}
             /\ at'[m] # "found"
             /\ UNCHANGED <<clients, account, exists, stale, now>>
             /\ terminating \subseteq terminating' /\ spared \subseteq spared'
             /\ moved \ {m} \subseteq moved' /\ (at'[m] # "read" => moved' = moved)
             /\ bans' = bans
             /\ \/ UNCHANGED <<members, log, told, lost>>
                \/ \E d \in Clients : PartChannel(d)
  BY <1>5, ExpelSteps DEF Expel
<1>6. CASE ExpelPart(m)
  <2>1. job[m].client \in Clients
    BY <1>6 DEF ExpelPart, Banning
  <2> QED
    BY <1>6, <2>1, ExpelPartSteps DEF ExpelPart
<1> QED
  BY <1>1, <1>2, <1>3, <1>4, <1>5, <1>6 DEF Serves

(***************************************************************************)
(* The arguments of bans are kept, and so are the rows that are stored.    *)
(***************************************************************************)
LEMMA NextBanning == ASSUME TypeOK, Banning, [Next]_vars PROVE Banning'
<1> DEFINE Of(m) ==
      /\ at[m] \in {"found", "part"} => job[m].client \in Clients
      /\ at[m] \in {"rows", "account", "snapshot", "expel", "part"} =>
            job[m].address \in Addresses
      /\ at[m] = "account" => job[m].account \in Accounts
      /\ at[m] \in {"account", "snapshot", "expel", "part"} => Row(m, job[m].address) \in bans
      /\ at[m] \in {"snapshot", "expel", "part"} /\ job[m].account # NoAccount =>
            Row(m, job[m].account) \in bans
<1>1. ASSUME NEW c \in Clients, Plain(c) PROVE Banning'
  BY <1>1, PlainSteps DEF Banning, BanStages, Row
<1>2. ASSUME NEW m \in Clients, Ban(m) PROVE Banning'
  <2>1. bans' = bans
    BY <1>2 DEF Ban
  <2> QED
    BY <1>2, <2>1, BanSteps DEF Banning, Row, Alone
<1>3. ASSUME NEW m \in Clients, Serves(m), Of(m)' PROVE Banning'
  <2>1. Alone(m) /\ bans \subseteq bans'
    BY <1>3, ServeSteps DEF BanAddress, BanAccount, AddBan
  <2>2. ASSUME NEW d \in Clients, d # m PROVE Of(d)'
    BY <2>1, <2>2 DEF Banning, Alone, Row
  <2> QED
    BY <1>3, <2>2 DEF Banning
<1>4. ASSUME NEW m \in Clients, Sentence(m) PROVE Of(m)'
  BY <1>4, SentenceSteps
<1>5. ASSUME NEW m \in Clients, BanAddress(m) \/ BanAccount(m) PROVE Of(m)'
  <2>1. PICK target \in {job[m].address, job[m].account} :
              /\ AddBan(m, target)
              /\ \/ target = job[m].address /\ at[m] = "rows"
                 \/ target = job[m].account /\ at[m] = "account" /\ target \in Accounts
              /\ at[m] = "rows" /\ job[m].account # NoAccount => at'[m] = "account"
              /\ at'[m] \in {"account", "snapshot"}
              /\ at'[m] = "account" => job[m].account # NoAccount /\ at[m] = "rows"
              /\ Alone(m)
    BY <1>5, AddBanSteps
  <2>2. job' = job /\ bans' = bans \cup {Row(m, target)}
    BY <2>1 DEF AddBan, Row
  <2>3. job[m].account \in Accounts \cup {NoAccount}
    BY DEF TypeOK
  <2>4. /\ Row(m, job[m].address)' = Row(m, job[m].address)
        /\ Row(m, job[m].account)' = Row(m, job[m].account)
    BY <2>2 DEF Row
  <2> QED
    BY <2>1, <2>2, <2>3, <2>4 DEF Banning
<1>6. ASSUME NEW m \in Clients, Keeps(m), bans' = bans,
             at[m] \in {"snapshot", "expel", "part"}, at'[m] \in {"expel", "part"},
             at'[m] = "part" => job'[m].client \in Clients
      PROVE  Of(m)'
  <2>1. /\ Row(m, job[m].address)' = Row(m, job[m].address)
        /\ Row(m, job[m].account)' = Row(m, job[m].account)
    BY <1>6 DEF Row, Keeps
  <2> QED
    BY <1>6, <2>1 DEF Banning, Keeps
<1>7. ASSUME NEW m \in Clients, Snapshot(m) PROVE Of(m)'
  BY <1>6, <1>7, SnapshotSteps DEF Snapshot
<1>8. ASSUME NEW m \in Clients, NEW c \in Clients, Expel(m, c) PROVE Of(m)'
  BY <1>6, <1>8, ExpelSteps DEF Expel
<1>9. ASSUME NEW m \in Clients, ExpelPart(m) PROVE Of(m)'
  BY <1>6, <1>9, ExpelPartSteps DEF ExpelPart
<1>10. ASSUME NEW m \in Clients, Finish(m) \/ BanFails(m) PROVE Of(m)'
  BY <1>10, ReturnSteps
<1>11. ASSUME NEW m \in Clients, Serves(m) PROVE Of(m)'
  BY <1>4, <1>5, <1>7, <1>8, <1>9, <1>10, <1>11 DEF Serves
<1>12. CASE Tick
  BY <1>12 DEF Tick, Banning, Row
<1>13. CASE Restart
  BY <1>13 DEF Restart, Banning
<1>14. CASE UNCHANGED vars
  BY <1>14 DEF vars, Banning, Row
<1> QED
  BY <1>1, <1>2, <1>3, <1>11, <1>12, <1>13, <1>14, NextCases

LEMMA TypesCorrect == Spec => [](TypeOK /\ Banning)
<1>1. Init => TypeOK /\ Banning
  BY InitTypeOK DEF Init, Banning
<1>2. TypeOK /\ Banning /\ [Next]_vars => (TypeOK /\ Banning)'
  BY NextTypeOK, NextBanning
<1> QED
  BY <1>1, <1>2, PTL DEF Spec

(***************************************************************************)
(* The tables, the log and the arguments of every ban have their types,    *)
(* whatever durations are asked for: no row has a time before the clock's  *)
(* zero (server.go:821, 1099-1105).                                        *)
(***************************************************************************)
THEOREM ModerationTypeCorrect == Spec => []TypeOK
  BY TypesCorrect, PTL

(***************************************************************************)
(* What is banned is the address or the account of the entry that was      *)
(* named, however many connections share either, unless the connection     *)
(* that was found identifies before its account is read (server.go:287,    *)
(* 942, 1117).  Until then the connection found is the author's as long as *)
(* its account stays what it was.                                          *)
(***************************************************************************)
FoundAuthor ==
    \A m \in Clients : at[m] = "found" => m \in moved \/ SameAuthor(job[m].client, job[m].author)

LEMMA NextFoundAuthor ==
    ASSUME TypeOK, Banning, FoundAuthor, [Next]_vars
    PROVE  FoundAuthor'
<1>1. ASSUME NEW c \in Clients, Plain(c) PROVE FoundAuthor'
  <2> SUFFICES ASSUME NEW m \in Clients, at'[m] = "found", m \notin moved'
               PROVE  SameAuthor(job[m].client, job[m].author)'
    BY DEF FoundAuthor
  <2>1. /\ at[m] = "found" /\ m \notin moved /\ job' = job
        /\ job[m].client \in Clients
    BY <1>1, PlainSteps DEF BanStages, Banning
  <2>2. account'[job[m].client] = account[job[m].client]
    <3>1. CASE Accept(c)
      BY <2>1, <3>1 DEF Accept, TypeOK
    <3>2. CASE Pass(c) \/ Identify(c)
      <4>1. PICK a \in Accounts : SetAccount(c, a)
        BY <3>2 DEF Pass, Identify
      <4> QED
        BY <2>1, <4>1, AccountType
    <3>3. CASE Store(c) \/ JoinCommand(c) \/ Exit(c) \/ FindNone(c) \/ Create(c) \/ Admit(c)
               \/ Refuse(c) \/ JoinStore(c)
      BY <3>3 DEF Store, JoinCommand, Exit, FindNone, Create, Admit, Refuse, JoinStore
    <3>4. CASE PartIfBanned(c) \/ Part(c) \/ Privmsg(c) \/ Quit(c) \/ QuitPart(c) \/ Kick(c)
      BY <3>4 DEF PartIfBanned, Part, Privmsg, Quit, QuitPart, Kick
    <3> QED
      BY <1>1, <3>1, <3>2, <3>3, <3>4 DEF Plain
  <2> QED
    BY <2>1, <2>2 DEF FoundAuthor, SameAuthor
<1>2. ASSUME NEW m \in Clients, Ban(m) PROVE FoundAuthor'
  <2>1. UNCHANGED <<account, moved>>
    BY <1>2 DEF Ban
  <2> QED
    BY <1>2, <2>1, BanSteps DEF FoundAuthor, SameAuthor, Alone
<1>3. ASSUME NEW m \in Clients, Serves(m) PROVE FoundAuthor'
  BY <1>3, ServeSteps DEF FoundAuthor, SameAuthor, Alone
<1>4. CASE Tick \/ UNCHANGED vars
  BY <1>4 DEF Tick, vars, FoundAuthor, SameAuthor
<1>5. CASE Restart
  BY <1>5 DEF Restart, FoundAuthor
<1> QED
  BY <1>1, <1>2, <1>3, <1>4, <1>5, NextCases

LEMMA NextBanHitsAuthor ==
    ASSUME TypeOK, Banning, FoundAuthor, BanHitsAuthor, [Next]_vars
    PROVE  BanHitsAuthor'
<1> DEFINE Hits(m) ==
      at[m] \in {"rows", "account", "snapshot", "expel", "part"} =>
        \/ m \in moved
        \/ job[m].address = job[m].author.address
        \/ job[m].account # NoAccount /\ job[m].account = job[m].author.account
<1>1. ASSUME NEW c \in Clients, Plain(c) PROVE BanHitsAuthor'
  BY <1>1, PlainSteps DEF BanHitsAuthor, BanStages
<1>2. ASSUME NEW m \in Clients, Ban(m) PROVE BanHitsAuthor'
  <2>1. moved' = moved
    BY <1>2 DEF Ban
  <2> QED
    BY <1>2, <2>1, BanSteps DEF BanHitsAuthor, Alone
<1>3. ASSUME NEW m \in Clients, Serves(m), Hits(m)' PROVE BanHitsAuthor'
  <2>1. ASSUME NEW d \in Clients, d # m PROVE Hits(d)'
    BY <1>3, <2>1, ServeSteps DEF BanHitsAuthor, Alone
  <2> QED
    BY <1>3, <2>1 DEF BanHitsAuthor
<1>4. ASSUME NEW m \in Clients, Sentence(m) PROVE Hits(m)'
  <2>1. moved' = moved
    BY <1>4 DEF Sentence
  <2> QED
    BY <1>4, <2>1, SentenceSteps DEF FoundAuthor, SameAuthor
<1>5. ASSUME NEW m \in Clients, BanAddress(m) \/ BanAccount(m) PROVE Hits(m)'
  BY <1>5 DEF BanAddress, BanAccount, AddBan, BanHitsAuthor
<1>6. ASSUME NEW m \in Clients, Keeps(m), moved' = moved, at[m] \in {"snapshot", "expel", "part"}
      PROVE  Hits(m)'
  BY <1>6 DEF Keeps, BanHitsAuthor
<1>7. ASSUME NEW m \in Clients, Snapshot(m) \/ ExpelPart(m) PROVE Hits(m)'
  BY <1>6, <1>7, SnapshotSteps, ExpelPartSteps DEF Snapshot, ExpelPart
<1>8. ASSUME NEW m \in Clients, NEW c \in Clients, Expel(m, c) PROVE Hits(m)'
  BY <1>6, <1>8, ExpelSteps DEF Expel
<1>9. ASSUME NEW m \in Clients, Finish(m) \/ BanFails(m) PROVE Hits(m)'
  BY <1>9, ReturnSteps
<1>10. ASSUME NEW m \in Clients, Serves(m) PROVE Hits(m)'
  BY <1>4, <1>5, <1>7, <1>8, <1>9, <1>10 DEF Serves
<1>11. CASE Tick \/ UNCHANGED vars
  BY <1>11 DEF Tick, vars, BanHitsAuthor
<1>12. CASE Restart
  BY <1>12 DEF Restart, BanHitsAuthor
<1> QED
  BY <1>1, <1>2, <1>3, <1>10, <1>11, <1>12, NextCases

THEOREM BanHitsAuthorCorrect == Spec => []BanHitsAuthor
<1>1. Init => FoundAuthor /\ BanHitsAuthor
  BY DEF Init, FoundAuthor, BanHitsAuthor
<1> QED
  BY <1>1, NextFoundAuthor, NextBanHitsAuthor, TypesCorrect, PTL DEF Spec

(***************************************************************************)
(* A client is removed when the rows that keep it out are stored already,  *)
(* so that the process may end at any moment; what KILL removes for its    *)
(* address is kept out by a row for the address, which is all that is      *)
(* looked up on connecting (server.go:820-867, 1422).                      *)
(***************************************************************************)
LEMMA RowInForce ==
    ASSUME TypeOK, NEW m \in Clients, NEW target, job[m].expires \notin 1..now
    PROVE  InForce(Row(m, target))
<1>1. job[m].expires \in Nat /\ now \in Nat
  BY ModerationAssumption DEF TypeOK
<1>2. job[m].expires = 0 \/ job[m].expires > now
  BY <1>1
<1> QED
  BY <1>2 DEF InForce, Row

LEMMA RowKeepsOut ==
    ASSUME TypeOK, Banning, NEW m \in Clients, NEW c \in Clients,
           at[m] = "expel", Matches(job[m], c), job[m].expires \notin 1..now
    PROVE  /\ IsBanned(c, job[m].scope)
           /\ job[m].scope = Server /\ Address[c] = job[m].address => AddressBanned(c)
<1>1. \E target \in {Address[c], account[c]} : Row(m, target) \in bans
  <2>1. CASE Address[c] = job[m].address
    BY <2>1 DEF Banning
  <2>2. CASE job[m].account # NoAccount /\ account[c] = job[m].account
    BY <2>2 DEF Banning
  <2> QED
    BY <2>1, <2>2 DEF Matches
<1>2. IsBanned(c, job[m].scope)
  BY <1>1, RowInForce DEF IsBanned, Rows, Row
<1>3. ASSUME job[m].scope = Server, Address[c] = job[m].address PROVE AddressBanned(c)
  <2>1. Row(m, Address[c]) \in bans /\ InForce(Row(m, Address[c]))
    BY <1>3, RowInForce DEF Banning
  <2> QED
    BY <1>3, <2>1 DEF AddressBanned, Row
<1> QED
  BY <1>2, <1>3

\* clients are visited by the goroutine that has them before it
LEMMA WhoVisits ==
    ASSUME TypeOK, Banning, [Next]_vars, NEW m \in Clients, NEW c \in job[m].left \ job'[m].left,
           at[m] = "expel", at'[m] \in {"expel", "part"}
    PROVE  Expel(m, c)
<1>1. ASSUME NEW d \in Clients, Plain(d) PROVE FALSE
  BY <1>1, PlainSteps
<1>2. ASSUME NEW d \in Clients, Ban(d) PROVE FALSE
  BY <1>2, BanSteps DEF Alone
<1>3. ASSUME NEW d \in Clients, Serves(d), d # m PROVE FALSE
  BY <1>3, ServeSteps DEF Alone
<1>4. ASSUME Serves(m) PROVE Expel(m, c)
  <2>1. PICK e \in Clients : Expel(m, e)
    BY <1>4, SentenceSteps, SnapshotSteps, ExpelPartSteps, ReturnSteps
       DEF Serves, BanAddress, BanAccount
  <2>2. job'[m].left = job[m].left \ {e}
    BY <2>1, ExpelSteps
  <2> QED
    BY <2>1, <2>2
<1>5. CASE Tick \/ Restart \/ UNCHANGED vars
  BY <1>5 DEF Tick, Restart, vars
<1> QED
  BY <1>1, <1>2, <1>3, <1>4, <1>5, NextCases

THEOREM ExpelledAreBannedCorrect == Spec => ExpelledAreBanned
<1>1. ASSUME TypeOK, Banning, [Next]_vars,
             NEW m \in Clients, NEW c \in job[m].left \ job'[m].left,
             at[m] = "expel" /\ at'[m] \in {"expel", "part"}
      PROVE  /\ c \in members \ members' => IsBanned(c, Chat) \/ job[m].expires \in 1..now
             /\ c \in terminating' \ terminating /\ Address[c] = job[m].address =>
                    AddressBanned(c) \/ job[m].expires \in 1..now
  <2>1. c \in Clients /\ Expel(m, c)
    BY <1>1, WhoVisits DEF TypeOK
  <2>2. /\ c \in members \ members' => job[m].scope = Chat /\ Matches(job[m], c)
        /\ c \in terminating' \ terminating => job[m].scope = Server /\ Matches(job[m], c)
    BY <2>1, <1>1, ExpelSteps DEF Marks
  <2> QED
    BY <1>1, <2>1, <2>2, RowKeepsOut
<1>2. TypeOK /\ Banning /\ [Next]_vars =>
        [\A m \in Clients : \A c \in job[m].left \ job'[m].left :
          at[m] = "expel" /\ at'[m] \in {"expel", "part"} =>
             /\ c \in members \ members' => IsBanned(c, Chat) \/ job[m].expires \in 1..now
             /\ c \in terminating' \ terminating /\ Address[c] = job[m].address =>
                    AddressBanned(c) \/ job[m].expires \in 1..now]_vars
  BY <1>1
<1> QED
  BY <1>2, TypesCorrect, PTL DEF Spec, ExpelledAreBanned

(***************************************************************************)
(* A log grows at its end, or is thrown away.                              *)
(***************************************************************************)
Grows == log' = log \/ log' = <<>> \/ \E e \in Entries : log' = Append(log, e)

LEMMA LogGrows ==
    ASSUME TypeOK, NEW c \in Clients, NEW action \in Actions, Log(c, action)
    PROVE  Grows
<1>1. PICK d \in Digits :
         log' = IF Len(log) < MaxLog
                THEN Append(log, [author |-> Author(c), action |-> action, digits |-> d])
                ELSE log
  BY DEF Log
<1>2. [author |-> Author(c), action |-> action, digits |-> d] \in Entries
  BY AuthorType DEF Entries
<1> QED
  BY <1>1, <1>2 DEF Grows

LEMMA PartGrows == ASSUME TypeOK, NEW c \in Clients, PartChannel(c) PROVE Grows
<1>1. CASE c \in clients \cap members
  BY <1>1, LogGrows DEF PartChannel, Actions
<1>2. CASE c \notin clients \cap members
  BY <1>2 DEF PartChannel, Grows
<1> QED
  BY <1>1, <1>2

LEMMA NextGrows == ASSUME TypeOK, Banning, [Next]_vars PROVE Grows
<1>1. ASSUME NEW c \in Clients, Plain(c) PROVE Grows
  <2>1. CASE Accept(c) \/ Store(c) \/ Pass(c) \/ JoinCommand(c) \/ Exit(c) \/ FindNone(c)
             \/ Create(c) \/ Admit(c) \/ Refuse(c) \/ Identify(c) \/ Quit(c)
    BY <2>1 DEF Accept, Store, Pass, JoinCommand, Exit, FindNone, Create, Admit, Refuse,
                Identify, Quit, Grows
  <2>2. CASE JoinStore(c) \/ Privmsg(c)
    BY <2>2, LogGrows DEF JoinStore, Privmsg, Grows, Actions
  <2>3. CASE PartIfBanned(c) \/ Part(c)
    BY <2>3, PartGrows DEF PartIfBanned, Part, Grows
  <2>4. CASE QuitPart(c)
    BY <2>4, PartGrows DEF QuitPart
  <2>5. CASE Kick(c)
    <3>1. PICK id \in Identifiers : \E r \in Revealed(id) : PartChannel(r.client)
      BY <2>5 DEF Kick
    <3>2. PICK r \in Revealed(id) : PartChannel(r.client)
      BY <3>1
    <3>3. r.client \in Clients
      BY RevealedType DEF TypeOK
    <3> QED
      BY <3>2, <3>3, PartGrows
  <2> QED
    BY <1>1, <2>1, <2>2, <2>3, <2>4, <2>5 DEF Plain
<1>2. ASSUME NEW m \in Clients, Ban(m) PROVE Grows
  BY <1>2 DEF Ban, Grows
<1>3. ASSUME NEW m \in Clients, Serves(m) PROVE Grows
  <2>1. CASE UNCHANGED <<members, log, told, lost>>
    BY <2>1 DEF Grows
  <2>2. CASE \E c \in Clients : PartChannel(c)
    BY <2>2, PartGrows
  <2> QED
    BY <1>3, <2>1, <2>2, ServeSteps
<1>4. CASE Tick \/ Restart \/ UNCHANGED vars
  BY <1>4 DEF Tick, Restart, vars, Grows
<1> QED
  BY <1>1, <1>2, <1>3, <1>4, NextCases

(***************************************************************************)
(* An identifier names its entry, and goes on to do so while the log grows *)
(* at its end (channel.go:37, 96, 121-146).                                *)
(***************************************************************************)
LEMMA NamesHold ==
    ASSUME NEW l1 \in Seq(Entries), NEW l2 \in Seq(Entries), NEW i \in Places(l1),
           l2 = l1 \/ \E e \in Entries : l2 = Append(l1, e)
    PROVE  {l2[j + 1].author : j \in Named(l2, Identifier(l1, i))} =
              IF FiveCharacters(Identifier(l1, i)) THEN {l1[i + 1].author} ELSE {}
<1>1. i \in Places(l2) /\ l2[i + 1] = l1[i + 1]
  BY DEF Places
<1>2. Identifier(l2, i) = Identifier(l1, i)
  BY <1>1 DEF Identifier
<1>3. \A j \in Places(l2) : Identifier(l2, j) = Identifier(l1, i) => j = i
  BY DEF Identifier
<1>4. Named(l2, Identifier(l1, i)) =
        IF FiveCharacters(Identifier(l1, i)) THEN {i} ELSE {}
  BY <1>1, <1>2, <1>3 DEF Named
<1> QED
  BY <1>1, <1>4

THEOREM RevealedNamesHoldCorrect == Spec => RevealedNamesHold
<1>1. ASSUME TypeOK, Banning, TypeOK', [Next]_vars,
             NEW page \in Pages, NEW showAll \in BOOLEAN, NEW r \in Printed(log, page, showAll),
             log' # <<>>
      PROVE  {log'[i + 1].author : i \in Named(log', r.id)} =
                IF FiveCharacters(r.id) THEN {r.author} ELSE {}
  <2>1. PICK i \in Places(log) : r.id = Identifier(log, i) /\ r.author = log[i + 1].author
    BY DEF Printed, Page, From, Listed
  <2>2. log \in Seq(Entries) /\ log' \in Seq(Entries)
    BY <1>1 DEF TypeOK, Entries
  <2>3. log' = log \/ \E e \in Entries : log' = Append(log, e)
    BY <1>1, NextGrows DEF Grows
  <2> QED
    BY <2>1, <2>2, <2>3, NamesHold
<1>2. TypeOK /\ Banning /\ TypeOK' /\ [Next]_vars =>
        [\A page \in Pages, showAll \in BOOLEAN : \A r \in Printed(log, page, showAll) :
          log' # <<>> => {log'[i + 1].author : i \in Named(log', r.id)} =
                        IF FiveCharacters(r.id) THEN {r.author} ELSE {}]_vars
  BY <1>1
<1> QED
  BY <1>2, TypesCorrect, PTL DEF Spec, RevealedNamesHold

(***************************************************************************)
(* A goroutine that has not stored its client yet is in no table, and one  *)
(* that is joining is no member.                                           *)
(***************************************************************************)
Outside ==
    \A c \in Clients :
        /\ at[c] \in {"offline", "accepted"} => c \notin clients
        /\ at[c] \in {"accepted", "login", "join", "create", "store"} => c \notin members
        /\ at[c] = "accepted" => c \notin told

\* steps after which nobody is a member, connected or told that was not before
Shrinks == clients' \subseteq clients /\ members' \subseteq members /\ told' \subseteq told

LEMMA BanShrinks ==
    ASSUME TypeOK, Banning, NEW m \in Clients, Ban(m) \/ Serves(m)
    PROVE  /\ Shrinks /\ UNCHANGED <<clients, account>> /\ spared \subseteq spared'
           /\ at[m] \in BanStages \cup {"read"} /\ at'[m] \in BanStages \cup {"read"}
           /\ \A d \in Clients \ {m} : at'[d] = at[d]
<1>1. CASE Ban(m)
  BY <1>1, BanSteps DEF Ban, Shrinks, BanStages, Alone
<1>2. CASE Serves(m)
  <2>1. Shrinks
    <3>1. clients' = clients
      BY <1>2, ServeSteps
    <3>2. CASE UNCHANGED <<members, log, told, lost>>
      BY <3>1, <3>2 DEF Shrinks
    <3>3. CASE \E c \in Clients : PartChannel(c)
      BY <3>1, <3>3, PartType DEF Shrinks
    <3> QED
      BY <1>2, <3>2, <3>3, ServeSteps
  <2> QED
    BY <1>2, <2>1, ServeSteps DEF Alone
<1> QED
  BY <1>1, <1>2

LEMMA NextOutside == ASSUME TypeOK, Banning, Outside, [Next]_vars PROVE Outside'
<1>1. ASSUME NEW c \in Clients, Plain(c) PROVE Outside'
  <2> USE DEF Goto, TypeOK
  <2>1. CASE Accept(c) \/ Store(c) \/ Pass(c) \/ JoinCommand(c) \/ Exit(c)
    BY <2>1 DEF Accept, Store, Pass, JoinCommand, Exit, Outside, Reading
  <2>2. CASE FindNone(c) \/ Create(c) \/ Admit(c) \/ Refuse(c)
    BY <2>2 DEF FindNone, Create, Admit, Refuse, Outside
  <2>3. CASE JoinStore(c)
    BY <2>3 DEF JoinStore, Outside
  <2>4. CASE Identify(c) \/ Privmsg(c) \/ Quit(c)
    BY <2>4 DEF Identify, Privmsg, Quit, Reading, Outside
  <2>5. CASE Part(c) \/ PartIfBanned(c) \/ QuitPart(c)
    BY <2>5, PartType DEF Part, PartIfBanned, QuitPart, Reading, Outside
  <2>6. CASE Kick(c)
    <3>1. PICK id \in Identifiers : \E r \in Revealed(id) : PartChannel(r.client)
      BY <2>6 DEF Kick
    <3>2. PICK r \in Revealed(id) : PartChannel(r.client)
      BY <3>1
    <3>3. r.client \in Clients
      BY RevealedType
    <3> QED
      BY <2>6, <3>2, <3>3, PartType DEF Kick, Outside
  <2> QED
    BY <1>1, <2>1, <2>2, <2>3, <2>4, <2>5, <2>6 DEF Plain
<1>2. ASSUME NEW m \in Clients, Ban(m) \/ Serves(m) PROVE Outside'
  BY <1>2, BanShrinks DEF Outside, Shrinks, BanStages
<1>3. CASE Tick \/ Restart \/ UNCHANGED vars
  BY <1>3 DEF Tick, Restart, vars, Outside
<1> QED
  BY <1>1, <1>2, <1>3, NextCases

(***************************************************************************)
(* Whoever is told of its JOIN is a member until it is told of its PART,   *)
(* but for those whose channel was replaced (server.go:393-396, 404-405).  *)
(***************************************************************************)
LEMMA PartTold ==
    ASSUME MembersWereTold, NEW c \in Clients, PartChannel(c)
    PROVE  \A d \in clients \ terminating : d \in members' <=> d \in told' \ lost'
  BY DEF PartChannel, MembersWereTold

LEMMA NextMembersWereTold ==
    ASSUME TypeOK, Banning, Outside, MembersWereTold, [Next]_vars
    PROVE  MembersWereTold'
<1>1. ASSUME NEW c \in Clients, Plain(c) PROVE MembersWereTold'
  <2> USE DEF Goto, TypeOK
  <2>1. CASE Accept(c) \/ Store(c) \/ Pass(c) \/ JoinCommand(c) \/ Exit(c)
    BY <2>1 DEF Accept, Store, Pass, JoinCommand, Exit, Outside, MembersWereTold
  <2>2. CASE FindNone(c) \/ Create(c) \/ Admit(c) \/ Refuse(c)
    BY <2>2 DEF FindNone, Create, Admit, Refuse, MembersWereTold
  <2>3. CASE JoinStore(c)
    BY <2>3 DEF JoinStore, Outside, MembersWereTold
  <2>4. CASE Identify(c) \/ Privmsg(c) \/ Quit(c)
    BY <2>4 DEF Identify, Privmsg, Quit, MembersWereTold
  <2>5. CASE Part(c) \/ PartIfBanned(c) \/ QuitPart(c)
    BY <2>5, PartTold DEF Part, PartIfBanned, QuitPart, MembersWereTold
  <2>6. CASE Kick(c)
    <3>1. PICK id \in Identifiers : \E r \in Revealed(id) : PartChannel(r.client)
      BY <2>6 DEF Kick
    <3>2. PICK r \in Revealed(id) : PartChannel(r.client)
      BY <3>1
    <3>3. r.client \in Clients
      BY RevealedType
    <3> QED
      BY <2>6, <3>2, <3>3, PartTold DEF Kick, MembersWereTold
  <2> QED
    BY <1>1, <2>1, <2>2, <2>3, <2>4, <2>5, <2>6 DEF Plain
<1>2. ASSUME NEW m \in Clients, Ban(m) PROVE MembersWereTold'
  BY <1>2 DEF Ban, MembersWereTold
<1>3. ASSUME NEW m \in Clients, Serves(m) PROVE MembersWereTold'
  <2>1. clients' = clients /\ terminating \subseteq terminating'
    BY <1>3, ServeSteps
  <2>2. CASE UNCHANGED <<members, log, told, lost>>
    BY <2>1, <2>2 DEF MembersWereTold
  <2>3. CASE \E c \in Clients : PartChannel(c)
    BY <2>1, <2>3, PartTold DEF MembersWereTold
  <2> QED
    BY <1>3, <2>2, <2>3, ServeSteps
<1>4. CASE Tick \/ Restart \/ UNCHANGED vars
  BY <1>4 DEF Tick, Restart, vars, MembersWereTold
<1> QED
  BY <1>1, <1>2, <1>3, <1>4, NextCases

LEMMA OutsideCorrect == Spec => [](TypeOK /\ Banning /\ Outside)
<1>1. Init => Outside
  BY DEF Init, Outside
<1> QED
  BY <1>1, NextOutside, TypesCorrect, PTL DEF Spec

THEOREM MembersWereToldCorrect == Spec => []MembersWereTold
<1>1. Init => MembersWereTold
  BY DEF Init, MembersWereTold
<1> QED
  BY <1>1, NextMembersWereTold, OutsideCorrect, PTL DEF Spec

(***************************************************************************)
(* A goroutine that has stored a row has somebody still to look for.  It   *)
(* goes on until it has, or the second row fails, or the process ends.     *)
(***************************************************************************)
Hunts(m, c) ==
    \/ at[m] \in {"account", "snapshot"}
    \/ at[m] \in {"expel", "part"} /\ c \in job[m].left

LEMMA HuntGoesOn ==
    ASSUME TypeOK, Banning, [Next]_vars, NEW m \in Clients, NEW c \in clients,
           Hunts(m, c), job[m].scope = Chat => c \in members,
           ~Expel(m, c), ~BanFails(m), ~Restart
    PROVE  /\ Hunts(m, c)'
           /\ at'[m] = "account" => at[m] = "account"
           /\ job'[m].scope = job[m].scope
           /\ job'[m].address = job[m].address
           /\ job'[m].account = job[m].account
<1> DEFINE Same == /\ Hunts(m, c)'
                   /\ at'[m] = "account" => at[m] = "account"
                   /\ job'[m].scope = job[m].scope
                   /\ job'[m].address = job[m].address
                   /\ job'[m].account = job[m].account
<1>1. ASSUME NEW d \in Clients, Plain(d) PROVE Same
  BY <1>1, PlainSteps DEF Hunts, BanStages
<1>2. ASSUME NEW d \in Clients, Ban(d) PROVE Same
  BY <1>2, BanSteps DEF Alone, Hunts
<1>3. ASSUME NEW d \in Clients, d # m, Serves(d) PROVE Same
  BY <1>3, ServeSteps DEF Alone, Hunts
<1>4. CASE BanAddress(m) \/ BanAccount(m)
  BY <1>4, AddBanSteps DEF AddBan, Hunts
<1>5. CASE Snapshot(m)
  <2>1. job[m].scope \in {Chat, Server}
    BY DEF TypeOK, Scopes
  <2>2. c \in Sought(job[m].scope)
    BY <2>1 DEF Sought
  <2> QED
    BY <1>5, <2>2, SnapshotSteps DEF Hunts, Keeps
<1>6. ASSUME NEW e \in Clients, Expel(m, e) PROVE Same
  <2>1. e # c
    BY <1>6
  <2> QED
    BY <1>6, <2>1, ExpelSteps DEF Hunts, Keeps
<1>7. CASE ExpelPart(m)
  BY <1>7, ExpelPartSteps DEF Hunts, Keeps
<1>8. CASE Sentence(m) \/ Finish(m)
  BY <1>8 DEF Sentence, Finish, Hunts
<1>9. CASE Tick \/ UNCHANGED vars
  BY <1>9 DEF Tick, vars, Hunts
<1>10. CASE Serves(m)
  BY <1>4, <1>5, <1>6, <1>7, <1>8, <1>10 DEF Serves
<1> QED
  BY <1>1, <1>2, <1>3, <1>9, <1>10, NextCases

(***************************************************************************)
(* A row in force was there before, or has just been stored.               *)
(***************************************************************************)
LEMMA NewRows ==
    ASSUME TypeOK, Banning, [Next]_vars, NEW b \in bans', InForce(b)'
    PROVE  \/ b \in bans /\ InForce(b)
           \/ \E m \in Clients :
                 /\ at'[m] \in {"account", "snapshot"} /\ job' = job
                 /\ \/ BanAddress(m) /\ b = Row(m, job[m].address)
                    \/ BanAccount(m) /\ b = Row(m, job[m].account) /\ b.target \in Accounts
<1>1. CASE b \in bans
  <2>1. b.expires \in Nat /\ now \in Nat /\ now' \in Nat /\ now <= now'
    <3>1. b.expires \in Nat /\ now \in Nat
      BY <1>1, ModerationAssumption DEF TypeOK
    <3>2. now' = now \/ now' = now + 1
      BY NextCases, PlainSteps, ServeSteps DEF Ban, Tick, Restart, vars
    <3> QED
      BY <3>1, <3>2
  <2> QED
    BY <1>1, <2>1 DEF InForce
<1>2. CASE b \notin bans
  <2>1. PICK m \in Clients : BanAddress(m) \/ BanAccount(m)
    BY <1>2, NextCases, PlainSteps, ServeSteps DEF Ban, Tick, Restart, vars
  <2>2. PICK target \in {job[m].address, job[m].account} :
              /\ AddBan(m, target)
              /\ \/ target = job[m].address /\ at[m] = "rows"
                 \/ target = job[m].account /\ at[m] = "account" /\ target \in Accounts
              /\ at'[m] \in {"account", "snapshot"}
    BY <2>1, AddBanSteps
  <2>3. b = Row(m, target) /\ job' = job
    BY <1>2, <2>2 DEF AddBan, Row
  <2> QED
    BY <2>1, <2>2, <2>3 DEF BanAddress, BanAccount, Row
<1> QED
  BY <1>1, <1>2

(***************************************************************************)
(* Whom the server's bans would not let in, and was looked up before they  *)
(* were stored, is spared before it is stored itself.                      *)
(***************************************************************************)
ServerEntered ==
    \A c \in Clients : at[c] = "accepted" /\ AddressBanned(c) => <<c, Server>> \in spared

\* what a connection that is stored has done in a step
LEMMA ConnectedSteps ==
    ASSUME TypeOK, Banning, Outside, [Next]_vars, NEW c \in clients'
    PROVE  /\ (c \in clients /\ (c \in terminating => c \in terminating')) \/ Store(c)
           /\ <<c, Server>> \in spared => <<c, Server>> \in spared'
           /\ ~Restart
<1>1. c \in Clients
  <2>1. TypeOK'
    BY NextTypeOK
  <2> QED
    BY <2>1 DEF TypeOK
<1> DEFINE Kept == /\ (c \in clients /\ (c \in terminating => c \in terminating')) \/ Store(c)
                   /\ <<c, Server>> \in spared => <<c, Server>> \in spared'
                   /\ ~Restart
<1>2. ~Restart
  BY DEF Restart
<1>3. ASSUME NEW d \in Clients, Plain(d) PROVE Kept
  <2>1. CASE Accept(d)
    BY <1>1, <1>2, <2>1 DEF Accept, Outside
  <2>2. CASE Store(d) \/ Pass(d) \/ JoinCommand(d) \/ Exit(d)
    BY <1>2, <2>2 DEF Store, Pass, JoinCommand, Exit, Outside
  <2>3. CASE Create(d)
    BY <1>2, <2>3, ModerationAssumption DEF Create
  <2>4. CASE Admit(d)
    BY <1>2, <2>4, ModerationAssumption DEF Admit
  <2>5. CASE FindNone(d) \/ Refuse(d) \/ JoinStore(d)
    BY <1>2, <2>5 DEF FindNone, Refuse, JoinStore
  <2>6. CASE Identify(d) \/ PartIfBanned(d) \/ Part(d) \/ Privmsg(d) \/ Kick(d)
    BY <1>2, <2>6 DEF Identify, PartIfBanned, Part, Privmsg, Kick
  <2>7. CASE Quit(d) \/ QuitPart(d)
    BY <1>2, <2>7 DEF Quit, QuitPart
  <2> QED
    BY <1>3, <2>1, <2>2, <2>3, <2>4, <2>5, <2>6, <2>7 DEF Plain
<1>4. ASSUME NEW m \in Clients, Ban(m) PROVE Kept
  BY <1>2, <1>4 DEF Ban
<1>5. ASSUME NEW m \in Clients, Serves(m) PROVE Kept
  BY <1>2, <1>5, ServeSteps
<1>6. CASE Tick \/ UNCHANGED vars
  BY <1>2, <1>6 DEF Tick, vars
<1> QED
  BY <1>2, <1>3, <1>4, <1>5, <1>6, NextCases

\* what a connection that is accepted has done in a step
LEMMA AcceptedSteps ==
    ASSUME TypeOK, Banning, [Next]_vars, NEW c \in Clients, at'[c] = "accepted"
    PROVE  \/ at[c] = "accepted" /\ (<<c, Server>> \in spared => <<c, Server>> \in spared')
           \/ Accept(c)
<1> DEFINE Kept ==
      \/ at[c] = "accepted" /\ (<<c, Server>> \in spared => <<c, Server>> \in spared')
      \/ Accept(c)
<1>1. ASSUME NEW d \in Clients, Plain(d) PROVE Kept
  <2> USE DEF Goto, TypeOK
  <2>1. CASE Accept(d) \/ Store(d) \/ Pass(d) \/ JoinCommand(d) \/ Exit(d)
    BY <2>1 DEF Accept, Store, Pass, JoinCommand, Exit
  <2>2. CASE Create(d) \/ Admit(d)
    BY <2>2, ModerationAssumption DEF Create, Admit
  <2>3. CASE FindNone(d) \/ Refuse(d) \/ JoinStore(d)
    BY <2>3 DEF FindNone, Refuse, JoinStore
  <2>4. CASE \/ Identify(d) \/ PartIfBanned(d) \/ Part(d) \/ Privmsg(d)
             \/ Quit(d) \/ QuitPart(d) \/ Kick(d)
    BY <2>4 DEF Identify, PartIfBanned, Part, Privmsg, Quit, QuitPart, Kick
  <2> QED
    BY <1>1, <2>1, <2>2, <2>3, <2>4 DEF Plain
<1>2. ASSUME NEW m \in Clients, Ban(m) \/ Serves(m) PROVE Kept
  BY <1>2, BanShrinks DEF BanStages
<1>3. CASE Tick \/ UNCHANGED vars
  BY <1>3 DEF Tick, vars
<1>4. CASE Restart
  BY <1>4 DEF Restart
<1> QED
  BY <1>1, <1>2, <1>3, <1>4, NextCases

\* a row of the server that is about the address of a client
LEMMA NewAddressRow ==
    ASSUME TypeOK, Banning, [Next]_vars, NEW c \in Clients, AddressBanned(c)'
    PROVE  \/ AddressBanned(c)
           \/ \E m \in Clients :
                 /\ BanAddress(m) /\ job[m].scope = Server /\ job[m].address = Address[c]
                 /\ job' = job /\ at'[m] \in {"account", "snapshot"}
<1>1. PICK b \in bans' : b.scope = Server /\ b.target = Address[c] /\ InForce(b)'
  BY DEF AddressBanned, InForce
<1>2. CASE b \in bans /\ InForce(b)
  BY <1>1, <1>2 DEF AddressBanned
<1>3. ASSUME NEW m \in Clients,
             at'[m] \in {"account", "snapshot"} /\ job' = job,
             \/ BanAddress(m) /\ b = Row(m, job[m].address)
             \/ BanAccount(m) /\ b = Row(m, job[m].account) /\ b.target \in Accounts
      PROVE  /\ BanAddress(m) /\ job[m].scope = Server /\ job[m].address = Address[c]
             /\ job' = job /\ at'[m] \in {"account", "snapshot"}
  BY <1>1, <1>3, ModerationAssumption DEF Row
<1> QED
  BY <1>1, <1>2, <1>3, NewRows

LEMMA NextServerEntered ==
    ASSUME TypeOK, Banning, ServerEntered, [Next]_vars
    PROVE  ServerEntered'
<1> SUFFICES ASSUME NEW c \in Clients, at'[c] = "accepted", AddressBanned(c)'
             PROVE  <<c, Server>> \in spared'
  BY DEF ServerEntered, AddressBanned, InForce
<1>1. CASE Accept(c)
  BY <1>1 DEF Accept, AddressBanned, InForce
<1>2. CASE at[c] = "accepted" /\ (<<c, Server>> \in spared => <<c, Server>> \in spared')
  <2>1. CASE AddressBanned(c)
    BY <1>2, <2>1 DEF ServerEntered
  <2>2. ASSUME NEW m \in Clients, BanAddress(m), job[m].scope = Server,
               job[m].address = Address[c]
        PROVE  <<c, Server>> \in spared'
    BY <1>2, <2>2 DEF BanAddress, AddBan, Entering, Matches
  <2> QED
    BY <2>1, <2>2, NewAddressRow
<1> QED
  BY <1>1, <1>2, AcceptedSteps

(***************************************************************************)
(* A connection whose address is banned from the server is about to be     *)
(* killed, unless it was let in before (server.go:829-860, 1422-1427).     *)
(***************************************************************************)
Killing(c) ==
    \E m \in Clients :
        job[m].scope = Server /\ job[m].address = Address[c] /\ Hunts(m, c)

Hunted ==
    \A c \in clients \ terminating :
        AddressBanned(c) => <<c, Server>> \in spared \/ Killing(c)

LEMMA NextHunted ==
    ASSUME TypeOK, Banning, Outside, ServerEntered, Hunted, [Next]_vars
    PROVE  Hunted'
<1> SUFFICES ASSUME NEW c \in clients', c \notin terminating', AddressBanned(c)'
             PROVE  <<c, Server>> \in spared' \/ Killing(c)'
  BY DEF Hunted, AddressBanned, InForce, Killing, Hunts
<1>0. c \in Clients
  <2>1. TypeOK'
    BY NextTypeOK
  <2> QED
    BY <2>1 DEF TypeOK
<1>1. ASSUME NEW m \in Clients, BanAddress(m), job[m].scope = Server,
             job[m].address = Address[c], job' = job, at'[m] \in {"account", "snapshot"}
      PROVE  Killing(c)'
  BY <1>1 DEF Killing, Hunts
<1>2. CASE AddressBanned(c) /\ Store(c)
  BY <1>0, <1>2 DEF Store, ServerEntered
<1>3. CASE AddressBanned(c) /\ c \in clients /\ (c \in terminating => c \in terminating')
  <2>0. SUFFICES ASSUME <<c, Server>> \notin spared'
                 PROVE  Killing(c)'
    OBVIOUS
  <2>1. <<c, Server>> \notin spared
    BY <2>0, ConnectedSteps
  <2>2. ASSUME NEW m \in Clients, job[m].scope = Server, job[m].address = Address[c],
               Hunts(m, c)
        PROVE  Killing(c)'
    <3>1. ~Expel(m, c)
      BY <1>0, <2>2, ExpelSteps DEF Marks, Matches
    <3>2. ~Restart /\ ~BanFails(m)
      BY <1>3, <2>0, <2>2, ConnectedSteps DEF BanFails, Hunts, Sought
    <3>3. Hunts(m, c)' /\ job'[m].scope = Server /\ job'[m].address = Address[c]
      BY <1>3, <2>2, <3>1, <3>2, HuntGoesOn, ModerationAssumption
    <3> QED
      BY <3>3 DEF Killing, Hunts
  <2> QED
    BY <1>3, <2>1, <2>2 DEF Hunted, Killing
<1> QED
  BY <1>0, <1>1, <1>2, <1>3, ConnectedSteps, NewAddressRow

THEOREM KilledAreLeavingCorrect == Spec => []KilledAreLeaving
<1>1. Init => ServerEntered /\ Hunted
  BY DEF Init, ServerEntered, Hunted
<1>2. TypeOK /\ Hunted => KilledAreLeaving
  BY DEF TypeOK, Hunted, KilledAreLeaving, AddressBanned, Killing, Hunts, Pending, Matches
<1> QED
  BY <1>1, <1>2, NextServerEntered, NextHunted, OutsideCorrect, PTL DEF Spec

(***************************************************************************)
(* Whom the bans of the channel would not let in, but was looked up before *)
(* they were stored, or creates the channel, is spared before it is a      *)
(* member.                                                                 *)
(***************************************************************************)
ChatEntered ==
    \A c \in Clients : at[c] = "store" /\ IsBanned(c, Chat) => <<c, Chat>> \in spared

\* what a client that is being stored in the channel has done in a step
LEMMA StoringSteps ==
    ASSUME TypeOK, Banning, [Next]_vars, NEW c \in Clients, at'[c] = "store"
    PROVE  \/ /\ at[c] = "store" /\ account'[c] = account[c]
              /\ <<c, Chat>> \in spared => <<c, Chat>> \in spared'
           \/ Create(c) \/ Admit(c)
<1> DEFINE Kept ==
      \/ /\ at[c] = "store" /\ account'[c] = account[c]
         /\ <<c, Chat>> \in spared => <<c, Chat>> \in spared'
      \/ Create(c) \/ Admit(c)
<1>1. ASSUME NEW d \in Clients, Plain(d) PROVE Kept
  <2> USE DEF Goto, TypeOK
  <2>1. CASE Accept(d) \/ Store(d) \/ Pass(d) \/ JoinCommand(d) \/ Exit(d)
    BY <2>1, AccountType DEF Accept, Store, Pass, JoinCommand, Exit
  <2>2. CASE Create(d) \/ Admit(d)
    BY <2>2 DEF Create, Admit
  <2>3. CASE FindNone(d) \/ Refuse(d) \/ JoinStore(d)
    BY <2>3 DEF FindNone, Refuse, JoinStore
  <2>4. CASE \/ Identify(d) \/ PartIfBanned(d) \/ Part(d) \/ Privmsg(d)
             \/ Quit(d) \/ QuitPart(d) \/ Kick(d)
    BY <2>4, AccountType DEF Identify, PartIfBanned, Part, Privmsg, Quit, QuitPart, Kick, Reading
  <2> QED
    BY <1>1, <2>1, <2>2, <2>3, <2>4 DEF Plain
<1>2. ASSUME NEW m \in Clients, Ban(m) \/ Serves(m) PROVE Kept
  BY <1>2, BanShrinks DEF BanStages
<1>3. CASE Tick \/ UNCHANGED vars
  BY <1>3 DEF Tick, vars
<1>4. CASE Restart
  BY <1>4 DEF Restart
<1> QED
  BY <1>1, <1>2, <1>3, <1>4, NextCases

\* what a member that is connected has done in a step
LEMMA MemberSteps ==
    ASSUME TypeOK, Banning, Outside, [Next]_vars, NEW c \in Clients,
           c \in clients', c \in members'
    PROVE  /\ ~Restart
           /\ <<c, Chat>> \in spared => <<c, Chat>> \in spared'
           /\ account'[c] = account[c] \/ at'[c] = "identified"
           /\ \/ at[c] = "store" /\ account'[c] = account[c]
              \/ /\ c \in clients \cap members
                 /\ at[c] = "identified" => at'[c] = "identified" \/ ~IsBanned(c, Chat)
<1>1. c \in Clients /\ c \in clients' /\ c \in members'
  OBVIOUS
<1> DEFINE Kept ==
      /\ <<c, Chat>> \in spared => <<c, Chat>> \in spared'
      /\ account'[c] = account[c] \/ at'[c] = "identified"
      /\ \/ at[c] = "store" /\ account'[c] = account[c]
         \/ /\ c \in clients \cap members
            /\ at[c] = "identified" => at'[c] = "identified" \/ ~IsBanned(c, Chat)
<1>2. ~Restart
  BY DEF Restart
<1>3. ASSUME NEW d \in Clients, Plain(d) PROVE Kept
  <2> USE DEF Goto, TypeOK
  <2>1. CASE Accept(d) \/ Store(d) \/ Pass(d) \/ JoinCommand(d) \/ Exit(d)
    BY <1>1, <2>1, AccountType DEF Accept, Store, Pass, JoinCommand, Exit, Outside
  <2>2. CASE FindNone(d) \/ Create(d) \/ Admit(d) \/ Refuse(d) \/ JoinStore(d)
    BY <1>1, <2>2 DEF FindNone, Create, Admit, Refuse, JoinStore, Outside
  <2>3. CASE Identify(d) \/ Privmsg(d) \/ Quit(d)
    BY <1>1, <2>3, AccountType DEF Identify, Privmsg, Quit, Reading
  <2>4. CASE PartIfBanned(d)
    BY <1>1, <2>4, PartType DEF PartIfBanned, PartChannel
  <2>5. CASE Part(d) \/ QuitPart(d)
    BY <1>1, <2>5, PartType DEF Part, QuitPart, Reading
  <2>6. CASE Kick(d)
    <3>1. PICK id \in Identifiers : \E r \in Revealed(id) : PartChannel(r.client)
      BY <2>6 DEF Kick
    <3>2. PICK r \in Revealed(id) : PartChannel(r.client)
      BY <3>1
    <3>3. r.client \in Clients
      BY RevealedType
    <3> QED
      BY <1>1, <2>6, <3>2, <3>3, PartType DEF Kick
  <2> QED
    BY <1>3, <2>1, <2>2, <2>3, <2>4, <2>5, <2>6 DEF Plain
<1>4. ASSUME NEW m \in Clients, Ban(m) \/ Serves(m) PROVE Kept
  <2>1. at[c] = "identified" => at'[c] = "identified"
    BY <1>1, <1>4, BanShrinks DEF BanStages
  <2> QED
    BY <1>1, <1>4, <2>1, BanShrinks DEF Shrinks
<1>5. ASSUME Tick \/ UNCHANGED vars PROVE Kept
  <2>1. /\ clients' = clients /\ members' = members /\ account' = account
        /\ at' = at /\ spared' = spared
    BY <1>5 DEF Tick, vars
  <2> QED
    BY <1>1, <2>1
<1> QED
  BY <1>2, <1>3, <1>4, <1>5, NextCases

(***************************************************************************)
(* Which clients the rows that a goroutine has stored so far are about.    *)
(***************************************************************************)
Seeks(m, c) ==
    \/ Address[c] = job[m].address
    \/ at[m] # "account" /\ job[m].account # NoAccount /\ account[c] = job[m].account

\* a row of the channel that is about a client whose account is as it was
LEMMA NewChatRow ==
    ASSUME TypeOK, Banning, [Next]_vars, NEW c \in Clients, account'[c] = account[c],
           IsBanned(c, Chat)'
    PROVE  \/ IsBanned(c, Chat)
           \/ \E m \in Clients :
                 /\ BanAddress(m) \/ BanAccount(m)
                 /\ job[m].scope = Chat /\ Seeks(m, c)' /\ Matches(job[m], c)
                 /\ job' = job /\ at'[m] \in {"account", "snapshot"}
<1>1. PICK b \in bans' : b.scope = Chat /\ b.target \in {Address[c], account[c]} /\ InForce(b)'
  BY DEF IsBanned, Rows, InForce
<1>2. CASE b \in bans /\ InForce(b)
  BY <1>1, <1>2 DEF IsBanned, Rows
<1>3. ASSUME NEW m \in Clients,
             at'[m] \in {"account", "snapshot"} /\ job' = job,
             \/ BanAddress(m) /\ b = Row(m, job[m].address)
             \/ BanAccount(m) /\ b = Row(m, job[m].account) /\ b.target \in Accounts
      PROVE  /\ BanAddress(m) \/ BanAccount(m)
             /\ job[m].scope = Chat /\ Seeks(m, c)' /\ Matches(job[m], c)
             /\ job' = job /\ at'[m] \in {"account", "snapshot"}
  <2>1. Address[c] \in Addresses /\ account[c] \in Accounts \cup {NoAccount}
    BY ModerationAssumption DEF TypeOK
  <2>2. CASE BanAddress(m) /\ b = Row(m, job[m].address)
    <3>1. job[m].address \in Addresses
      BY <2>2 DEF BanAddress, Banning
    <3> QED
      BY <1>1, <1>3, <2>1, <2>2, <3>1, ModerationAssumption DEF Row, Matches, Seeks
  <2>3. CASE BanAccount(m) /\ b = Row(m, job[m].account) /\ b.target \in Accounts
    <3>1. at'[m] = "snapshot"
      BY <2>3 DEF BanAccount, Goto, TypeOK
    <3> QED
      BY <1>1, <1>3, <2>1, <2>3, <3>1, ModerationAssumption DEF Row, Matches, Seeks
  <2> QED
    BY <1>3, <2>2, <2>3
<1> QED
  BY <1>1, <1>2, <1>3, NewRows

LEMMA NextChatEntered ==
    ASSUME TypeOK, Banning, ChatEntered, [Next]_vars
    PROVE  ChatEntered'
<1> SUFFICES ASSUME NEW c \in Clients, at'[c] = "store", IsBanned(c, Chat)'
             PROVE  <<c, Chat>> \in spared'
  BY DEF ChatEntered, IsBanned, Rows, InForce
<1>1. CASE Create(c)
  BY <1>1 DEF Create, IsBanned, Rows, InForce
<1>2. CASE Admit(c)
  BY <1>2 DEF Admit, IsBanned, Rows, InForce
<1>3. CASE /\ at[c] = "store" /\ account'[c] = account[c]
           /\ <<c, Chat>> \in spared => <<c, Chat>> \in spared'
  <2>1. CASE IsBanned(c, Chat)
    BY <1>3, <2>1 DEF ChatEntered
  <2>2. ASSUME NEW m \in Clients, BanAddress(m) \/ BanAccount(m), job[m].scope = Chat,
               Matches(job[m], c)
        PROVE  <<c, Chat>> \in spared'
    BY <1>3, <2>2, ModerationAssumption DEF BanAddress, BanAccount, AddBan, Entering
  <2> QED
    BY <1>3, <2>1, <2>2, NewChatRow
<1> QED
  BY <1>1, <1>2, <1>3, StoringSteps

(***************************************************************************)
(* A connected member that a row of the channel keeps out is about to be   *)
(* removed, unless it was let in before, or created the channel            *)
(* (server.go:326, 394, 829-852, 948-958).                                 *)
(***************************************************************************)
Leaving(c) ==
    \E m \in Clients : job[m].scope = Chat /\ Seeks(m, c) /\ Hunts(m, c)

ChatHunted ==
    \A c \in clients \cap members :
        IsBanned(c, Chat) =>
            <<c, Chat>> \in spared \/ at[c] = "identified" \/ Leaving(c)

LEMMA NextChatHunted ==
    ASSUME TypeOK, Banning, Outside, ChatEntered, ChatHunted, [Next]_vars
    PROVE  ChatHunted'
<1> SUFFICES ASSUME NEW c \in clients' \cap members', IsBanned(c, Chat)',
                    at'[c] # "identified"
             PROVE  <<c, Chat>> \in spared' \/ Leaving(c)'
  BY DEF ChatHunted, IsBanned, Rows, InForce, Leaving, Hunts, Seeks
<1>0. c \in Clients
  <2>1. TypeOK'
    BY NextTypeOK
  <2> QED
    BY <2>1 DEF TypeOK
<1>1. account'[c] = account[c]
  BY <1>0, MemberSteps
<1>2. ASSUME NEW m \in Clients, job[m].scope = Chat, Seeks(m, c)', job' = job,
             at'[m] \in {"account", "snapshot"}
      PROVE  Leaving(c)'
  BY <1>2 DEF Leaving, Hunts
<1>3. CASE IsBanned(c, Chat) /\ at[c] = "store"
  BY <1>0, <1>3, MemberSteps DEF ChatEntered
<1>4. CASE IsBanned(c, Chat) /\ c \in clients \cap members /\ at[c] # "identified"
  <2>0. SUFFICES ASSUME <<c, Chat>> \notin spared'
                 PROVE  Leaving(c)'
    OBVIOUS
  <2>1. <<c, Chat>> \notin spared
    BY <1>0, <2>0, MemberSteps
  <2>2. ASSUME NEW m \in Clients, job[m].scope = Chat, Seeks(m, c), Hunts(m, c)
        PROVE  Leaving(c)'
    <3>1. ~Expel(m, c)
      BY <1>4, <2>2, ModerationAssumption DEF Expel, Seeks, Matches, PartChannel
    <3>2. ~Restart /\ ~BanFails(m)
      BY <1>0, <1>4, <2>0, <2>2, MemberSteps, ModerationAssumption
         DEF BanFails, Hunts, Seeks, Sought
    <3>3. /\ Hunts(m, c)' /\ job'[m].scope = Chat
          /\ at'[m] = "account" => at[m] = "account"
          /\ job'[m].address = job[m].address /\ job'[m].account = job[m].account
      BY <1>4, <2>2, <3>1, <3>2, HuntGoesOn
    <3>4. Seeks(m, c)'
      BY <1>1, <2>2, <3>3 DEF Seeks
    <3> QED
      BY <3>3, <3>4 DEF Leaving
  <2> QED
    BY <1>4, <2>1, <2>2 DEF ChatHunted, Leaving
<1>5. IsBanned(c, Chat) => \/ at[c] = "store"
                           \/ c \in clients \cap members /\ at[c] # "identified"
  BY <1>0, MemberSteps
<1> QED
  BY <1>0, <1>1, <1>2, <1>3, <1>4, <1>5, NewChatRow

THEOREM BannedAreLeavingCorrect == Spec => []BannedAreLeaving
<1>1. Init => ChatEntered /\ ChatHunted
  BY DEF Init, ChatEntered, ChatHunted
<1>2. ChatHunted => BannedAreLeaving
  BY DEF ChatHunted, BannedAreLeaving, Leaving, Hunts, Seeks, Matches, Pending
<1> QED
  BY <1>1, <1>2, NextChatEntered, NextChatHunted, OutsideCorrect, PTL DEF Spec

(***************************************************************************)
(* The pages of a log (module ChannelLog), whatever has been written.  A   *)
(* set of natural numbers has a least element, and a greatest if it is     *)
(* bounded: they stand for the last entry of a page, and the first page    *)
(* that an entry fits on.                                                  *)
(***************************************************************************)
LEMMA LeastNatural ==
    ASSUME NEW S, S \subseteq Nat, S # {}
    PROVE  \E n \in S : \A m \in S : n <= m
<1> DEFINE less == OpToRel(<, Nat)
<1>1. \A m, n \in Nat : m < n => <<m, n>> \in less
  BY DEF OpToRel
<1>2. PICK n \in S : \A m \in S : <<m, n>> \notin less
  <2>1. IsWellFoundedOn(less, Nat)
    BY NatLessThanWellFounded
  <2> HIDE DEF less
  <2> QED
    BY <2>1, WFMin
<1> HIDE DEF less
<1>3. \A m \in S : ~(m < n)
  BY <1>1, <1>2
<1> QED
  BY <1>2, <1>3

LEMMA GreatestNatural ==
    ASSUME NEW S, S \subseteq Nat, S # {}, NEW b \in Nat, \A m \in S : m <= b
    PROVE  \E n \in S : \A m \in S : m <= n
<1> DEFINE T == {k \in Nat : b - k \in S}
<1>1. \A m \in S : b - m \in T
  <2>1. ASSUME NEW m \in S PROVE m \in Nat /\ b - m \in Nat /\ b - (b - m) = m
    OBVIOUS
  <2> QED
    BY <2>1
<1>2. T \subseteq Nat /\ T # {}
  BY <1>1
<1> HIDE DEF T
<1>3. PICK t \in T : \A u \in T : t <= u
  BY <1>2, LeastNatural
<1>4. b - t \in S /\ t \in Nat
  BY <1>3 DEF T
<1>5. ASSUME NEW m \in S PROVE m <= b - t
  BY <1>1, <1>3, <1>4
<1> QED
  BY <1>4, <1>5

LEMMA ListedNat ==
    ASSUME NEW lg, Len(lg) \in Nat, NEW showAll
    PROVE  Listed(lg, showAll) \subseteq 0..(Len(lg) - 1)
  BY DEF Listed, Places

LEMMA FromFinite ==
    ASSUME NEW lg, Len(lg) \in Nat, NEW showAll, NEW p, NEW i
    PROVE  /\ From(lg, p, showAll) \subseteq 0..(Len(lg) - 1)
           /\ Page(lg, p, showAll) \subseteq 0..(Len(lg) - 1)
           /\ Before(lg, p, showAll, i) \subseteq From(lg, p, showAll)
           /\ IsFiniteSet(From(lg, p, showAll)) /\ Cardinality(From(lg, p, showAll)) \in Nat
           /\ IsFiniteSet(Page(lg, p, showAll)) /\ Cardinality(Page(lg, p, showAll)) \in Nat
           /\ IsFiniteSet(Before(lg, p, showAll, i))
           /\ Cardinality(Before(lg, p, showAll, i)) \in Nat
<1>1. IsFiniteSet(0..(Len(lg) - 1))
  BY FS_Interval
<1>2. /\ From(lg, p, showAll) \subseteq 0..(Len(lg) - 1)
      /\ Page(lg, p, showAll) \subseteq 0..(Len(lg) - 1)
      /\ Before(lg, p, showAll, i) \subseteq From(lg, p, showAll)
  BY ListedNat DEF From, Page, Before
<1> QED
  BY <1>1, <1>2, FS_Subset, FS_CardinalityType

(***************************************************************************)
(* Before the last entry of a page there are less than PerPage others.     *)
(***************************************************************************)
LEMMA PageFits ==
    ASSUME NEW lg, Len(lg) \in Nat, NEW showAll, NEW p \in Nat \ {0}
    PROVE  Cardinality(Page(lg, p, showAll)) <= PerPage
<1> DEFINE P == Page(lg, p, showAll)
<1>1. CASE P = {}
  BY <1>1, FS_EmptySet, ChannelLogAssumption
<1>2. CASE P # {}
  <2>1. P \subseteq 0..(Len(lg) - 1)
    BY FromFinite
  <2>2. PICK x \in P : \A y \in P : y <= x
    <3>1. P \subseteq Nat /\ \A m \in P : m <= Len(lg)
      BY <2>1
    <3> HIDE DEF P
    <3> QED
      BY <1>2, <3>1, GreatestNatural
  <2> DEFINE B == Before(lg, p, showAll, x)
  <2>3. Cardinality(B) < PerPage /\ p # -1
    BY <2>2 DEF Page
  <2>4. ASSUME NEW y \in P PROVE y \in B \cup {x}
    <3>1. y = x \/ y < x
      BY <2>1, <2>2
    <3>2. y \in From(lg, p, showAll)
      BY DEF Page
    <3> QED
      BY <3>1, <3>2 DEF Before
  <2>5. IsFiniteSet(B) /\ Cardinality(B) \in Nat
    BY FromFinite
  <2>6. IsFiniteSet(B \cup {x}) /\ Cardinality(B \cup {x}) <= Cardinality(B) + 1
    <3> HIDE DEF B
    <3>1. /\ IsFiniteSet(B \cup {x})
          /\ Cardinality(B \cup {x}) = IF x \in B THEN Cardinality(B) ELSE Cardinality(B) + 1
      BY <2>5, FS_AddElement, Zenon
    <3> QED
      BY <2>5, <3>1
  <2>7. Cardinality(P) <= Cardinality(B \cup {x}) /\ Cardinality(P) \in Nat
    BY <2>4, <2>6, FS_Subset, FromFinite
  <2>8. Cardinality(B \cup {x}) \in Nat
    BY <2>6, FS_CardinalityType
  <2> QED
    BY <2>3, <2>5, <2>6, <2>7, <2>8, ChannelLogAssumption
<1> QED
  BY <1>1, <1>2

(***************************************************************************)
(* An entry with PerPage entries of a page before it is on a later page,   *)
(* and the page names the next.                                            *)
(***************************************************************************)
LEMMA PageStart == ASSUME NEW n \in Nat PROVE PerPage * n >= n /\ PerPage * n \in Nat
<1>1. PerPage \in Nat /\ PerPage >= 1
  BY ChannelLogAssumption
<1> QED
  BY <1>1

LEMMA FullBefore ==
    ASSUME NEW lg, Len(lg) \in Nat, NEW showAll, NEW i \in Listed(lg, showAll),
           NEW q \in Nat \ {0}, Cardinality(Before(lg, q, showAll, i)) >= PerPage
    PROVE  LogsRemain(lg, q, showAll) /\ i >= PerPage * q
<1> DEFINE B == Before(lg, q, showAll, i)
<1> DEFINE s == PerPage * (q - 1)
<1>1. /\ PerPage \in Nat \ {0} /\ i \in Nat /\ q # -1 /\ s \in Nat
      /\ PerPage * q = s + PerPage
  <2>1. q - 1 \in Nat /\ PerPage \in Nat
    BY ChannelLogAssumption
  <2> QED
    BY <2>1, PageStart, ListedNat, ChannelLogAssumption
<1>2. IsFiniteSet(B) /\ Cardinality(B) \in Nat
  BY FromFinite
<1>3. B \subseteq s..(i - 1)
  BY <1>1, ListedNat DEF Before, From
<1>4. Cardinality(B) <= Cardinality(s..(i - 1))
  <2> HIDE DEF s, B
  <2>1. s \in Int /\ i - 1 \in Int
    BY <1>1
  <2> QED
    BY <1>3, <2>1, FS_Interval, FS_Subset
<1>5. i >= s + PerPage
  <2>1. Cardinality(s..(i - 1)) = IF s > i - 1 THEN 0 ELSE i - 1 - s + 1
    <3> HIDE DEF s, B
    <3>1. s \in Int /\ i - 1 \in Int
      BY <1>1
    <3> QED
      BY <3>1, FS_Interval
  <2>2. Cardinality(B) >= PerPage
    OBVIOUS
  <2> HIDE DEF s, B
  <2> QED
    BY <1>1, <1>2, <1>4, <2>1, <2>2
<1>6. B \cup {i} \subseteq From(lg, q, showAll) /\ i \notin B
  <2>1. i >= s
    BY <1>1, <1>5
  <2> QED
    BY <1>1, <2>1 DEF Before, From
<1>7. Cardinality(B \cup {i}) = Cardinality(B) + 1
  BY <1>2, <1>6, FS_AddElement
<1>8. Cardinality(B \cup {i}) <= Cardinality(From(lg, q, showAll))
  BY <1>6, FromFinite, FS_Subset
<1>9. Cardinality(From(lg, q, showAll)) \in Nat
  BY FromFinite
<1> QED
  BY <1>1, <1>2, <1>5, <1>7, <1>8, <1>9 DEF LogsRemain

(***************************************************************************)
(* The least page with less than PerPage entries before an entry shows it. *)
(***************************************************************************)
LEMMA PageFound ==
    ASSUME NEW lg, Len(lg) \in Nat, NEW showAll, NEW i \in Listed(lg, showAll)
    PROVE  \E p \in 1..(Len(lg) + 1) :
              /\ i \in Page(lg, p, showAll)
              /\ \A q \in 1..(p - 1) : LogsRemain(lg, q, showAll)
<1> DEFINE S == {p \in Nat \ {0} : Cardinality(Before(lg, p, showAll, i)) < PerPage}
<1>0. i \in Nat /\ i < Len(lg) /\ PerPage \in Nat \ {0}
  BY ListedNat, ChannelLogAssumption
<1>1. Len(lg) + 1 \in S
  <2>1. PerPage * Len(lg) >= Len(lg) /\ PerPage * Len(lg) \in Nat
    BY PageStart
  <2>2. (Len(lg) + 1) - 1 = Len(lg) /\ Len(lg) + 1 # -1 /\ Len(lg) + 1 \in Nat \ {0}
    OBVIOUS
  <2>3. Before(lg, Len(lg) + 1, showAll, i) = {}
    BY <1>0, <2>1, <2>2, ListedNat DEF Before, From
  <2> QED
    BY <1>0, <2>2, <2>3, FS_EmptySet
<1>2. PICK p \in S : \A q \in S : p <= q
  <2>1. S \subseteq Nat /\ S # {}
    BY <1>1
  <2> HIDE DEF S
  <2> QED
    BY <2>1, LeastNatural
<1>3. p \in Nat \ {0} /\ p <= Len(lg) + 1
  BY <1>1, <1>2
<1>4. ASSUME NEW q \in 1..(p - 1)
      PROVE  q \in Nat \ {0} /\ Cardinality(Before(lg, q, showAll, i)) >= PerPage
  <2>1. q \in Nat \ {0} /\ q < p
    BY <1>3
  <2>2. q \notin S
    BY <1>2, <1>3, <2>1
  <2>3. Cardinality(Before(lg, q, showAll, i)) \in Nat
    BY FromFinite
  <2> QED
    BY <1>0, <2>1, <2>2, <2>3
<1>5. i >= PerPage * (p - 1)
  <2>1. CASE p = 1
    BY <1>0, <2>1
  <2>2. CASE p # 1
    <3>1. p - 1 \in 1..(p - 1)
      BY <1>3, <2>2
    <3> QED
      BY <1>4, <3>1, FullBefore
  <2> QED
    BY <2>1, <2>2
<1>6. i \in Page(lg, p, showAll)
  BY <1>2, <1>5 DEF Page, From
<1>7. \A q \in 1..(p - 1) : LogsRemain(lg, q, showAll)
  BY <1>4, FullBefore
<1> QED
  BY <1>3, <1>6, <1>7

(***************************************************************************)
(* Whoever reads page after page sees every entry that is to be shown, and *)
(* no page is longer than PerPage, for every log and every length of pages *)
(* (channel.go:90-114): no property of how the log came about is needed.   *)
(***************************************************************************)
THEOREM PagesShowAllCorrect == Spec => []PagesShowAll
<1>1. TypeOK => PagesShowAll
  <2> SUFFICES ASSUME TypeOK PROVE PagesShowAll
    OBVIOUS
  <2>1. Len(log) \in Nat
    BY DEF TypeOK
  <2> QED
    BY <2>1, PageFits, PageFound DEF PagesShowAll
<1> QED
  BY <1>1, ModerationTypeCorrect, PTL

=============================================================================
