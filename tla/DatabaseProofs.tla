--------------------------- MODULE DatabaseProofs ---------------------------
(***************************************************************************)
(* Theorems about module Database, for any number of sessions, accounts,   *)
(* names and passwords.                                                    *)
(***************************************************************************)
EXTENDS Database, TLAPS

(***************************************************************************)
(* The inductive invariant.  Commands are under way only while the process *)
(* serves; every other account was added by one that serves, when account  *)
(* 1 existed.                                                              *)
(***************************************************************************)
Quiet == start # "serving" => \A s \in Sessions : at[s] = "read"

AdminFirst ==
    /\ start \in Starting \cup {"serving"} => 1 \in Rows
    /\ 1 \notin Rows => Rows = {}

\* how far the initialisation is, when it has not been cut short; a channel
\* that a failing statement has left unfounded is passed over
Founding ==
    ~cut =>
        /\ start = "permission &" => Server \in founded
        /\ start \in {"channel #", "permission #"} =>
              Server \in failed \/ Server \in founded \cap granted
        /\ start = "permission #" => Lobby \in founded
        /\ 1 \in Rows /\ start \notin Starting =>
              \A ch \in Channels : ch \in failed \/ ch \in founded \cap granted

\* what a session has found is so still, unless another has overtaken it
Lookups ==
    \A s \in Sessions : s \notin overtaken =>
        /\ at[s] # "read" => /\ name[args[s].id] = args[s].user
                             /\ key[args[s].id] = <<args[s].user, args[s].password>>
        /\ at[s] = "free" => AccountU(args[s].new) = {}

DInv == TypeOK /\ Quiet /\ AdminFirst /\ Founding /\ Lookups /\ AccountsOpen /\ NamesDiffer

LEMMA RowsAre == \A i : i \in Rows <=> i \in Ids /\ name[i] # NoName
  BY DEF Rows

(***************************************************************************)
(* An account is open when its hash is of its name and some password.      *)
(***************************************************************************)
LEMMA OpenAre ==
    ASSUME TypeOK, NEW i \in Rows
    PROVE  (\E p \in Passwords : i \in Auth(name[i], p)) <=>
           (\E p \in Passwords : key[i] = <<name[i], p>>)
  BY DEF Auth, AccountU

LEMMA InitInv == Init => DInv
<1> SUFFICES ASSUME Init PROVE DInv
  OBVIOUS
<1>1. Rows = {}
  BY DEF Init, Rows
<1>2. TypeOK
  <2>1. <<Admin, Default>> \in Keys
    BY DatabaseAssumption DEF Keys
  <2>2. NoCommand \in [id : {NoId}, user : Names \cup {NoName}, password : Passwords,
                       new : Names \cup Passwords \cup {NoName}]
    BY DatabaseAssumption DEF NoCommand
  <2> QED
    BY <1>1, <2>1, <2>2 DEF Init, TypeOK
<1>3. Quiet /\ AdminFirst /\ Founding /\ Lookups
  BY <1>1 DEF Init, Quiet, AdminFirst, Founding, Lookups, Starting
<1>4. AccountsOpen /\ NamesDiffer
  BY <1>1 DEF AccountsOpen, NamesDiffer
<1> QED
  BY <1>2, <1>3, <1>4 DEF DInv

(***************************************************************************)
(* Steps that leave the table of accounts and the sessions alone: what is  *)
(* said of them goes on to hold.                                           *)
(***************************************************************************)
LEMMA AccountsAlone ==
    ASSUME DInv, UNCHANGED <<name, key, account, at, args, overtaken, torn>>
    PROVE  /\ Rows' = Rows /\ Lookups' /\ AccountsOpen' /\ NamesDiffer'
           /\ start' \in Starting \cup {"down", "connected", "serving"}
                 /\ founded' \subseteq Channels /\ granted' \subseteq Channels
                 /\ cut' \in BOOLEAN /\ failed' \subseteq Channels
              => TypeOK'
<1>1. Rows' = Rows
  BY DEF Rows
<1>2. Lookups'
  BY DEF DInv, Lookups, AccountU, Rows
<1>3. AccountsOpen' /\ NamesDiffer'
  BY DEF DInv, AccountsOpen, NamesDiffer, Auth, AccountU, Rows
<1>4. ASSUME start' \in Starting \cup {"down", "connected", "serving"},
             founded' \subseteq Channels, granted' \subseteq Channels, cut' \in BOOLEAN,
             failed' \subseteq Channels
      PROVE  TypeOK'
  BY <1>1, <1>4 DEF DInv, TypeOK
<1> QED
  BY <1>1, <1>2, <1>3, <1>4

LEMMA ConnectStep == DInv /\ Connect => DInv'
<1> SUFFICES ASSUME DInv, Connect PROVE DInv'
  OBVIOUS
<1>1. Rows' = Rows /\ Lookups' /\ AccountsOpen' /\ NamesDiffer' /\ TypeOK'
  BY AccountsAlone DEF Connect, table, session, history, DInv, TypeOK
<1>2. Quiet' /\ AdminFirst' /\ Founding'
  BY <1>1 DEF DInv, Connect, table, session, history, Quiet, AdminFirst, Founding, Starting
<1> QED
  BY <1>1, <1>2 DEF DInv

(***************************************************************************)
(* The initialisation, statement by statement.                             *)
(***************************************************************************)
LEMMA InitializeStep == DInv /\ Initialize => DInv'
<1> SUFFICES ASSUME DInv, Initialize PROVE DInv'
  OBVIOUS
<1> USE DatabaseAssumption DEF table, session, history
<1>1. CASE Initialized
  <2>1. Rows' = Rows /\ Lookups' /\ AccountsOpen' /\ NamesDiffer' /\ TypeOK'
    BY <1>1, AccountsAlone DEF Initialized, DInv, TypeOK
  <2>2. Quiet' /\ AdminFirst' /\ Founding'
    BY <1>1, <2>1 DEF DInv, Initialized, Quiet, AdminFirst, Founding, Starting
  <2> QED
    BY <2>1, <2>2 DEF DInv
<1>2. CASE AddAdmin
  <2>1. Rows = {} /\ 1 \in Ids /\ Admin # NoName /\ start = "connected"
    BY <1>2 DEF DInv, AdminFirst, AddAdmin
  <2>2. name' = [name EXCEPT ![1] = Admin] /\ key' = [key EXCEPT ![1] = <<Admin, Default>>]
    BY <1>2 DEF AddAdmin
  <2>3. name'[1] = Admin /\ key'[1] = <<Admin, Default>>
        /\ \A i \in Ids \ {1} : name'[i] = NoName
    BY <2>1, <2>2, RowsAre DEF DInv, TypeOK
  <2>4. Rows' = {1}
    BY <2>1, <2>3 DEF Rows
  <2>5. /\ \A s \in Sessions : at[s] = "read" /\ at' = at
        /\ UNCHANGED <<founded, granted, account, at, args, overtaken, torn, cut,
                       failed>>
        /\ start' = "channel &"
    BY <1>2, <2>1 DEF AddAdmin, DInv, Quiet
  <2>6. TypeOK'
    <3>1. name' \in [Ids -> Names \cup {NoName}]
      BY <2>2 DEF DInv, TypeOK
    <3>2. key' \in [Ids -> Keys]
      BY <2>2 DEF DInv, TypeOK, Keys
    <3>3. Rows \subseteq Rows'
      BY <2>1
    <3> QED
      BY <3>1, <3>2, <3>3, <2>5 DEF DInv, TypeOK, Starting
  <2>7. Quiet' /\ AdminFirst' /\ Founding' /\ Lookups'
    BY <2>4, <2>5 DEF DInv, Quiet, AdminFirst, Founding, Lookups, Starting
  <2>8. AccountsOpen' /\ NamesDiffer'
    BY <2>3, <2>4 DEF AccountsOpen, NamesDiffer, Auth, AccountU
  <2> QED
    BY <2>6, <2>7, <2>8 DEF DInv
<1>3. CASE \/ AddChannel(Server, "channel &", "permission &")
           \/ AddChannel(Lobby, "channel #", "permission #")
  <2>1. Rows' = Rows /\ Lookups' /\ AccountsOpen' /\ NamesDiffer' /\ TypeOK'
    BY <1>3, AccountsAlone DEF AddChannel, DInv, TypeOK, Starting, Channels
  <2>2. Quiet' /\ AdminFirst' /\ Founding'
    BY <1>3, <2>1 DEF DInv, AddChannel, Quiet, AdminFirst, Founding, Starting, Channels
  <2> QED
    BY <2>1, <2>2 DEF DInv
<1>4. CASE \/ SetPermission(Server, "permission &", "channel #")
           \/ SetPermission(Lobby, "permission #", "serving")
  <2>1. Rows' = Rows /\ Lookups' /\ AccountsOpen' /\ NamesDiffer' /\ TypeOK'
    BY <1>4, AccountsAlone DEF SetPermission, DInv, TypeOK, Starting, Channels
  <2>2. Quiet' /\ AdminFirst'
    BY <1>4, <2>1 DEF DInv, SetPermission, Quiet, AdminFirst, Starting
  <2>3. founded \subseteq Channels /\ granted \subseteq Channels
    BY DEF DInv, TypeOK
  <2>4. CASE SetPermission(Server, "permission &", "channel #")
    <3>1. Founding'
      BY <2>1, <2>3, <2>4 DEF DInv, SetPermission, Founding, Starting, Channels
    <3> QED
      BY <2>1, <2>2, <3>1 DEF DInv
  <2>5. CASE SetPermission(Lobby, "permission #", "serving")
    <3>1. Founding'
      BY <2>1, <2>3, <2>5 DEF DInv, SetPermission, Founding, Starting, Channels
    <3> QED
      BY <2>1, <2>2, <3>1 DEF DInv
  <2> QED
    BY <1>4, <2>4, <2>5
<1>5. CASE \/ FoundingFails(Server, {"channel &", "permission &"}, "channel #")
           \/ FoundingFails(Lobby, {"channel #", "permission #"}, "serving")
  <2>1. Rows' = Rows /\ Lookups' /\ AccountsOpen' /\ NamesDiffer' /\ TypeOK'
    BY <1>5, AccountsAlone DEF FoundingFails, DInv, TypeOK, Starting, Channels
  <2>2. Quiet' /\ AdminFirst'
    BY <1>5, <2>1 DEF DInv, FoundingFails, Quiet, AdminFirst, Starting
  <2>3. founded' = founded /\ granted' = granted /\ cut' = cut
    BY <1>5 DEF FoundingFails
  <2>4. CASE FoundingFails(Server, {"channel &", "permission &"}, "channel #")
    <3>1. start' = "channel #" /\ Server \in failed'
      BY <2>4 DEF FoundingFails
    <3>2. Founding'
      BY <3>1 DEF Founding, Starting
    <3> QED
      BY <2>1, <2>2, <3>2 DEF DInv
  <2>5. CASE FoundingFails(Lobby, {"channel #", "permission #"}, "serving")
    <3>1. start' = "serving" /\ failed' = failed \cup {Lobby}
          /\ start \in {"channel #", "permission #"}
      BY <2>5 DEF FoundingFails
    <3>2. cut \/ Server \in failed \/ Server \in founded \cap granted
      BY <3>1 DEF DInv, Founding
    <3>3. Founding'
      BY <2>3, <3>1, <3>2 DEF Founding, Starting, Channels
    <3> QED
      BY <2>1, <2>2, <3>3 DEF DInv
  <2> QED
    BY <1>5, <2>4, <2>5
<1> QED
  BY <1>1, <1>2, <1>3, <1>4, <1>5 DEF Initialize

(***************************************************************************)
(* The process ends.                                                       *)
(***************************************************************************)
LEMMA EndedStep == DInv /\ Ended => DInv'
<1> SUFFICES ASSUME DInv, Ended PROVE DInv'
  OBVIOUS
<1> USE DEF Ended, table
<1>1. Rows' = Rows
  BY DEF Rows
<1>2. \A s \in Sessions : at'[s] = "read"
  OBVIOUS
<1>3. TypeOK'
  <2>1. NoCommand \in [id : Rows \cup {NoId}, user : Names \cup {NoName},
                       password : Passwords, new : Names \cup Passwords \cup {NoName}]
    BY DatabaseAssumption DEF NoCommand
  <2>2. name' = name /\ key' = key /\ founded' = founded /\ granted' = granted
        /\ torn' = torn /\ failed' = failed
    OBVIOUS
  <2>3. cut' \in BOOLEAN
    BY DEF DInv, TypeOK
  <2>4. /\ account' \in [Sessions -> Rows \cup {NoId}]
        /\ args' \in [Sessions -> [id : Rows \cup {NoId}, user : Names \cup {NoName},
                                   password : Passwords,
                                   new : Names \cup Passwords \cup {NoName}]]
        /\ at' \in [Sessions -> {"read", "username", "free", "password"}]
    BY <2>1
  <2> QED
    BY <1>1, <1>2, <2>2, <2>3, <2>4 DEF DInv, TypeOK
<1>4. Quiet' /\ AdminFirst' /\ Lookups'
  BY <1>1, <1>2 DEF DInv, Quiet, AdminFirst, Lookups, Starting
<1>5. Founding'
  BY <1>1 DEF DInv, Founding, Starting
<1>6. AccountsOpen' /\ NamesDiffer'
  BY <1>1 DEF DInv, AccountsOpen, NamesDiffer, Auth, AccountU
<1> QED
  BY <1>3, <1>4, <1>5, <1>6 DEF DInv

(***************************************************************************)
(* An operator adds an account while no command is under way.              *)
(***************************************************************************)
LEMMA InsertStep ==
    ASSUME DInv, NEW i \in Ids, NEW n \in Names, NEW p \in Passwords, Insert(i, n, p)
    PROVE  DInv'
<1> USE DatabaseAssumption DEF Insert, session, history
<1>1. /\ name' \in [Ids -> Names \cup {NoName}]
      /\ name'[i] = n /\ n # NoName /\ key'[i] = <<n, p>>
      /\ \A j \in Ids \ {i} : name'[j] = name[j] /\ key'[j] = key[j]
      /\ key' \in [Ids -> Keys]
  BY DEF DInv, TypeOK, Keys
<1>2. Rows' = Rows \cup {i} /\ i \notin Rows
  BY <1>1 DEF Rows
<1>3. \A s \in Sessions : at'[s] = "read"
  OBVIOUS
<1>4. TypeOK'
  BY <1>1, <1>2, <1>3 DEF DInv, TypeOK
<1>5. Quiet' /\ AdminFirst' /\ Founding' /\ Lookups'
  BY <1>2, <1>3 DEF DInv, Quiet, AdminFirst, Founding, Lookups, Starting
<1>6. AccountsOpen'
  <2> SUFFICES ASSUME NEW j \in Rows', j \notin torn
               PROVE  \E q \in Passwords : j \in Auth(name[j], q)'
    BY DEF AccountsOpen
  <2>1. CASE j = i
    BY <1>1, <1>2, <2>1 DEF Auth, AccountU
  <2>2. CASE j # i
    <3>1. \E q \in Passwords : j \in Auth(name[j], q)
      BY <1>2, <2>2 DEF DInv, AccountsOpen
    <3>2. j \in Ids
      BY DEF Rows
    <3> QED
      BY <1>1, <1>2, <2>2, <3>1, <3>2 DEF Auth, AccountU
  <2> QED
    BY <2>1, <2>2
<1>7. NamesDiffer'
  <2>1. \A j \in Rows : name[j] # n
    BY DEF AccountU
  <2>2. \A j \in Rows : name'[j] = name[j]
    BY <1>1, <1>2 DEF Rows
  <2> QED
    BY <1>1, <1>2, <2>1, <2>2 DEF DInv, NamesDiffer
<1> QED
  BY <1>4, <1>5, <1>6, <1>7 DEF DInv

(***************************************************************************)
(* A session identifies, or begins a command: the account it has found has *)
(* the name and the hash it has asked for.                                 *)
(***************************************************************************)
LEMMA IdentifyStep ==
    ASSUME DInv, NEW s \in Sessions, NEW n \in Names, NEW p \in Passwords, Identify(s, n, p)
    PROVE  DInv'
<1> USE DEF Identify, Reading, table, history
<1>1. PICK i \in Auth(n, p) : account' = [account EXCEPT ![s] = i]
  OBVIOUS
<1>2. i \in Rows /\ Rows' = Rows
  BY DEF Auth, AccountU, Rows
<1>3. account' \in [Sessions -> Rows \cup {NoId}]
  BY <1>1, <1>2 DEF DInv, TypeOK
<1>4. TypeOK'
  BY <1>2, <1>3 DEF DInv, TypeOK
<1>5. Quiet' /\ AdminFirst' /\ Founding'
  BY <1>2 DEF DInv, Quiet, AdminFirst, Founding
<1>6. Lookups' /\ AccountsOpen' /\ NamesDiffer'
  BY <1>2 DEF DInv, Lookups, AccountsOpen, NamesDiffer, Auth, AccountU
<1> QED
  BY <1>4, <1>5, <1>6 DEF DInv

LEMMA BeginStep ==
    ASSUME DInv, NEW s \in Sessions, NEW n \in Names, NEW p \in Passwords, NEW new,
           NEW next, Begin(s, n, p, new, next),
           \/ next = "username" /\ new \in Names
           \/ next = "password" /\ new \in Passwords
    PROVE  DInv'
<1> USE DEF Begin, Reading, table, history
<1>1. PICK i \in Auth(n, p) :
         args' = [args EXCEPT ![s] = [id |-> i, user |-> n, password |-> p, new |-> new]]
  OBVIOUS
<1>2. i \in Rows /\ name[i] = n /\ key[i] = <<n, p>> /\ Rows' = Rows
  BY DEF Auth, AccountU, Rows
<1>3. /\ at' \in [Sessions -> {"read", "username", "free", "password"}]
      /\ at'[s] = next /\ \A t \in Sessions \ {s} : at'[t] = at[t]
  BY DEF DInv, TypeOK
<1>4. /\ args'[s] = [id |-> i, user |-> n, password |-> p, new |-> new]
      /\ \A t \in Sessions \ {s} : args'[t] = args[t]
      /\ args' \in [Sessions -> [id : Rows \cup {NoId}, user : Names \cup {NoName},
                                 password : Passwords,
                                 new : Names \cup Passwords \cup {NoName}]]
  BY <1>1, <1>2 DEF DInv, TypeOK
<1>5. TypeOK'
  <2>1. \A t \in Sessions : at'[t] # "read" => args'[t].id \in Rows /\ args'[t].user \in Names
    BY <1>2, <1>3, <1>4 DEF DInv, TypeOK
  <2>2. \A t \in Sessions : at'[t] \in {"username", "free"} => args'[t].new \in Names
    BY <1>3, <1>4 DEF DInv, TypeOK
  <2>3. \A t \in Sessions : at'[t] = "password" => args'[t].new \in Passwords
    BY <1>3, <1>4 DEF DInv, TypeOK
  <2> QED
    BY <1>2, <1>3, <1>4, <2>1, <2>2, <2>3 DEF DInv, TypeOK
<1>6. Quiet' /\ AdminFirst' /\ Founding'
  BY <1>2 DEF DInv, Quiet, AdminFirst, Founding
<1>7. Lookups'
  BY <1>2, <1>3, <1>4 DEF DInv, Lookups, AccountU
<1>8. AccountsOpen' /\ NamesDiffer'
  BY <1>2 DEF DInv, AccountsOpen, NamesDiffer, Auth, AccountU
<1> QED
  BY <1>5, <1>6, <1>7, <1>8 DEF DInv

LEMMA UsernameFreeStep ==
    ASSUME DInv, NEW s \in Sessions, UsernameFree(s)
    PROVE  DInv'
<1> USE DEF UsernameFree, table, history
<1>1. Rows' = Rows
  BY DEF Rows
<1>2. /\ at' \in [Sessions -> {"read", "username", "free", "password"}]
      /\ at'[s] = "free" /\ \A t \in Sessions \ {s} : at'[t] = at[t]
  BY DEF DInv, TypeOK
<1>3. TypeOK'
  BY <1>1, <1>2 DEF DInv, TypeOK
<1>4. Quiet'
  BY <1>2 DEF DInv, Quiet
<1>5. AdminFirst' /\ Founding'
  BY <1>1 DEF DInv, AdminFirst, Founding
<1>6. Lookups'
  BY <1>1, <1>2 DEF DInv, Lookups, AccountU
<1>7. AccountsOpen' /\ NamesDiffer'
  BY <1>1 DEF DInv, AccountsOpen, NamesDiffer, Auth, AccountU
<1> QED
  BY <1>3, <1>4, <1>5, <1>6, <1>7 DEF DInv

(***************************************************************************)
(* The updates.  One that nobody has overtaken writes the hash of the name *)
(* the account has, and a name that nobody has.                            *)
(***************************************************************************)
LEMMA UpdateStep ==
    ASSUME DInv, NEW s \in Sessions, at[s] # "read",
           NEW n \in Names, NEW p \in Passwords,
           NEW i, i = args[s].id, NEW m \in Names,
           Update(s, i, n, <<m, p>>),
           s \notin overtaken => m = n,
           n = name[i] \/ (s \notin overtaken => AccountU(n) = {})
    PROVE  DInv'
<1> USE DatabaseAssumption DEF Update
<1>1. i \in Rows /\ i \in Ids /\ n # NoName
  BY DEF DInv, TypeOK, Rows
<1>2. /\ name' \in [Ids -> Names \cup {NoName}]
      /\ name'[i] = n /\ key'[i] = <<m, p>>
      /\ \A j \in Ids \ {i} : name'[j] = name[j] /\ key'[j] = key[j]
      /\ key' \in [Ids -> Keys]
  BY <1>1 DEF DInv, TypeOK, Keys
<1>3. Rows' = Rows
  BY <1>1, <1>2 DEF Rows
<1>4. /\ at'[s] = "read" /\ args'[s] = NoCommand
      /\ \A t \in Sessions \ {s} : at'[t] = at[t] /\ args'[t] = args[t]
      /\ at' \in [Sessions -> {"read", "username", "free", "password"}]
  BY DEF DInv, TypeOK
<1>5. args' \in [Sessions -> [id : Rows \cup {NoId}, user : Names \cup {NoName},
                              password : Passwords,
                              new : Names \cup Passwords \cup {NoName}]]
  BY DEF DInv, TypeOK, NoCommand
<1>6. torn \subseteq torn' /\ torn' \subseteq Ids /\ (s \in overtaken => i \in torn')
  BY <1>1 DEF DInv, TypeOK
<1>7. overtaken' \subseteq Sessions
  BY DEF DInv, TypeOK
<1>8. TypeOK'
  <2>1. \A t \in Sessions : at'[t] # "read" => args'[t].id \in Rows /\ args'[t].user \in Names
    BY <1>4 DEF DInv, TypeOK
  <2>2. \A t \in Sessions : at'[t] \in {"username", "free"} => args'[t].new \in Names
    BY <1>4 DEF DInv, TypeOK
  <2>3. \A t \in Sessions : at'[t] = "password" => args'[t].new \in Passwords
    BY <1>4 DEF DInv, TypeOK
  <2> QED
    BY <1>2, <1>3, <1>4, <1>5, <1>6, <1>7, <2>1, <2>2, <2>3 DEF DInv, TypeOK
<1>9. Quiet' /\ AdminFirst' /\ Founding'
  BY <1>3, <1>4 DEF DInv, Quiet, AdminFirst, Founding
<1>10. Lookups'
  <2> SUFFICES ASSUME NEW t \in Sessions, t \notin overtaken', t # s
               PROVE  /\ at'[t] # "read" =>
                            /\ name'[args'[t].id] = args'[t].user
                            /\ key'[args'[t].id] = <<args'[t].user, args'[t].password>>
                      /\ at'[t] = "free" => AccountU(args[t].new)' = {}
    BY <1>4 DEF Lookups
  <2>1. t \notin overtaken /\ at'[t] = at[t] /\ args'[t] = args[t]
    BY <1>4
  <2>2. at[t] # "read" => args[t].id # i
    OBVIOUS
  <2>3. at[t] = "free" => args[t].new # n
    OBVIOUS
  <2>4. at[t] # "read" => /\ name[args[t].id] = args[t].user /\ args[t].id \in Ids
                          /\ key[args[t].id] = <<args[t].user, args[t].password>>
    BY <2>1 DEF DInv, Lookups, TypeOK, Rows
  <2>5. at[t] = "free" => AccountU(args[t].new) = {}
    BY <2>1 DEF DInv, Lookups
  <2>6. at[t] = "free" => AccountU(args[t].new)' = {}
    <3>1. \A j \in Rows : name'[j] = name[j] \/ name'[j] = n
      BY <1>2 DEF Rows
    <3> QED
      BY <1>3, <2>1, <2>3, <2>5, <3>1 DEF AccountU
  <2> QED
    BY <1>2, <2>1, <2>2, <2>4, <2>6
<1>11. AccountsOpen'
  <2> SUFFICES ASSUME NEW j \in Rows, j \notin torn'
               PROVE  \E q \in Passwords : j \in Auth(name[j], q)'
    BY <1>3 DEF AccountsOpen
  <2>1. CASE j = i
    BY <1>1, <1>2, <1>3, <1>6, <2>1 DEF Auth, AccountU
  <2>2. CASE j # i
    <3>1. \E q \in Passwords : j \in Auth(name[j], q)
      BY <1>6 DEF DInv, AccountsOpen
    <3>2. j \in Ids
      BY DEF Rows
    <3> QED
      BY <1>2, <1>3, <2>2, <3>1, <3>2 DEF Auth, AccountU
  <2> QED
    BY <2>1, <2>2
<1>12. NamesDiffer'
  <2>1. CASE n = name[i] \/ s \in overtaken
    <3>1. \A j \in Rows : name'[j] = name[j] \/ j \in torn'
      BY <1>2, <1>6, <2>1 DEF Rows
    <3> QED
      BY <1>3, <1>6, <3>1 DEF DInv, NamesDiffer
  <2>2. CASE AccountU(n) = {}
    <3>1. \A j \in Rows : name[j] # n
      BY <2>2 DEF AccountU
    <3>2. \A j \in Rows : j # i => name'[j] = name[j]
      BY <1>2 DEF Rows
    <3> QED
      BY <1>2, <1>3, <1>6, <3>1, <3>2 DEF DInv, NamesDiffer
  <2> QED
    BY <2>1, <2>2
<1> QED
  BY <1>8, <1>9, <1>10, <1>11, <1>12 DEF DInv

LEMMA SetUsernameStep ==
    ASSUME DInv, NEW s \in Sessions, SetUsername(s)
    PROVE  DInv'
<1>1. /\ args[s].new \in Names /\ args[s].password \in Passwords /\ at[s] = "free"
      /\ s \notin overtaken => AccountU(args[s].new) = {}
  BY DEF DInv, TypeOK, Lookups, SetUsername
<1> QED
  BY <1>1, UpdateStep DEF SetUsername

LEMMA SetPasswordStep ==
    ASSUME DInv, NEW s \in Sessions, SetPassword(s)
    PROVE  DInv'
<1>1. /\ args[s].new \in Passwords /\ args[s].user \in Names /\ at[s] = "password"
      /\ s \notin overtaken => args[s].user = name[args[s].id]
      /\ args[s].id \in Rows
  BY DEF DInv, TypeOK, Lookups, SetPassword
<1>2. name[args[s].id] \in Names
  BY <1>1 DEF DInv, TypeOK, Rows
<1> QED
  BY <1>1, <1>2, UpdateStep DEF SetPassword

LEMMA NextInv == DInv /\ [Next]_vars => DInv'
<1> SUFFICES ASSUME DInv, [Next]_vars PROVE DInv'
  OBVIOUS
<1>1. CASE Connect
  BY <1>1, ConnectStep
<1>2. CASE Initialize
  BY <1>2, InitializeStep
<1>3. CASE Crash
  BY <1>3, EndedStep DEF Crash
<1>4. CASE \E i \in Ids, n \in Names, p \in Passwords : Insert(i, n, p)
  BY <1>4, InsertStep
<1>5. ASSUME NEW s \in Sessions, Handle(s) PROVE DInv'
  <2>1. ASSUME NEW n \in Names, NEW p \in Passwords, Identify(s, n, p) PROVE DInv'
    BY <2>1, IdentifyStep
  <2>2. ASSUME NEW n \in Names, NEW p \in Passwords, NEW new \in Names, Username(s, n, p, new)
        PROVE  DInv'
    BY <2>2, BeginStep DEF Username
  <2>3. ASSUME NEW n \in Names, NEW p \in Passwords, NEW new \in Passwords,
               Password(s, n, p, new)
        PROVE  DInv'
    BY <2>3, BeginStep DEF Password
  <2>4. CASE UsernameFree(s)
    BY <2>4, UsernameFreeStep
  <2>5. CASE UsernameTaken(s)
    BY <2>5, EndedStep DEF UsernameTaken
  <2>6. CASE SetUsername(s)
    BY <2>6, SetUsernameStep
  <2>7. CASE SetPassword(s)
    BY <2>7, SetPasswordStep
  <2> QED
    BY <1>5, <2>1, <2>2, <2>3, <2>4, <2>5, <2>6, <2>7 DEF Handle
<1>6. CASE UNCHANGED vars
  <2>1. UNCHANGED <<name, key, account, at, args, overtaken, torn>>
        /\ UNCHANGED <<start, founded, granted, cut, failed>>
    BY <1>6 DEF vars, table, session, history
  <2>2. Rows' = Rows /\ Lookups' /\ AccountsOpen' /\ NamesDiffer' /\ TypeOK'
    BY <2>1, AccountsAlone DEF DInv, TypeOK
  <2> QED
    BY <2>1, <2>2 DEF DInv, Quiet, AdminFirst, Founding
<1> QED
  BY <1>1, <1>2, <1>3, <1>4, <1>5, <1>6 DEF Next

LEMMA InvCorrect == Spec => []DInv
  BY InitInv, NextInv, PTL DEF Spec

(***************************************************************************)
(* No session is ever identified, or in a command, for an account that is  *)
(* not in the table (server.go:962-1014, client.go:127-142).               *)
(***************************************************************************)
THEOREM DatabaseTypeCorrect == Spec => []TypeOK
<1>1. DInv => TypeOK
  BY DEF DInv
<1> QED
  BY <1>1, InvCorrect, PTL

(***************************************************************************)
(* An account stops having a password that opens it only when a PASSWORD   *)
(* updates it that a USERNAME has overtaken (database.go:217, 245-268).    *)
(***************************************************************************)
THEOREM AccountsOpenCorrect == Spec => []AccountsOpen
<1>1. DInv => AccountsOpen
  BY DEF DInv
<1> QED
  BY <1>1, InvCorrect, PTL

(***************************************************************************)
(* Two accounts come to have one name only when a USERNAME writes a name   *)
(* that another has taken since it was looked up (database.go:246-253).    *)
(***************************************************************************)
THEOREM NamesDifferCorrect == Spec => []NamesDiffer
<1>1. DInv => NamesDiffer
  BY DEF DInv
<1> QED
  BY <1>1, InvCorrect, PTL

(***************************************************************************)
(* Unless the process has ended once in the middle of the initialisation,  *)
(* a server serves with every channel founded that no failing statement    *)
(* has left without its rows (database.go:159-181, 285-360).               *)
(***************************************************************************)
THEOREM ServesFoundedCorrect == Spec => []ServesFounded
<1>1. DInv => ServesFounded
  BY DEF DInv, AdminFirst, Founding, ServesFounded, Starting
<1> QED
  BY <1>1, InvCorrect, PTL

(***************************************************************************)
(* Starting the server changes no account there is (database.go:160-169).  *)
(***************************************************************************)
THEOREM StartKeepsAccountsCorrect == Spec => StartKeepsAccounts
<1>1. DInv /\ [Next]_vars =>
         [start # "serving" => \A i \in Rows : name'[i] = name[i] /\ key'[i] = key[i]]_vars
  <2> SUFFICES ASSUME DInv, Next, start # "serving", NEW i \in Rows
               PROVE  name'[i] = name[i] /\ key'[i] = key[i]
    OBVIOUS
  <2>1. \A s \in Sessions : at[s] = "read"
    BY DEF DInv, Quiet
  <2>2. CASE Connect \/ Crash
    BY <2>2 DEF Connect, Crash, Ended, table
  <2>3. CASE Initialize
    <3>1. CASE AddAdmin
      BY <3>1 DEF AddAdmin, DInv, TypeOK, Rows
    <3>2. CASE ~AddAdmin
      BY <2>3, <3>2 DEF Initialize, Initialized, AddChannel, SetPermission,
                         FoundingFails, table
    <3> QED
      BY <3>1, <3>2
  <2>4. CASE \E j \in Ids, n \in Names, p \in Passwords : Insert(j, n, p)
    BY <2>4 DEF Insert
  <2>5. ASSUME NEW s \in Sessions, Handle(s) PROVE FALSE
    BY <2>1, <2>5 DEF Handle, Identify, Username, Password, Begin, Reading, UsernameFree,
                      UsernameTaken, SetUsername, SetPassword
  <2> QED
    BY <2>2, <2>3, <2>4, <2>5 DEF Next
<1> QED
  BY <1>1, InvCorrect, PTL DEF Spec, StartKeepsAccounts


(***************************************************************************)
(* The refinement.  What the specification Accounts knows of the database: *)
(***************************************************************************)
accounts == [i \in Rows \ torn |-> [name |-> name[i], opens |-> Opens(i)]]
command  == [s \in Sessions |-> Command(s)]

\* an account is opened by what its hash is of
LEMMA OpensKey ==
    ASSUME NEW i \in Rows, NEW p \in Passwords, key[i] = <<name[i], p>>
    PROVE  Opens(i) = {p}
  BY DEF Opens, Auth, AccountU

LEMMA OpensSame ==
    ASSUME NEW i, i \in Rows <=> i \in Rows', name'[i] = name[i], key'[i] = key[i]
    PROVE  Opens(i)' = Opens(i)
  BY DEF Opens, Auth, AccountU

LEMMA OpenedKey ==
    ASSUME DInv, NEW i \in Rows, NEW p \in Passwords, key[i] = <<name[i], p>>
    PROVE  Atomic!Opened(i, name[i], p)
<1>1. CASE i \in torn
  BY <1>1 DEF Atomic!Opened
<1>2. CASE i \notin torn
  <2>1. i \in DOMAIN accounts /\ accounts[i] = [name |-> name[i], opens |-> {p}]
    BY <1>2, OpensKey DEF accounts
  <2> QED
    BY <2>1 DEF Atomic!Opened, Atomic!Known, Atomic!Account, accounts
<1> QED
  BY <1>1, <1>2

LEMMA FreeName ==
    ASSUME NEW n, AccountU(n) = {}
    PROVE  Atomic!Free(n)
<1>1. \A i \in DOMAIN accounts : i \in Rows /\ accounts[i].name = name[i]
  BY DEF accounts
<1>2. \A i \in Rows : name[i] # n
  BY DEF AccountU
<1> QED
  BY <1>1, <1>2 DEF Atomic!Free, Atomic!Known, accounts

LEMMA AtomicInit == Init => Atomic!Init
<1> SUFFICES ASSUME Init PROVE Atomic!Init
  OBVIOUS
<1>1. Rows = {}
  BY DEF Init, Rows
<1>2. accounts = [i \in {} |-> {}]
  BY <1>1 DEF accounts
<1>3. command = [s \in Sessions |-> "none"]
  BY DEF Init, command, Command
<1> QED
  BY <1>2, <1>3 DEF Init, Atomic!Init, accounts, command

(***************************************************************************)
(* No account is removed, so that those that were lost have a row.         *)
(***************************************************************************)
Torn == torn \subseteq Rows

LEMMA TornNext == DInv /\ Torn /\ [Next]_vars => Torn'
<1> SUFFICES ASSUME DInv, Torn, [Next]_vars PROVE Torn'
  OBVIOUS
<1> USE DatabaseAssumption DEF table, session, history
<1>1. CASE UNCHANGED <<name, torn>>
  BY <1>1 DEF Torn, Rows
<1>2. ASSUME NEW i \in Ids, NEW n \in Names, name' = [name EXCEPT ![i] = n],
             torn' \subseteq torn \cup {i}
      PROVE  Torn'
  BY <1>2 DEF Torn, Rows, DInv, TypeOK
<1>3. ASSUME NEW s \in Sessions, at[s] # "read", NEW i, i = args[s].id, NEW n \in Names, NEW k,
             Update(s, i, n, k)
      PROVE  Torn'
  <2>1. i \in Ids
    BY <1>3 DEF DInv, TypeOK, Rows
  <2> QED
    BY <1>2, <1>3, <2>1 DEF Update
<1>4. CASE AddAdmin
  BY <1>2, <1>4 DEF AddAdmin
<1>5. CASE \E i \in Ids, n \in Names, p \in Passwords : Insert(i, n, p)
  BY <1>2, <1>5 DEF Insert
<1>6. ASSUME NEW s \in Sessions, SetUsername(s) PROVE Torn'
  <2>1. args[s].new \in Names /\ at[s] # "read"
    BY <1>6 DEF SetUsername, DInv, TypeOK
  <2> QED
    BY <1>3, <1>6, <2>1 DEF SetUsername
<1>7. ASSUME NEW s \in Sessions, SetPassword(s) PROVE Torn'
  <2>1. name[args[s].id] \in Names /\ at[s] # "read"
    BY <1>7 DEF SetPassword, DInv, TypeOK, Rows
  <2> QED
    BY <1>3, <1>7, <2>1 DEF SetPassword
<1>8. ASSUME NEW s \in Sessions, Handle(s) PROVE Torn'
  BY <1>1, <1>6, <1>7, <1>8
     DEF Handle, Identify, Username, Password, Begin, UsernameFree, UsernameTaken, Ended
<1> QED
  BY <1>1, <1>4, <1>5, <1>8
     DEF Next, vars, Connect, Initialize, Initialized, AddChannel, SetPermission,
         FoundingFails, Crash, Ended

(***************************************************************************)
(* Steps the specification does not see: connecting, founding channels,    *)
(* looking a name up.                                                      *)
(***************************************************************************)
LEMMA SameAccounts ==
    ASSUME UNCHANGED <<name, key, torn>>
    PROVE  accounts' = accounts
<1>1. Rows' = Rows
  BY DEF Rows
<1>2. \A i : Opens(i)' = Opens(i)
  BY <1>1, OpensSame
<1> QED
  BY <1>1, <1>2 DEF accounts

LEMMA AtomicStutter ==
    ASSUME UNCHANGED <<name, key, torn, account, args, overtaken>>, command' = command
    PROVE  UNCHANGED Atomic!vars
  BY SameAccounts DEF Atomic!vars, accounts, command

LEMMA SameCommand ==
    ASSUME UNCHANGED at
    PROVE  command' = command
  BY DEF command, Command

LEMMA AtomicRestart == Ended => Atomic!Restart
<1> SUFFICES ASSUME Ended PROVE Atomic!Restart
  OBVIOUS
<1>1. accounts' = accounts
  BY SameAccounts DEF Ended, table
<1>2. command' = [s \in Sessions |-> "none"]
  BY DEF Ended, command, Command
<1> QED
  BY <1>1, <1>2 DEF Ended, table, Atomic!Restart, accounts, command

LEMMA AtomicAdd ==
    ASSUME DInv, Torn, NEW i \in Ids, NEW n \in Names, NEW p \in Passwords,
           i \notin Rows, AccountU(n) = {}, \A s \in Sessions : at[s] = "read",
           name' = [name EXCEPT ![i] = n], key' = [key EXCEPT ![i] = <<n, p>>],
           UNCHANGED <<session, overtaken, torn>>
    PROVE  Atomic!Add(i, n, p)
<1> USE DatabaseAssumption DEF session
<1>1. /\ name'[i] = n /\ n # NoName /\ key'[i] = <<n, p>>
      /\ \A j \in Ids \ {i} : name'[j] = name[j] /\ key'[j] = key[j]
  BY DEF DInv, TypeOK
<1>2. Rows' = Rows \cup {i} /\ i \notin torn
  BY <1>1 DEF Rows, Torn
<1>3. Opens(i)' = {p}
  BY <1>1, <1>2 DEF Opens, Auth, AccountU
<1>4. \A j \in Rows : name'[j] = name[j] /\ Opens(j)' = Opens(j)
  BY <1>1, <1>2, OpensSame DEF Rows
<1>5. /\ DOMAIN accounts = Rows \ torn
      /\ \A j \in Rows \ torn : accounts[j] = [name |-> name[j], opens |-> Opens(j)]
  BY DEF accounts
<1>6. accounts' = [j \in (DOMAIN accounts) \cup {i} |->
                      IF j = i THEN [name |-> n, opens |-> {p}] ELSE accounts[j]]
  BY <1>1, <1>2, <1>3, <1>4, <1>5 DEF accounts
<1>7. \A s \in Sessions : command[s] = "none"
  BY DEF command, Command
<1>8. command' = command
  BY SameCommand
<1>9. i \notin (DOMAIN accounts) \cup torn /\ Atomic!Free(n)
  BY <1>2, <1>5, FreeName
<1> QED
  BY <1>6, <1>7, <1>8, <1>9 DEF Atomic!Add, Atomic!Known, Atomic!Account, accounts, command

(***************************************************************************)
(* Auth finds an account whose hash is of the credentials.                 *)
(***************************************************************************)
LEMMA AtomicIdentify ==
    ASSUME DInv, NEW s \in Sessions, NEW n \in Names, NEW p \in Passwords, Identify(s, n, p)
    PROVE  \E i \in Ids : Atomic!Identify(s, i, n, p)
<1> USE DEF Identify, Reading, table, history
<1>1. PICK i \in Auth(n, p) : account' = [account EXCEPT ![s] = i]
  OBVIOUS
<1>2. i \in Rows /\ name[i] = n /\ key[i] = <<n, p>> /\ i \in Ids
  BY DEF Auth, AccountU, Rows
<1>3. Atomic!Opened(i, n, p)
  BY <1>2, OpenedKey
<1>4. accounts' = accounts /\ command' = command
  BY SameAccounts, SameCommand
<1>5. command[s] = "none"
  BY DEF command, Command
<1> QED
  BY <1>1, <1>2, <1>3, <1>4, <1>5 DEF Atomic!Identify, accounts, command

LEMMA AtomicBegin ==
    ASSUME DInv, NEW s \in Sessions, NEW n \in Names, NEW p \in Passwords, NEW new,
           NEW c \in {"username", "password"}, Begin(s, n, p, new, c),
           new \in (IF c = "username" THEN Names ELSE Passwords)
    PROVE  Atomic!Begin(s, c)
<1> USE DEF Begin, Reading, table, history
<1>1. PICK i \in Auth(n, p) :
         args' = [args EXCEPT ![s] = [id |-> i, user |-> n, password |-> p, new |-> new]]
  OBVIOUS
<1>2. i \in Rows /\ name[i] = n /\ key[i] = <<n, p>> /\ i \in Ids
  BY DEF Auth, AccountU, Rows
<1>3. Atomic!Opened(i, n, p)
  BY <1>2, OpenedKey
<1>4. accounts' = accounts
  BY SameAccounts
<1>5. command[s] = "none" /\ command' = [command EXCEPT ![s] = c]
  BY DEF command, Command, DInv, TypeOK
<1> QED
  BY <1>1, <1>2, <1>3, <1>4, <1>5 DEF Atomic!Begin, accounts, command


(***************************************************************************)
(* An update.  Those that have looked up the name an account has already   *)
(* have been overtaken before.                                             *)
(***************************************************************************)
LEMMA UpdateEnds ==
    ASSUME DInv, NEW s \in Sessions, at[s] # "read", NEW i, i = args[s].id,
           NEW n \in Names, NEW k, Update(s, i, n, k),
           (at[s] = "free" /\ n = args[s].new) \/ (at[s] = "password" /\ n = name[i])
    PROVE  Atomic!Ends(s)
<1> USE DEF Update
<1> DEFINE about   == {t \in Sessions \ {s} : at[t] # "read" /\ args[t].id = i}
           looking == {t \in Sessions \ {s} : at[t] = "free" /\ args[t].new = n}
<1>1. /\ command' = [command EXCEPT ![s] = "none"]
      /\ args' = [args EXCEPT ![s] = NoCommand] /\ account' = account
  BY DEF command, Command, DInv, TypeOK
<1>2. overtaken' = (overtaken \ {s}) \cup looking \cup about
  OBVIOUS
<1>3. about = {t \in Sessions \ {s} : command[t] # "none" /\ args[t].id = args[s].id}
  BY DEF command, Command
<1>4. CASE at[s] = "free"
  <2>1. looking \subseteq {t \in Sessions \ {s} : /\ command[t] = "username"
                                                  /\ command[s] = "username"
                                                  /\ args[t].new = args[s].new}
    BY <1>4 DEF command, Command
  <2> HIDE DEF about, looking
  <2> QED
    BY <1>1, <1>2, <1>3, <2>1 DEF Atomic!Ends, command
<1>5. CASE at[s] = "password"
  <2>1. i \in Rows /\ name[i] = n
    BY <1>5 DEF DInv, TypeOK
  <2>2. looking \subseteq overtaken \ {s}
    BY <2>1 DEF DInv, Lookups, AccountU
  <2>3. overtaken' = (overtaken \ {s}) \cup {} \cup about
    BY <1>2, <2>2
  <2> HIDE DEF about, looking
  <2> QED
    BY <1>1, <1>3, <2>3 DEF Atomic!Ends, command
<1> QED
  BY <1>4, <1>5

\* one account is another than before
Put(i, n, p) ==
    [j \in DOMAIN accounts |-> IF j = i THEN [name |-> n, opens |-> {p}] ELSE accounts[j]]

LEMMA UpdateRows ==
    ASSUME DInv, NEW s \in Sessions, NEW i \in Rows, NEW n \in Names,
           NEW k, Update(s, i, n, k)
    PROVE  /\ name'[i] = n /\ key'[i] = k /\ Rows' = Rows
           /\ \A j \in Rows \ {i} : name'[j] = name[j] /\ Opens(j)' = Opens(j)
<1> USE DatabaseAssumption DEF Update
<1>1. /\ name'[i] = n /\ key'[i] = k /\ n # NoName
      /\ \A j \in Ids \ {i} : name'[j] = name[j] /\ key'[j] = key[j]
  BY DEF DInv, TypeOK, Rows
<1>2. Rows' = Rows
  BY <1>1 DEF Rows
<1> QED
  BY <1>1, <1>2, OpensSame DEF Rows

LEMMA UpdateSpoils ==
    ASSUME DInv, NEW s \in Sessions, NEW i \in Rows, NEW n \in Names,
           NEW k, Update(s, i, n, k), s \in overtaken
    PROVE  accounts' = [j \in (DOMAIN accounts) \ {i} |-> accounts[j]]
<1>1. torn' = torn \cup {i}
  BY DEF Update
<1>2. /\ Rows' = Rows
      /\ \A j \in Rows \ {i} : name'[j] = name[j] /\ Opens(j)' = Opens(j)
  BY UpdateRows
<1>3. /\ DOMAIN accounts = Rows \ torn
      /\ \A j \in Rows \ torn : accounts[j] = [name |-> name[j], opens |-> Opens(j)]
  BY DEF accounts
<1>4. Rows' \ torn' = (DOMAIN accounts) \ {i}
  BY <1>1, <1>2, <1>3
<1> QED
  BY <1>2, <1>3, <1>4 DEF accounts

LEMMA UpdateChanges ==
    ASSUME DInv, NEW s \in Sessions, NEW i \in Rows, NEW n \in Names,
           NEW p \in Passwords, Update(s, i, n, <<n, p>>), s \notin overtaken
    PROVE  accounts' = Put(i, n, p)
<1>1. torn' = torn
  BY DEF Update
<1>2. /\ name'[i] = n /\ key'[i] = <<n, p>> /\ Rows' = Rows
      /\ \A j \in Rows \ {i} : name'[j] = name[j] /\ Opens(j)' = Opens(j)
  BY UpdateRows
<1>3. Opens(i)' = {p}
  BY <1>2, DatabaseAssumption DEF Opens, Auth, AccountU
<1>4. /\ DOMAIN accounts = Rows \ torn
      /\ \A j \in Rows \ torn : accounts[j] = [name |-> name[j], opens |-> Opens(j)]
  BY DEF accounts
<1> QED
  BY <1>1, <1>2, <1>3, <1>4 DEF accounts, Put

LEMMA AtomicSetUsername ==
    ASSUME DInv, Torn, NEW s \in Sessions, SetUsername(s)
    PROVE  Atomic!SetUsername(s) \/ Atomic!Spoil(s)
<1> DEFINE i == args[s].id
           n == args[s].new
           p == args[s].password
<1>1. /\ at[s] = "free" /\ Update(s, i, n, <<n, p>>)
      /\ i \in Rows /\ n \in Names /\ p \in Passwords /\ args[s].user \in Names
  BY DEF SetUsername, DInv, TypeOK
<1>2. Atomic!Ends(s)
  BY <1>1, UpdateEnds
<1>3. command[s] = "username"
  BY <1>1 DEF command, Command
<1>4. CASE s \in overtaken
  <2>1. accounts' = [j \in (DOMAIN accounts) \ {i} |-> accounts[j]]
    BY <1>1, <1>4, UpdateSpoils
  <2>2. torn' = torn \cup {i}
    BY <1>1, <1>4 DEF Update
  <2> QED
    BY <1>2, <1>3, <1>4, <2>1, <2>2 DEF Atomic!Spoil, Atomic!Known, accounts, command
<1>5. CASE s \notin overtaken
  <2>1. accounts' = Put(i, n, p)
    BY <1>1, <1>5, UpdateChanges
  <2>2. torn' = torn
    BY <1>1, <1>5 DEF Update
  <2>3. Atomic!Free(n)
    BY <1>1, <1>5, FreeName DEF DInv, Lookups
  <2>4. Atomic!Opened(i, args[s].user, p)
    BY <1>1, <1>5, OpenedKey DEF DInv, Lookups
  <2> QED
    BY <1>2, <1>3, <1>5, <2>1, <2>2, <2>3, <2>4
       DEF Atomic!SetUsername, Atomic!Changes, Atomic!Account, Atomic!Known, Put,
           accounts, command
<1> QED
  BY <1>4, <1>5

LEMMA AtomicSetPassword ==
    ASSUME DInv, Torn, NEW s \in Sessions, SetPassword(s)
    PROVE  Atomic!SetPassword(s) \/ Atomic!Spoil(s)
<1> DEFINE i == args[s].id
           u == args[s].user
           p == args[s].new
<1>1. /\ at[s] = "password" /\ Update(s, i, name[i], <<u, p>>)
      /\ i \in Rows /\ u \in Names /\ p \in Passwords /\ args[s].password \in Passwords
  BY DEF SetPassword, DInv, TypeOK
<1>2. name[i] \in Names
  BY <1>1 DEF DInv, TypeOK, Rows
<1>3. Atomic!Ends(s)
  BY <1>1, <1>2, UpdateEnds
<1>4. command[s] = "password"
  BY <1>1 DEF command, Command
<1>5. CASE s \in overtaken
  <2>1. accounts' = [j \in (DOMAIN accounts) \ {i} |-> accounts[j]]
    BY <1>1, <1>2, <1>5, UpdateSpoils
  <2>2. torn' = torn \cup {i}
    BY <1>1, <1>5 DEF Update
  <2> QED
    BY <1>3, <1>4, <1>5, <2>1, <2>2 DEF Atomic!Spoil, Atomic!Known, accounts, command
<1>6. CASE s \notin overtaken
  <2>1. name[i] = u
    BY <1>1, <1>6 DEF DInv, Lookups
  <2>2. accounts' = Put(i, u, p)
    BY <1>1, <1>2, <1>6, <2>1, UpdateChanges
  <2>3. torn' = torn
    BY <1>1, <1>6 DEF Update
  <2>4. Atomic!Opened(i, u, args[s].password)
    BY <1>1, <1>6, <2>1, OpenedKey DEF DInv, Lookups
  <2> QED
    BY <1>3, <1>4, <1>6, <2>2, <2>3, <2>4
       DEF Atomic!SetPassword, Atomic!Changes, Atomic!Account, Atomic!Known, Put,
           accounts, command
<1> QED
  BY <1>5, <1>6

LEMMA AtomicNext == DInv /\ Torn /\ [Next]_vars => [Atomic!Next]_(Atomic!vars)
<1> SUFFICES ASSUME DInv, Torn, [Next]_vars PROVE [Atomic!Next]_(Atomic!vars)
  OBVIOUS
<1> USE DatabaseAssumption DEF table, session, history
<1>1. CASE UNCHANGED <<name, key, torn, account, at, args, overtaken>>
  BY <1>1, AtomicStutter, SameCommand
<1>2. CASE Ended
  BY <1>2, AtomicRestart DEF Atomic!Next
<1>3. CASE AddAdmin
  <2>1. /\ \A s \in Sessions : at[s] = "read"
        /\ 1 \notin Rows /\ AccountU(Admin) = {}
    BY <1>3 DEF AddAdmin, DInv, Quiet, AdminFirst, AccountU
  <2>2. Atomic!Add(1, Admin, Default)
    BY <1>3, <2>1, AtomicAdd DEF AddAdmin
  <2> QED
    BY <2>2 DEF Atomic!Next
<1>4. ASSUME NEW i \in Ids, NEW n \in Names, NEW p \in Passwords, Insert(i, n, p)
      PROVE  Atomic!Next
  <2>1. Atomic!Add(i, n, p)
    BY <1>4, AtomicAdd DEF Insert
  <2> QED
    BY <2>1 DEF Atomic!Next
<1>5. ASSUME NEW s \in Sessions, Handle(s) PROVE [Atomic!Next]_(Atomic!vars)
  <2>1. ASSUME NEW n \in Names, NEW p \in Passwords, Identify(s, n, p) PROVE Atomic!Next
    BY <2>1, AtomicIdentify DEF Atomic!Next
  <2>2. ASSUME NEW n \in Names, NEW p \in Passwords, NEW new \in Names, Username(s, n, p, new)
        PROVE  Atomic!Next
    <3>1. Atomic!Begin(s, "username")
      BY <2>2, AtomicBegin DEF Username
    <3> QED
      BY <3>1 DEF Atomic!Next
  <2>3. ASSUME NEW n \in Names, NEW p \in Passwords, NEW new \in Passwords,
               Password(s, n, p, new)
        PROVE  Atomic!Next
    <3>1. Atomic!Begin(s, "password")
      BY <2>3, AtomicBegin DEF Password
    <3> QED
      BY <3>1 DEF Atomic!Next
  <2>4. CASE UsernameFree(s)
    <3>1. command' = command
      BY <2>4 DEF UsernameFree, command, Command
    <3> QED
      BY <2>4, <3>1, AtomicStutter DEF UsernameFree
  <2>5. CASE SetUsername(s) \/ SetPassword(s)
    BY <2>5, AtomicSetUsername, AtomicSetPassword DEF Atomic!Next
  <2> QED
    BY <1>2, <1>5, <2>1, <2>2, <2>3, <2>4, <2>5 DEF Handle, UsernameTaken
<1> QED
  BY <1>1, <1>2, <1>3, <1>4, <1>5
     DEF Next, vars, Connect, Initialize, Initialized, AddChannel, SetPermission,
         FoundingFails, Crash

(***************************************************************************)
(* For any number of sessions, accounts, names and passwords: the          *)
(* statements of the commands and of the initialisation, however they      *)
(* overlap and wherever the process ends, implement accounts that change   *)
(* at a single moment (database.go:159-181, 217, 245-268).                 *)
(***************************************************************************)
THEOREM ActsAtomicallyCorrect == Spec => ActsAtomically
<1>1. Init => Torn
  BY DEF Init, Torn
<1> QED
  BY <1>1, InvCorrect, TornNext, AtomicInit, AtomicNext, PTL
     DEF Spec, ActsAtomically, Atomic!Spec

=============================================================================
