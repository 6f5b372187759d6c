------------------------------ MODULE Accounts ------------------------------
(***************************************************************************)
(* What the accounts of the server promise to those who use them: although *)
(* a command looks up, checks and updates in separate statements, one that *)
(* no other has disturbed takes effect at a single moment, at which the    *)
(* credentials it was given open the account and nobody has the name it    *)
(* asks for; it changes the name, or the password, of that account and     *)
(* nothing else.  Of an account that a disturbed command has changed       *)
(* nothing is promised any more.  Accounts outlast the process.  Module    *)
(* Database is shown to implement this specification.                      *)
(***************************************************************************)
CONSTANTS
    Sessions,   \* connections that have a goroutine
    Ids,        \* of accounts
    NoId,       \* a session that has not identified
    Names,
    Passwords,
    NoRequest   \* of a session that is in no command

VARIABLES
    accounts,    \* each account that keeps its promise: its name, and what opens it
    lost,        \* the accounts that were changed by a command that was disturbed
    identified,  \* the account of each session
    command,     \* the command of each session: none, username or password
    request,     \* the account and credentials of a command, and the new value
    disturbed    \* the commands that another has disturbed

vars == <<accounts, lost, identified, command, request, disturbed>>

Known == DOMAIN accounts

Account(n, p) == [name |-> n, opens |-> {p}]

Opened(i, n, p) == i \in lost \/ (i \in Known /\ accounts[i] = Account(n, p))

Free(n) == \A i \in Known : accounts[i].name # n

Init ==
    /\ accounts = [i \in {} |-> {}] /\ lost = {}
    /\ identified = [s \in Sessions |-> NoId]
    /\ command = [s \in Sessions |-> "none"] /\ request = [s \in Sessions |-> NoRequest]
    /\ disturbed = {}

Add(i, n, p) ==
    /\ \A s \in Sessions : command[s] = "none"
    /\ i \notin Known \cup lost /\ Free(n)
    /\ accounts' = [j \in Known \cup {i} |-> IF j = i THEN Account(n, p) ELSE accounts[j]]
    /\ UNCHANGED <<lost, identified, command, request, disturbed>>

Identify(s, i, n, p) ==
    /\ command[s] = "none" /\ Opened(i, n, p)
    /\ identified' = [identified EXCEPT ![s] = i]
    /\ UNCHANGED <<accounts, lost, command, request, disturbed>>

Begin(s, c) ==
    /\ command[s] = "none" /\ identified[s] # NoId
    /\ command' = [command EXCEPT ![s] = c]
    /\ \E i \in Ids, n \in Names, p \in Passwords,
          new \in IF c = "username" THEN Names ELSE Passwords :
          /\ Opened(i, n, p)
          /\ request' = [request EXCEPT ![s] = [id |-> i, user |-> n, password |-> p,
                                               new |-> new]]
    /\ UNCHANGED <<accounts, lost, identified, disturbed>>

(***************************************************************************)
(* A command that takes effect disturbs those about the same account, and  *)
(* may disturb those that want the name it gives.                          *)
(***************************************************************************)
Ends(s) ==
    /\ command' = [command EXCEPT ![s] = "none"]
    /\ request' = [request EXCEPT ![s] = NoRequest]
    /\ \E rivals \in SUBSET {t \in Sessions \ {s} : /\ command[t] = "username"
                                                    /\ command[s] = "username"
                                                    /\ request[t].new = request[s].new} :
          disturbed' = (disturbed \ {s}) \cup rivals \cup
              {t \in Sessions \ {s} : command[t] # "none" /\ request[t].id = request[s].id}
    /\ UNCHANGED identified

Changes(s, account) ==
    /\ s \notin disturbed /\ Opened(request[s].id, request[s].user, request[s].password)
    /\ accounts' = [i \in Known |-> IF i = request[s].id THEN account ELSE accounts[i]]
    /\ UNCHANGED lost
    /\ Ends(s)

SetUsername(s) ==
    /\ command[s] = "username" /\ Free(request[s].new)
    /\ Changes(s, Account(request[s].new, request[s].password))

SetPassword(s) ==
    /\ command[s] = "password"
    /\ Changes(s, Account(request[s].user, request[s].new))

\* the effect of a command that was disturbed is on its account only
Spoil(s) ==
    /\ command[s] # "none" /\ s \in disturbed
    /\ accounts' = [i \in Known \ {request[s].id} |-> accounts[i]]
    /\ lost' = lost \cup {request[s].id}
    /\ Ends(s)

Restart ==
    /\ identified' = [s \in Sessions |-> NoId]
    /\ command' = [s \in Sessions |-> "none"] /\ request' = [s \in Sessions |-> NoRequest]
    /\ disturbed' = {}
    /\ UNCHANGED <<accounts, lost>>

Next ==
    \/ Restart
    \/ \E s \in Sessions :
          \/ Begin(s, "username") \/ Begin(s, "password")
          \/ SetUsername(s) \/ SetPassword(s) \/ Spoil(s)
    \/ \E i \in Ids, n \in Names, p \in Passwords :
          Add(i, n, p) \/ \E s \in Sessions : Identify(s, i, n, p)

Spec == Init /\ [][Next]_vars

=============================================================================
