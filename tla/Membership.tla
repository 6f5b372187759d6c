----------------------------- MODULE Membership -----------------------------
(***************************************************************************)
(* One channel of the server, with the steps inside its operations:        *)
(* joinChannel, partChannel, updateClientCount, and the handlers that call *)
(* them (src/server.go).  The members and the counts told to them are a    *)
(* sync.Map, whose Load, Store and Delete are atomic, and nothing more is: *)
(* a limit is read before the member is stored, an update ranges over the  *)
(* members while they come and go and tells each of a difference before    *)
(* it stores the new count, and a command reads the modes before and after *)
(* it changes them.  Module Server has these operations as a step or two   *)
(* each; here is what happens when they overlap.                           *)
(***************************************************************************)
EXTENDS Integers, FiniteSets

CONSTANTS
    Clients,     \* identifiers of connections; each has a goroutine
    NoClient,    \* the empty client name
    Moderators,  \* clients that may use MODE, KICK, BAN and KILL
    Vips,        \* the clients no limit holds back
    Discreet,    \* the clients in mode c
    Limit,       \* the value of mode l, 0 when there is no limit
    Present      \* the members of the channel when the behaviour begins

ASSUME MembershipAssumption ==
    /\ IsFiniteSet(Clients) /\ NoClient \notin Clients
    /\ Moderators \subseteq Clients /\ Vips \subseteq Clients /\ Discreet \subseteq Clients
    /\ Limit \in Nat /\ Present \subseteq Clients

VARIABLES
    known,        \* s.clients: the connections the server knows
    terminating,  \* the clients in state ENTITY_STATE_TERMINATING
    members,      \* the keys of Channel.clients
    count,        \* the values of Channel.clients
    modes,        \* which of the modes c and D the channel has
    at,           \* where the goroutine of a client is
    who,          \* the client its operation is about
    left,         \* the keys Range has still to visit
    key, old,     \* the key and the value Range has yielded
    new,          \* the count computed, to be stored
    was,          \* the modes a MODE command has read before its change
    shown,        \* the numbers of the Anonymous a client was told are there
    disturbed,    \* history: goroutines whose operation has overlapped another
    calm,         \* history: those that began when every count was right
    stray,        \* history: members put back, or stored when terminating
    killed,       \* history: whom the goroutine of another has terminated
    misled        \* history: whom NAMES, or an operation disturbed, told of another count

registry == <<known, terminating, killed>>
channel  == <<members, count, modes, stray>>
display  == <<shown, misled>>
locals   == <<who, left, key, old, new, was>>
history  == <<disturbed, calm>>
vars == <<known, terminating, members, count, modes, at, who, left, key, old,
          new, was, shown, disturbed, calm, stray, killed, misled>>

Places == {"read", "count", "enter", "names", "leave", "delete", "change", "compare",
           "update", "range", "consider", "recount", "tell", "store"}

\* anonCount
AnonCount(c) ==
    LET n == Cardinality(members)
    IN  IF c \notin known THEN 0
        ELSE IF ("c" \in modes \/ c \in Discreet) /\ n >= 2 THEN 2 ELSE n

\* the Anonymous a client sees when its count is n: everybody but itself
Others(n) == 1..(n - 1)

\* a JOIN for every number from before to now - 1, or a PART from before - 1 to now
\* Mutant: parts are numbered like joins
AfterUpdateShifted(seen, before, now) ==
    IF before < now THEN seen \cup before..(now - 1) ELSE seen \ (now + 1)..before

AfterUpdate(seen, before, now) ==
    IF before < now THEN seen \cup before..(now - 1) ELSE seen \ now..(before - 1)

(***************************************************************************)
(* Initially nothing is being done, and every member has been told how     *)
(* many users there are.                                                   *)
(***************************************************************************)
Init ==
    /\ known = Clients /\ terminating = {}
    /\ members = Present /\ modes = {}
    /\ count = [c \in Clients |-> IF c \in Present THEN AnonCount(c) ELSE 0]
    /\ at = [c \in Clients |-> "read"]
    /\ who = [c \in Clients |-> NoClient]
    /\ left = [c \in Clients |-> {}]
    /\ key = [c \in Clients |-> NoClient]
    /\ old = [c \in Clients |-> 0] /\ new = [c \in Clients |-> 0]
    /\ was = [c \in Clients |-> {}]
    /\ shown = [c \in Clients |-> Others(count[c])]
    /\ disturbed = {} /\ calm = {} /\ stray = {} /\ killed = {} /\ misled = {}

Settled == \A m \in members \cap known : count[m] = AnonCount(m)

Busy == {g \in Clients : at[g] # "read"}

Goto(g, place) == at' = [at EXCEPT ![g] = place]

(***************************************************************************)
(* A handler begins when its goroutine is at the top of handleRead.        *)
(***************************************************************************)
Begins(g, place) ==
    /\ at[g] = "read" /\ g \in known \ terminating
    /\ Goto(g, place)
    /\ disturbed' = IF Busy = {} THEN disturbed \ {g} ELSE disturbed \cup Busy \cup {g}
    /\ calm' = IF Settled THEN calm \cup {g} ELSE calm \ {g}
    /\ UNCHANGED <<known, channel, display, left, key, old, new>>

\* the local variables of an operation that is over are forgotten; one that was
\* disturbed may have misled the client it was about
Ends(g) ==
    /\ Goto(g, "read")
    /\ who' = [who EXCEPT ![g] = NoClient] /\ left' = [left EXCEPT ![g] = {}]
    /\ key' = [key EXCEPT ![g] = NoClient]
    /\ old' = [old EXCEPT ![g] = 0] /\ new' = [new EXCEPT ![g] = 0]
    /\ was' = [was EXCEPT ![g] = {}]
    /\ misled' = IF g \in disturbed THEN misled \cup ({who[g]} \cap members) ELSE misled
    /\ UNCHANGED <<registry, channel, shown, history>>

(***************************************************************************)
(* joinChannel: canJoin reads the limit, anonCount the members, then the   *)
(* client is stored, and then it is sent the names (sendNames).            *)
(***************************************************************************)
Join(g) ==
    /\ Begins(g, "count")
    /\ g \notin members
    /\ g \notin Vips /\ Limit > 0 => Cardinality(members) < Limit
    /\ who' = [who EXCEPT ![g] = g]
    /\ UNCHANGED <<terminating, killed, was>>

JoinCount(g) ==
    /\ at[g] = "count" /\ Goto(g, "enter")
    /\ new' = [new EXCEPT ![g] = AnonCount(g) + 1]
    /\ UNCHANGED <<registry, channel, display, who, left, key, old, was, history>>

JoinStore(g) ==
    /\ at[g] = "enter" /\ Goto(g, "names")
    /\ members' = members \cup {g} /\ count' = [count EXCEPT ![g] = new[g]]
    /\ stray' = IF g \in terminating THEN stray \cup {g} ELSE stray \ {g}
    /\ new' = [new EXCEPT ![g] = 0]
    /\ UNCHANGED <<registry, modes, display, who, left, key, old, was, history>>

JoinNames(g) ==
    /\ at[g] = "names" /\ Goto(g, "update")
    /\ shown' = IF g \in members \ terminating
                THEN [shown EXCEPT ![g] = Others(AnonCount(g))] ELSE shown
    /\ UNCHANGED <<registry, channel, misled, locals, history>>

(***************************************************************************)
(* NAMES lists the users by the count of this moment, and leaves the count *)
(* that is stored alone.                                                   *)
(***************************************************************************)
Names(g) ==
    /\ at[g] = "read" /\ g \in (known \cap members) \ terminating
    /\ shown' = [shown EXCEPT ![g] = Others(AnonCount(g))]
    /\ misled' = IF count[g] # AnonCount(g) THEN misled \cup {g} ELSE misled \ {g}
    /\ UNCHANGED <<registry, channel, at, locals, history>>

(***************************************************************************)
(* PART, KICK, BAN, and the parts of enforceModes: somebody is to leave.   *)
(* QUIT and KILL: killClient sets the state of the client first.           *)
(***************************************************************************)
Part(g, m) ==
    /\ Begins(g, "leave")
    /\ m = g \/ g \in Moderators
    /\ who' = [who EXCEPT ![g] = m]
    /\ UNCHANGED <<terminating, killed, was>>

Kill(g, m) ==
    /\ Begins(g, "leave")
    /\ m = g \/ g \in Moderators
    /\ m \in known \ terminating
    /\ terminating' = terminating \cup {m}
    /\ killed' = IF m # g THEN killed \cup {m} ELSE killed
    /\ who' = [who EXCEPT ![g] = m]
    /\ UNCHANGED was

\* partChannel: the test, and then Delete
PartTest(g) ==
    /\ at[g] = "leave" /\ who[g] \in known \cap members
    /\ Goto(g, "delete")
    /\ UNCHANGED <<registry, channel, display, locals, history>>

PartRefused(g) ==
    /\ at[g] = "leave" /\ who[g] \notin known \cap members
    /\ Ends(g)

\* Mutant: nobody is told of a part
PartDeleteOnly(g) ==
    /\ at[g] = "delete" /\ Goto(g, "read")
    /\ members' = members \ {who[g]} /\ count' = [count EXCEPT ![who[g]] = 0]
    /\ shown' = [shown EXCEPT ![who[g]] = {}]
    /\ stray' = stray \ {who[g]} /\ misled' = misled \ {who[g]}
    /\ UNCHANGED <<registry, modes, locals, history>>

PartDelete(g) ==
    /\ at[g] = "delete" /\ Goto(g, "update")
    /\ members' = members \ {who[g]} /\ count' = [count EXCEPT ![who[g]] = 0]
    /\ shown' = [shown EXCEPT ![who[g]] = {}]
    /\ stray' = stray \ {who[g]} /\ misled' = misled \ {who[g]}
    /\ UNCHANGED <<registry, modes, locals, history>>

(***************************************************************************)
(* handleChannelMode: the modes are read, changed, and compared with what  *)
(* was read.  An update follows when c was set or unset, or D was unset.   *)
(***************************************************************************)
ModeRead(g) ==
    /\ Begins(g, "change")
    /\ g \in Moderators /\ g \in members
    /\ was' = [was EXCEPT ![g] = modes]
    /\ who' = [who EXCEPT ![g] = g]
    /\ UNCHANGED <<terminating, killed>>

ModeChange(g) ==
    /\ at[g] = "change" /\ Goto(g, "compare")
    /\ \E letters \in SUBSET {"c", "D"} : modes' \in {modes \cup letters, modes \ letters}
    /\ UNCHANGED <<registry, members, count, stray, display, locals, history>>

CountsAffected(before) ==
    \/ "c" \in before /\ "c" \notin modes
    \/ "c" \notin before /\ "c" \in modes
    \/ "D" \in before /\ "D" \notin modes

ModeAnnounce(g) ==
    /\ at[g] = "compare" /\ CountsAffected(was[g])
    /\ Goto(g, "update")
    /\ UNCHANGED <<registry, channel, display, locals, history>>

ModeUnannounced(g) ==
    /\ at[g] = "compare" /\ ~CountsAffected(was[g])
    /\ Ends(g)

\* PRIVMSG: everybody is told the count, whatever the modes
Speak(g) ==
    /\ Begins(g, "update")
    /\ g \in members
    /\ who' = [who EXCEPT ![g] = NoClient]
    /\ UNCHANGED <<terminating, killed, was>>

(***************************************************************************)
(* updateClientCount: Range visits the keys there are when it starts, in   *)
(* any order, and skips those that are gone when their turn comes.         *)
(***************************************************************************)
Update(g) ==
    /\ at[g] = "update" /\ Goto(g, "range")
    /\ left' = [left EXCEPT ![g] = members]
    /\ UNCHANGED <<registry, channel, display, who, key, old, new, was, history>>

Yield(g, m) ==
    /\ at[g] = "range" /\ m \in left[g] \cap members
    /\ Goto(g, "consider")
    /\ left' = [left EXCEPT ![g] = @ \ {m}]
    /\ key' = [key EXCEPT ![g] = m]
    /\ old' = [old EXCEPT ![g] = count[m]]
    /\ UNCHANGED <<registry, channel, display, who, new, was, history>>

Skip(g, m) ==
    /\ at[g] = "range" /\ m \in left[g] \ members
    /\ left' = [left EXCEPT ![g] = @ \ {m}]
    /\ UNCHANGED <<registry, channel, display, at, who, key, old, new, was, history>>

\* the function given to Range returns, and goes on with the next key
Returns(g) ==
    /\ Goto(g, "range")
    /\ key' = [key EXCEPT ![g] = NoClient]
    /\ old' = [old EXCEPT ![g] = 0] /\ new' = [new EXCEPT ![g] = 0]
    /\ UNCHANGED <<who, left, was>>

\* the client is gone, or mode D delays what it is told
\* Mutant: the mode delays the client that caused the update, too late
DelayedSelf(g) == who[g] # NoClient /\ "D" \in modes /\ key[g] = who[g]

Delayed(g) == who[g] # NoClient /\ "D" \in modes /\ key[g] # who[g]

PassOver(g) ==
    /\ at[g] = "consider" /\ (key[g] \notin known \/ Delayed(g))
    /\ Returns(g)
    /\ UNCHANGED <<registry, channel, display, history>>

Consider(g) ==
    /\ at[g] = "consider" /\ key[g] \in known /\ ~Delayed(g)
    /\ Goto(g, "recount")
    /\ UNCHANGED <<registry, channel, display, locals, history>>

UpToDate(g) ==
    /\ at[g] = "recount" /\ old[g] = AnonCount(key[g])
    /\ Returns(g)
    /\ UNCHANGED <<registry, channel, display, history>>

\* Mutant: the difference is stored
RecountDifference(g) ==
    /\ at[g] = "recount" /\ old[g] # AnonCount(key[g])
    /\ Goto(g, "tell")
    /\ new' = [new EXCEPT ![g] = AnonCount(key[g]) - old[g]]
    /\ UNCHANGED <<registry, channel, display, who, left, key, old, was, history>>

Recount(g) ==
    /\ at[g] = "recount" /\ old[g] # AnonCount(key[g])
    /\ Goto(g, "tell")
    /\ new' = [new EXCEPT ![g] = AnonCount(key[g])]
    /\ UNCHANGED <<registry, channel, display, who, left, key, old, was, history>>

\* the client is sent the JOINs or PARTs, if it is not terminating (Client.write)
Tell(g) ==
    /\ at[g] = "tell" /\ Goto(g, "store")
    /\ shown' = IF key[g] \in terminating THEN shown
                ELSE [shown EXCEPT ![key[g]] = AfterUpdate(@, old[g], new[g])]
    /\ UNCHANGED <<registry, channel, misled, locals, history>>

\* and its new count is stored, whatever was stored meanwhile
Store(g) ==
    /\ at[g] = "store" /\ Returns(g)
    /\ members' = members \cup {key[g]}
    /\ count' = [count EXCEPT ![key[g]] = new[g]]
    /\ stray' = IF key[g] \in members THEN stray ELSE stray \cup {key[g]}
    /\ misled' = IF g \in disturbed THEN misled \cup {key[g]} ELSE misled
    /\ UNCHANGED <<registry, modes, shown, history>>

Updated(g) ==
    /\ at[g] = "range" /\ left[g] = {}
    /\ Ends(g)

\* the end of handleConnection, after killClient has returned
Exit(g) ==
    /\ at[g] = "read" /\ g \in known \cap terminating
    /\ known' = known \ {g}
    /\ disturbed' = disturbed \cup Busy
    /\ UNCHANGED <<terminating, killed, channel, display, at, locals, calm>>

Handle(g) ==
    \/ Join(g) \/ ModeRead(g) \/ Speak(g)
    \/ \E m \in Clients : Part(g, m) \/ Kill(g, m)

Step(g) ==
    \/ JoinCount(g) \/ JoinStore(g) \/ JoinNames(g)
    \/ PartTest(g) \/ PartRefused(g) \/ PartDelete(g)
    \/ ModeChange(g) \/ ModeAnnounce(g) \/ ModeUnannounced(g)
    \/ Update(g) \/ PassOver(g) \/ Consider(g) \/ UpToDate(g) \/ Recount(g)
    \/ Tell(g) \/ Store(g) \/ Updated(g) \/ Exit(g)
    \/ \E m \in Clients : Yield(g, m) \/ Skip(g, m)

Next == \E g \in Clients : Handle(g) \/ Names(g) \/ Step(g)

Fairness == \A g \in Clients : WF_vars(Step(g))

Spec == Init /\ [][Next]_vars /\ Fairness

(***************************************************************************)
(* Properties.                                                             *)
(***************************************************************************)

(***************************************************************************)
(* The map of members, the locals of every goroutine and the histories are *)
(* of their types; a value is stored for members only (channel.go:15-18).  *)
(***************************************************************************)
TypeOK ==
    /\ known \subseteq Clients /\ terminating \subseteq Clients
    /\ members \subseteq Clients /\ stray \subseteq members
    /\ count \in [Clients -> Nat]
    /\ modes \subseteq {"c", "D"}
    /\ at \in [Clients -> Places]
    /\ who \in [Clients -> Clients \cup {NoClient}]
    /\ left \in [Clients -> SUBSET Clients]
    /\ key \in [Clients -> Clients \cup {NoClient}]
    /\ old \in [Clients -> Nat] /\ new \in [Clients -> Nat]
    /\ was \in [Clients -> SUBSET {"c", "D"}]
    /\ shown \in [Clients -> SUBSET Nat]
    /\ disturbed \subseteq Clients /\ calm \subseteq Clients
    /\ killed \subseteq Clients /\ misled \subseteq Clients

(***************************************************************************)
(* The steps above implement the promise of module AnonymousChannel: where *)
(* a goroutine is, and whom it is to part or still to visit, is all that   *)
(* the promise knows of it.                                                *)
(***************************************************************************)
Stage(g) ==
    IF at[g] = "read" THEN "idle"
    ELSE IF at[g] \in {"range", "consider", "recount", "tell", "store"} THEN "updating"
    ELSE "busy"

Met(g) ==
    IF at[g] \in {"leave", "delete"} THEN {who[g]}
    ELSE IF at[g] \in {"consider", "recount", "tell", "store"} THEN left[g] \cup {key[g]}
    ELSE IF at[g] = "range" THEN left[g]
    ELSE {}

Promise == INSTANCE AnonymousChannel WITH
    told  <- count,
    stage <- [g \in Clients |-> Stage(g)],
    met   <- [g \in Clients |-> Met(g)]

KeepsPromise == Promise!Spec

(***************************************************************************)
(* In mode D the count of a member changes when somebody speaks, by the    *)
(* member's own doing, or by an update that somebody has disturbed, which  *)
(* may have looked for the mode before it was set (server.go:498, 525).    *)
(***************************************************************************)
DelayKept ==
    [][\A m \in members \cap members' : "D" \in modes /\ count'[m] # count[m] =>
          \/ at[m] = "enter"
          \/ \E g \in Clients : /\ at[g] = "store" /\ key[g] = m
                                /\ who[g] \in {NoClient, m} \/ g \in disturbed]_vars

(***************************************************************************)
(* What a client sees is what the channel has stored for it: the numbers   *)
(* it was told are those of everybody but itself.  In between are the      *)
(* store that follows the JOINs and PARTs, and the join of the client      *)
(* itself.  The exceptions are a client that NAMES told of a count that is *)
(* not stored (server.go:549), and one an operation that was disturbed is  *)
(* about or tells: two that overlap number their JOINs and PARTs from the  *)
(* same old count and store different new ones (492-528).                  *)
(***************************************************************************)
Entering(m) ==
    /\ who[m] = m
    /\ at[m] \in {"names", "update", "range", "consider", "recount", "tell", "store"}

DisplayFollowsCount ==
    \A m \in (members \cap known) \ terminating : shown[m] # Others(count[m]) =>
        \/ m \in misled \/ Entering(m)
        \/ \E g \in Clients : at[g] = "store" /\ key[g] = m

=============================================================================
