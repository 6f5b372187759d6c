-------------------------- MODULE AnonymousChannel --------------------------
(***************************************************************************)
(* What a channel of the server promises, however the goroutines of its    *)
(* members interleave.  A goroutine performs one operation at a time: it   *)
(* begins, may let somebody enter or leave or set a mode, may tell the     *)
(* members how many they are, and ends.  The operations are not atomic, so *)
(* that the promise has two parts: what always holds, and what holds of an *)
(* operation that nobody has disturbed.  Module Membership is shown to     *)
(* implement this specification.                                           *)
(***************************************************************************)
EXTENDS Naturals, FiniteSets

CONSTANTS
    Clients,   \* identifiers of connections; each has a goroutine
    Vips,      \* the clients no limit holds back
    Discreet,  \* the clients in mode c
    Limit,     \* the value of mode l, 0 when there is no limit
    Present    \* the members when the behaviour begins

VARIABLES
    known,      \* the clients the server knows
    members,    \* the clients that are in the channel
    told,       \* how many users a member has been told there are, else 0
    modes,      \* the modes of the channel, of c and D
    stage,      \* the goroutines: idle, in an operation, or updating
    met,        \* the client a goroutine makes leave, or those it may still tell
    disturbed,  \* the goroutines whose operation has overlapped another
    calm,       \* those that began when everybody knew the right number
    stray,      \* members that were put back, or entered when killed
    killed      \* the clients somebody else has ended

vars == <<known, members, told, modes, stage, met, disturbed, calm, stray, killed>>

\* the numbers a client may be told; one that enters may count itself twice
Numbers == 0..(Cardinality(Clients) + 1)

\* the number a member should know: in mode c at most two
Shown(m) ==
    LET n == Cardinality(members)
    IN  IF ("c" \in modes \/ m \in Discreet) /\ n >= 2 THEN 2 ELSE n

Settled == \A m \in members \cap known : told[m] = Shown(m)

Busy == {g \in Clients : stage[g] # "idle"}

Init ==
    /\ known = Clients /\ members = Present /\ modes = {}
    /\ told = [c \in Clients |-> IF c \in Present THEN Shown(c) ELSE 0]
    /\ stage = [g \in Clients |-> "idle"]
    /\ met = [g \in Clients |-> {}]
    /\ disturbed = {} /\ calm = {} /\ stray = {} /\ killed = {}

(***************************************************************************)
(* An operation begins.  It disturbs those in progress, and is disturbed   *)
(* by them.  One that is to make a client leave may end it, too.           *)
(***************************************************************************)
Begin(g) ==
    /\ stage[g] = "idle" /\ g \in known
    /\ stage' = [stage EXCEPT ![g] = "busy"]
    /\ disturbed' = IF Busy = {} THEN disturbed \ {g} ELSE disturbed \cup Busy \cup {g}
    /\ calm' = IF Settled THEN calm \cup {g} ELSE calm \ {g}
    /\ \E target \in {{}} \cup {{m} : m \in Clients} :
          /\ met' = [met EXCEPT ![g] = target]
          /\ killed' \in {killed, killed \cup (target \ {g})}
    /\ UNCHANGED <<known, members, told, modes, stray>>

(***************************************************************************)
(* Only the client's own goroutine lets it enter, and only one that was    *)
(* disturbed lets it enter a channel that is full.                         *)
(***************************************************************************)
Enter(g) ==
    /\ stage[g] = "busy"
    /\ g \notin disturbed \cup Vips /\ Limit > 0 => Cardinality(members) < Limit
    /\ members' = members \cup {g}
    /\ \E n \in Numbers : told' = [told EXCEPT ![g] = n]
    /\ \/ stray' = stray \ {g}
       \/ g \in disturbed /\ stray' = stray \cup {g}
    /\ UNCHANGED <<known, modes, stage, met, disturbed, calm, killed>>

\* anybody's goroutine may make a client leave: KICK, BAN, KILL
Leave(g, m) ==
    /\ stage[g] = "busy" /\ m \in met[g]
    /\ members' = members \ {m} /\ stray' = stray \ {m}
    /\ told' = [told EXCEPT ![m] = 0]
    /\ met' = [met EXCEPT ![g] = {}]
    /\ UNCHANGED <<known, modes, stage, disturbed, calm, killed>>

SetModes(g) ==
    /\ stage[g] = "busy"
    /\ modes' \in SUBSET {"c", "D"}
    /\ UNCHANGED <<known, members, told, stage, met, disturbed, calm, stray, killed>>

(***************************************************************************)
(* An update meets the members there are when it starts, ...               *)
(***************************************************************************)
Update(g) ==
    /\ stage[g] = "busy"
    /\ stage' = [stage EXCEPT ![g] = "updating"]
    /\ met' = [met EXCEPT ![g] = members]
    /\ UNCHANGED <<known, members, told, modes, disturbed, calm, stray, killed>>

\* ... passes over some, ...
Pass(g) ==
    /\ stage[g] = "updating"
    /\ \E rest \in SUBSET met[g] : met' = [met EXCEPT ![g] = rest]
    /\ UNCHANGED <<known, members, told, modes, stage, disturbed, calm, stray, killed>>

(***************************************************************************)
(* ... and tells one of them a number.  A client that has left meanwhile   *)
(* is put back; that happens to an update that was disturbed only.         *)
(***************************************************************************)
Tell(g, m) ==
    /\ stage[g] = "updating" /\ m \in met[g]
    /\ m \notin members => g \in disturbed
    /\ \E n \in Numbers : told' = [told EXCEPT ![m] = n]
    /\ members' = members \cup {m}
    /\ stray' = IF m \in members THEN stray ELSE stray \cup {m}
    /\ \E rest \in SUBSET met[g] : met' = [met EXCEPT ![g] = rest]
    /\ UNCHANGED <<known, modes, stage, disturbed, calm, killed>>

(***************************************************************************)
(* Outside of mode D an update that nobody disturbed ends with everybody   *)
(* knowing the number, and an operation that nobody disturbed leaves that  *)
(* so without an update.                                                   *)
(***************************************************************************)
End(g) ==
    /\ stage[g] # "idle"
    /\ /\ g \notin disturbed /\ "D" \notin modes
       /\ stage[g] = "updating" \/ g \in calm
       => Settled
    /\ stage' = [stage EXCEPT ![g] = "idle"]
    /\ met' = [met EXCEPT ![g] = {}]
    /\ UNCHANGED <<known, members, told, modes, disturbed, calm, stray, killed>>

(***************************************************************************)
(* A connection ends.  It is still a member only when it was put back, or  *)
(* entered when it was killed, or when somebody else has ended it and has  *)
(* not made it leave yet.  That may come too late: a client that is not    *)
(* known is not made to leave any more, and stays a member for ever.       *)
(***************************************************************************)
Exit(g) ==
    /\ stage[g] = "idle" /\ g \in known
    /\ g \in members \ stray =>
          g \in killed /\ \E h \in Busy \ {g} : stage[h] = "busy" /\ g \in met[h]
    /\ known' = known \ {g}
    /\ disturbed' = disturbed \cup Busy
    /\ UNCHANGED <<members, told, modes, stage, met, calm, stray, killed>>

Next ==
    \E g \in Clients :
        \/ Begin(g) \/ Enter(g) \/ SetModes(g) \/ Update(g) \/ Pass(g) \/ End(g) \/ Exit(g)
        \/ \E m \in Clients : Leave(g, m) \/ Tell(g, m)

Spec == Init /\ [][Next]_vars

=============================================================================
