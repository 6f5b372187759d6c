-------------------------- MODULE MembershipProofs --------------------------
(***************************************************************************)
(* Theorems about module Membership: types, the delay of mode D, that the  *)
(* steps inside the operations implement module AnonymousChannel, and that *)
(* a client sees the count that is stored for it.                          *)
(***************************************************************************)
EXTENDS Membership, FiniteSetTheorems, TLAPS

(***************************************************************************)
(* The inductive invariant.  What the locals of a goroutine are at each    *)
(* place:                                                                  *)
(***************************************************************************)
Visiting == {"consider", "recount", "tell", "store"}

Locals ==
    \A g \in Clients :
        /\ at[g] \in {"leave", "delete"} => who[g] \in Clients
        /\ at[g] \in Visiting => key[g] \in Clients
        /\ at[g] \notin Visiting => key[g] = NoClient
        /\ at[g] = "enter" => new[g] \in 0..(Cardinality(Clients) + 1)
        /\ at[g] \in {"tell", "store"} => new[g] \in 0..Cardinality(Clients)
        /\ at[g] \in {"count", "enter"} /\ g \in terminating => g \in disturbed

\* two operations in progress have disturbed each other
Overlap == \A g, h \in Busy : g # h => g \in disturbed

\* a client that is ending will be parted, by itself or by who killed it, or is a stray
Leaving ==
    \A m \in terminating \cap known \cap members :
        \/ m \in stray
        \/ \E h \in Clients : /\ at[h] \in {"leave", "delete"} /\ who[h] = m
                              /\ h = m \/ m \in killed

(***************************************************************************)
(* What an operation that nobody has disturbed may rely on: what it has    *)
(* read is what there is, and who has been visited knows the number.       *)
(***************************************************************************)
Room(g) == g \notin Vips /\ Limit > 0 => Cardinality(members) < Limit

Visited(g) ==
    /\ left[g] \subseteq members
    /\ at[g] \in Visiting => key[g] \in members
    /\ "D" \notin modes => \A m \in (members \cap known) \ left[g] :
                              m # key[g] => count[m] = AnonCount(m)

Reliable(g) ==
    /\ at[g] \in {"count", "enter"} => Room(g)
    /\ at[g] \in {"leave", "change"} /\ g \in calm => Settled
    /\ at[g] = "change" => was[g] = modes
    /\ at[g] = "compare" /\ g \in calm =>
          Settled \/ "D" \in modes \/ CountsAffected(was[g])
    /\ at[g] \in Visiting \cup {"range"} => Visited(g)
    /\ at[g] \in {"consider", "recount", "tell"} => old[g] = count[key[g]]
    /\ at[g] \in {"tell", "store"} => new[g] = AnonCount(key[g])
    /\ at[g] \in {"recount", "tell", "store"} => ~Delayed(g)

Alone == \A g \in Busy : g \notin disturbed => Reliable(g)

MInv == TypeOK /\ Locals /\ Overlap /\ Leaving /\ Alone

USE DEF Busy

(***************************************************************************)
(* A count never exceeds the number of clients.                            *)
(***************************************************************************)
LEMMA AnonCountBound ==
    ASSUME TypeOK
    PROVE  /\ IsFiniteSet(members) /\ Cardinality(members) \in Nat
           /\ Cardinality(Clients) \in Nat
           /\ \A c \in Clients : AnonCount(c) \in 0..Cardinality(Clients)
<1>1. IsFiniteSet(members) /\ Cardinality(members) \in Nat
  BY MembershipAssumption, FS_Subset, FS_CardinalityType DEF TypeOK
<1>2. Cardinality(members) <= Cardinality(Clients) /\ Cardinality(Clients) \in Nat
  BY MembershipAssumption, FS_Subset, FS_CardinalityType DEF TypeOK
<1>3. \A c \in Clients : AnonCount(c) \in 0..Cardinality(Clients)
  BY <1>1, <1>2 DEF AnonCount
<1> QED
  BY <1>1, <1>2, <1>3

(***************************************************************************)
(* Initially nobody does anything, and every count is right.               *)
(***************************************************************************)
LEMMA InitInv == Init => MInv
<1> SUFFICES ASSUME Init PROVE MInv
  OBVIOUS
<1>1. Cardinality(members) \in Nat
  BY MembershipAssumption, FS_Subset, FS_CardinalityType DEF Init
<1>2. \A c \in Clients : AnonCount(c) \in Nat
  BY <1>1 DEF AnonCount
<1>3. TypeOK
  <2>1. \A c \in Clients : count[c] \in Nat
    BY <1>2 DEF Init
  <2>2. shown \in [Clients -> SUBSET Nat]
    BY <2>1 DEF Init, Others
  <2> QED
    BY <2>1, <2>2, MembershipAssumption DEF Init, TypeOK, Places
<1>4. Locals /\ Overlap /\ Leaving /\ Alone
  BY DEF Init, Locals, Overlap, Leaving, Alone, Visiting
<1> QED
  BY <1>3, <1>4 DEF MInv

(***************************************************************************)
(* TypeOK and the locals are kept by every step.                           *)
(***************************************************************************)
LEMMA HandleTypes ==
    ASSUME MInv, NEW g \in Clients, Handle(g)
    PROVE  TypeOK' /\ Locals'
<1> USE DEF MInv, Begins, Goto, registry, channel, display, locals, history
<1>1. CASE Join(g)
  <2>1. TypeOK'
    BY <1>1 DEF Join, TypeOK, Places
  <2>2. Locals'
    BY <1>1 DEF Join, TypeOK, Locals, Visiting
  <2> QED BY <2>1, <2>2
<1>2. CASE ModeRead(g)
  <2>1. TypeOK'
    BY <1>2 DEF ModeRead, TypeOK, Places
  <2>2. Locals'
    BY <1>2 DEF ModeRead, TypeOK, Locals, Visiting
  <2> QED BY <2>1, <2>2
<1>3. CASE Speak(g)
  <2>1. TypeOK'
    BY <1>3 DEF Speak, TypeOK, Places
  <2>2. Locals'
    BY <1>3 DEF Speak, TypeOK, Locals, Visiting
  <2> QED BY <2>1, <2>2
<1>4. ASSUME NEW m \in Clients, Part(g, m) PROVE TypeOK' /\ Locals'
  <2>1. TypeOK'
    BY <1>4 DEF Part, TypeOK, Places
  <2>2. Locals'
    BY <1>4 DEF Part, TypeOK, Locals, Visiting
  <2> QED BY <2>1, <2>2
<1>5. ASSUME NEW m \in Clients, Kill(g, m) PROVE TypeOK' /\ Locals'
  <2>1. TypeOK'
    BY <1>5 DEF Kill, TypeOK, Places
  <2>2. Locals'
    BY <1>5 DEF Kill, TypeOK, Locals, Visiting
  <2> QED BY <2>1, <2>2
<1> QED
  BY <1>1, <1>2, <1>3, <1>4, <1>5 DEF Handle

LEMMA StepTypes ==
    ASSUME MInv, NEW g \in Clients, Step(g)
    PROVE  TypeOK' /\ Locals'
<1> USE DEF MInv, Goto, registry, channel, display, locals, history
<1> DEFINE N == Cardinality(Clients)
<1>0. N \in Nat /\ \A c \in Clients : AnonCount(c) \in 0..N
  BY AnonCountBound
<1> HIDE DEF N
<1>1. CASE JoinCount(g)
  <2>1. AnonCount(g) + 1 \in 0..(N + 1)
    BY <1>0
  <2>2. TypeOK'
    BY <1>1, <2>1, <1>0 DEF JoinCount, TypeOK, Places
  <2>3. Locals'
    BY <1>1, <2>1 DEF JoinCount, TypeOK, Locals, Visiting, N
  <2> QED BY <2>2, <2>3
<1>2. CASE JoinStore(g)
  <2>1. TypeOK'
    BY <1>2 DEF JoinStore, TypeOK, Places
  <2>2. Locals'
    BY <1>2 DEF JoinStore, TypeOK, Locals, Visiting
  <2> QED BY <2>1, <2>2
<1>3. CASE PartTest(g)
  <2>1. TypeOK'
    BY <1>3 DEF PartTest, TypeOK, Places
  <2>2. Locals'
    BY <1>3 DEF PartTest, TypeOK, Locals, Visiting
  <2> QED BY <2>1, <2>2
<1>4. CASE PartRefused(g) \/ ModeUnannounced(g) \/ Updated(g)
  <2>0. Ends(g)
    BY <1>4 DEF PartRefused, ModeUnannounced, Updated
  <2>1. TypeOK'
    BY <2>0 DEF Ends, TypeOK, Places
  <2>2. Locals'
    BY <2>0 DEF Ends, TypeOK, Locals, Visiting
  <2> QED BY <2>1, <2>2
<1>5. CASE PartDelete(g)
  <2>1. TypeOK'
    BY <1>5 DEF PartDelete, TypeOK, Places
  <2>2. Locals'
    BY <1>5 DEF PartDelete, TypeOK, Locals, Visiting
  <2> QED BY <2>1, <2>2
<1>6. CASE ModeChange(g)
  <2>1. TypeOK'
    BY <1>6 DEF ModeChange, TypeOK, Places
  <2>2. Locals'
    BY <1>6 DEF ModeChange, TypeOK, Locals, Visiting
  <2> QED BY <2>1, <2>2
<1>7. CASE ModeAnnounce(g)
  <2>1. TypeOK'
    BY <1>7 DEF ModeAnnounce, TypeOK, Places
  <2>2. Locals'
    BY <1>7 DEF ModeAnnounce, TypeOK, Locals, Visiting
  <2> QED BY <2>1, <2>2
<1>8. CASE Update(g)
  <2>1. TypeOK'
    BY <1>8 DEF Update, TypeOK, Places
  <2>2. Locals'
    BY <1>8 DEF Update, TypeOK, Locals, Visiting
  <2> QED BY <2>1, <2>2
<1>9. CASE PassOver(g) \/ UpToDate(g)
  <2>0. Returns(g) /\ UNCHANGED <<registry, channel, display, history>>
    BY <1>9 DEF PassOver, UpToDate
  <2>1. TypeOK'
    BY <2>0 DEF Returns, TypeOK, Places
  <2>2. Locals'
    BY <1>9 DEF PassOver, UpToDate, Returns, TypeOK, Locals, Visiting
  <2> QED BY <2>1, <2>2
<1>10. CASE Consider(g)
  <2>1. TypeOK'
    BY <1>10 DEF Consider, TypeOK, Places
  <2>2. Locals'
    BY <1>10 DEF Consider, TypeOK, Locals, Visiting
  <2> QED BY <2>1, <2>2
<1>11. CASE Recount(g)
  <2>0. key[g] \in Clients /\ AnonCount(key[g]) \in 0..N
    BY <1>11, <1>0 DEF Recount, Locals, Visiting
  <2>1. TypeOK'
    BY <1>11, <2>0, <1>0 DEF Recount, TypeOK, Places
  <2>2. Locals'
    BY <1>11, <2>0 DEF Recount, TypeOK, Locals, Visiting, N
  <2> QED BY <2>1, <2>2
<1>12. CASE Store(g)
  <2>0. key[g] \in Clients
    BY <1>12 DEF Store, Locals, Visiting
  <2>1. TypeOK'
    BY <1>12, <2>0 DEF Store, Returns, TypeOK, Places
  <2>2. Locals'
    BY <1>12, <2>0 DEF Store, Returns, TypeOK, Locals, Visiting
  <2> QED BY <2>1, <2>2
<1>13. CASE Exit(g)
  <2>1. TypeOK'
    BY <1>13 DEF Exit, TypeOK, Places
  <2>2. Locals'
    BY <1>13 DEF Exit, TypeOK, Locals, Visiting
  <2> QED BY <2>1, <2>2
<1>14. ASSUME NEW m \in Clients, Yield(g, m) PROVE TypeOK' /\ Locals'
  <2>1. TypeOK'
    BY <1>14 DEF Yield, TypeOK, Places
  <2>2. Locals'
    BY <1>14 DEF Yield, TypeOK, Locals, Visiting
  <2> QED BY <2>1, <2>2
<1>15. ASSUME NEW m \in Clients, Skip(g, m) PROVE TypeOK' /\ Locals'
  <2>1. TypeOK'
    BY <1>15 DEF Skip, TypeOK, Places
  <2>2. Locals'
    BY <1>15 DEF Skip, TypeOK, Locals, Visiting
  <2> QED BY <2>1, <2>2
<1>16. CASE JoinNames(g)
  <2>0. 1..(AnonCount(g) - 1) \subseteq Nat
    BY <1>0
  <2>1. TypeOK'
    BY <1>16, <2>0 DEF JoinNames, Others, TypeOK, Places
  <2>2. Locals'
    BY <1>16 DEF JoinNames, TypeOK, Locals, Visiting
  <2> QED BY <2>1, <2>2
<1>17. CASE Tell(g)
  <2>0. /\ key[g] \in Clients
        /\ \A c \in Clients : AfterUpdate(shown[c], old[g], new[g]) \subseteq Nat
    BY <1>17 DEF Tell, AfterUpdate, Locals, Visiting, TypeOK
  <2>1. TypeOK'
    BY <1>17, <2>0 DEF Tell, TypeOK, Places
  <2>2. Locals'
    BY <1>17 DEF Tell, TypeOK, Locals, Visiting
  <2> QED BY <2>1, <2>2
<1> QED
  BY <1>1, <1>2, <1>3, <1>4, <1>5, <1>6, <1>7, <1>8, <1>9, <1>10, <1>11, <1>12,
     <1>13, <1>14, <1>15, <1>16, <1>17 DEF Step

(***************************************************************************)
(* Every step is one goroutine's, which begins an operation, goes on with  *)
(* one, or ends a connection; the others stay where they are.              *)
(***************************************************************************)
LEMMA Elsewhere ==
    ASSUME TypeOK, NEW g \in Clients, Handle(g) \/ Step(g)
    PROVE  /\ \A h \in Clients \ {g} :
                  /\ at'[h] = at[h] /\ who'[h] = who[h] /\ left'[h] = left[h]
                  /\ key'[h] = key[h] /\ old'[h] = old[h] /\ new'[h] = new[h]
                  /\ was'[h] = was[h]
           /\ disturbed' = disturbed \/ at[g] = "read"
           /\ calm' = calm \/ at[g] = "read"
<1> USE DEF TypeOK, Begins, Goto, Ends, Returns, registry, channel, display, locals, history
<1>1. CASE Handle(g)
  BY <1>1 DEF Handle, Join, ModeRead, Speak, Part, Kill
<1>2. CASE Step(g)
  <2>1. CASE JoinCount(g) \/ JoinStore(g) \/ JoinNames(g) \/ Tell(g)
    BY <2>1 DEF JoinCount, JoinStore, JoinNames, Tell
  <2>2. CASE PartTest(g) \/ PartRefused(g) \/ PartDelete(g)
    BY <2>2 DEF PartTest, PartRefused, PartDelete
  <2>3. CASE ModeChange(g) \/ ModeAnnounce(g) \/ ModeUnannounced(g)
    BY <2>3 DEF ModeChange, ModeAnnounce, ModeUnannounced
  <2>4. CASE Update(g) \/ PassOver(g) \/ Consider(g) \/ UpToDate(g)
    BY <2>4 DEF Update, PassOver, Consider, UpToDate
  <2>5. CASE Recount(g) \/ Store(g) \/ Updated(g) \/ Exit(g)
    BY <2>5 DEF Recount, Store, Updated, Exit
  <2>6. CASE \E m \in Clients : Yield(g, m) \/ Skip(g, m)
    BY <2>6 DEF Yield, Skip
  <2> QED
    BY <1>2, <2>1, <2>2, <2>3, <2>4, <2>5, <2>6 DEF Step
<1> QED
  BY <1>1, <1>2

\* at the top of handleRead an operation begins, or the connection ends
LEMMA FromRead ==
    ASSUME TypeOK, NEW g \in Clients, Handle(g) \/ Step(g), at[g] = "read"
    PROVE  \/ Begins(g, "count") \/ Begins(g, "leave") \/ Begins(g, "change")
           \/ Begins(g, "update") \/ Exit(g)
<1>1. CASE Handle(g)
  BY <1>1 DEF Handle, Join, ModeRead, Speak, Part, Kill
<1>2. CASE Step(g)
  BY <1>2 DEF Step, JoinCount, JoinStore, JoinNames, PartTest, PartRefused, PartDelete,
     ModeChange, ModeAnnounce, ModeUnannounced, Update, PassOver, Consider, UpToDate,
     Recount, Tell, Store, Updated, Yield, Skip
<1> QED
  BY <1>1, <1>2

LEMMA OverlapKept ==
    ASSUME MInv, NEW g \in Clients, Handle(g) \/ Step(g)
    PROVE  Overlap'
<1> USE DEF MInv
<1>1. TypeOK /\ Overlap
  OBVIOUS
<1>2. CASE at[g] # "read"
  BY <1>1, <1>2, Elsewhere DEF Overlap
<1>3. CASE at[g] = "read" /\ Exit(g)
  BY <1>1, <1>3 DEF Exit, Overlap
<1>4. ASSUME at[g] = "read", NEW place \in Places, Begins(g, place) PROVE Overlap'
  BY <1>1, <1>4, Elsewhere DEF Begins, Goto, Overlap, TypeOK
<1> QED
  BY <1>1, <1>2, <1>3, <1>4, FromRead DEF Places

LEMMA LeavingKept ==
    ASSUME MInv, NEW g \in Clients, Handle(g) \/ Step(g)
    PROVE  Leaving'
<1> USE DEF MInv, Begins, Goto, registry, channel, display, locals, history
<1>1. CASE Handle(g)
  <2>1. ASSUME NEW m \in Clients, Kill(g, m) PROVE Leaving'
    BY <2>1 DEF Kill, Leaving, TypeOK
  <2>2. ASSUME NEW m \in Clients, Part(g, m) PROVE Leaving'
    BY <2>2 DEF Part, Leaving, TypeOK
  <2>3. CASE Join(g) \/ ModeRead(g) \/ Speak(g)
    BY <2>3 DEF Join, ModeRead, Speak, Leaving, TypeOK
  <2> QED
    BY <1>1, <2>1, <2>2, <2>3 DEF Handle
<1>2. CASE Step(g)
  <2>1. CASE JoinCount(g) \/ JoinStore(g) \/ JoinNames(g) \/ Tell(g)
    BY <2>1 DEF JoinCount, JoinStore, JoinNames, Tell, Leaving, TypeOK
  <2>2. CASE PartTest(g)
    BY <2>2 DEF PartTest, Leaving, TypeOK
  <2>3. CASE PartRefused(g)
    BY <2>3 DEF PartRefused, Ends, Leaving, TypeOK
  <2>4. CASE PartDelete(g)
    BY <2>4 DEF PartDelete, Leaving, TypeOK
  <2>5. CASE ModeChange(g) \/ ModeAnnounce(g)
    BY <2>5 DEF ModeChange, ModeAnnounce, Leaving, TypeOK
  <2>6. CASE ModeUnannounced(g) \/ Updated(g)
    <3>1. Ends(g) /\ at[g] \notin {"leave", "delete"}
      BY <2>6 DEF ModeUnannounced, Updated
    <3> QED
      BY <3>1 DEF Ends, Leaving, TypeOK
  <2>7. CASE PassOver(g) \/ UpToDate(g)
    <3>1. Returns(g) /\ UNCHANGED <<registry, channel>> /\ at[g] \notin {"leave", "delete"}
      BY <2>7 DEF PassOver, UpToDate
    <3> QED
      BY <3>1 DEF Returns, Leaving, TypeOK
  <2>8. CASE Update(g) \/ Consider(g) \/ Recount(g)
    BY <2>8 DEF Update, Consider, Recount, Leaving, TypeOK
  <2>9. CASE Store(g)
    BY <2>9 DEF Store, Returns, Leaving, Locals, Visiting, TypeOK
  <2>10. CASE Exit(g)
    BY <2>10 DEF Exit, Leaving, TypeOK
  <2>11. ASSUME NEW m \in Clients, Yield(g, m) \/ Skip(g, m) PROVE Leaving'
    BY <2>11 DEF Yield, Skip, Leaving, TypeOK
  <2> QED
    BY <1>2, <2>1, <2>2, <2>3, <2>4, <2>5, <2>6, <2>7, <2>8, <2>9, <2>10, <2>11 DEF Step
<1> QED
  BY <1>1, <1>2

(***************************************************************************)
(* An operation that nobody has disturbed is the only one in progress.     *)
(***************************************************************************)
LEMMA OnlySelf ==
    ASSUME MInv, NEW g \in Clients, Handle(g) \/ Step(g),
           NEW h \in Busy', h \notin disturbed'
    PROVE  /\ h = g /\ ~Exit(g) /\ at'[g] # "read"
           /\ at[g] # "read" => g \notin disturbed /\ Reliable(g)
<1> USE DEF MInv
<1>0. TypeOK /\ Overlap /\ Alone
  OBVIOUS
<1>1. CASE at[g] # "read"
  <2>1. disturbed' = disturbed
    BY <1>0, <1>1, Elsewhere
  <2>2. h = g
    BY <1>0, <1>1, <2>1, Elsewhere DEF Overlap
  <2> QED
    BY <1>0, <1>1, <2>1, <2>2 DEF Alone, Exit
<1>2. CASE at[g] = "read" /\ Exit(g)
  BY <1>2 DEF Exit
<1>3. ASSUME at[g] = "read", NEW place \in Places, Begins(g, place)
      PROVE  h = g /\ ~Exit(g) /\ at'[g] # "read"
  <2>1. h = g
    BY <1>0, <1>3, Elsewhere DEF Begins, Goto, TypeOK
  <2>2. at'[g] # "read"
    BY <2>1
  <2> QED
    BY <1>3, <2>1, <2>2 DEF Exit
<1> QED
  BY <1>0, <1>1, <1>2, <1>3, FromRead DEF Places

(***************************************************************************)
(* What is right stays right while the channel does not change.            *)
(***************************************************************************)
LEMMA SameCounts ==
    ASSUME UNCHANGED <<known, members, count, modes>>
    PROVE  /\ \A c \in Clients : AnonCount(c)' = AnonCount(c)
           /\ Settled' = Settled
<1>1. \A c : AnonCount(c)' = AnonCount(c)
  BY DEF AnonCount
<1> QED
  BY <1>1 DEF Settled

LEMMA HandleReliable ==
    ASSUME MInv, NEW g \in Clients, Handle(g)
    PROVE  Reliable(g)'
<1> USE DEF MInv
<1>0. TypeOK
  OBVIOUS
<1>1. ASSUME NEW place \in Places, Begins(g, place)
      PROVE  /\ UNCHANGED <<known, members, count, modes>>
             /\ at'[g] = place /\ (g \in calm' => Settled')
  <2>1. UNCHANGED <<known, members, count, modes>> /\ at'[g] = place
    BY <1>0, <1>1 DEF Begins, Goto, channel, TypeOK
  <2>2. g \in calm' => Settled
    BY <1>1 DEF Begins
  <2> QED
    BY <2>1, <2>2, SameCounts
<1>2. CASE Join(g)
  BY <1>0, <1>1, <1>2 DEF Join, Reliable, Room, Places, Visiting
<1>3. CASE ModeRead(g)
  BY <1>0, <1>1, <1>3 DEF ModeRead, Reliable, Places, Visiting, TypeOK
<1>4. CASE Speak(g)
  BY <1>0, <1>1, <1>4 DEF Speak, Reliable, Places, Visiting
<1>5. CASE \E m \in Clients : Part(g, m) \/ Kill(g, m)
  BY <1>0, <1>1, <1>5 DEF Part, Kill, Reliable, Places, Visiting
<1> QED
  BY <1>2, <1>3, <1>4, <1>5 DEF Handle

(***************************************************************************)
(* The steps of an update that nobody disturbs.                            *)
(***************************************************************************)
LEMMA VisitReliable ==
    ASSUME MInv, NEW g \in Clients, Reliable(g),
           \/ Update(g) \/ PassOver(g) \/ Consider(g) \/ UpToDate(g) \/ Recount(g)
           \/ Tell(g) \/ Store(g) \/ \E m \in Clients : Yield(g, m) \/ Skip(g, m)
    PROVE  Reliable(g)'
<1> USE DEF MInv, Goto, registry, channel, display, locals, history
<1>0. TypeOK /\ Locals
  OBVIOUS
<1>a. ASSUME UNCHANGED <<known, members, count, modes>>
      PROVE  \A c \in Clients : AnonCount(c)' = AnonCount(c)
  BY <1>a, SameCounts
<1>1. CASE Update(g)
  <2>1. at'[g] = "range" /\ left'[g] = members /\ members' = members
    BY <1>0, <1>1 DEF Update, TypeOK
  <2>2. Visited(g)'
    BY <2>1 DEF Visited, Visiting
  <2> QED
    BY <2>1, <2>2 DEF Reliable, Visiting
<1>2. CASE PassOver(g)
  <2>1. /\ at[g] = "consider" /\ at'[g] = "range" /\ key'[g] = NoClient /\ left'[g] = left[g]
        /\ UNCHANGED <<known, members, count, modes>>
        /\ key[g] \notin known \/ "D" \in modes
    BY <1>0, <1>2 DEF PassOver, Returns, Delayed, TypeOK
  <2>2. Visited(g)'
    <3>1. Visited(g)
      BY <2>1 DEF Reliable, Visiting
    <3>2. \A c \in Clients : AnonCount(c)' = AnonCount(c)
      BY <1>a, <2>1
    <3> QED
      BY <1>0, <2>1, <3>1, <3>2 DEF Visited, Visiting, TypeOK
  <2> QED
    BY <2>1, <2>2 DEF Reliable, Visiting
<1>3. CASE Consider(g)
  <2>1. /\ at[g] = "consider" /\ at'[g] = "recount" /\ ~Delayed(g)
        /\ UNCHANGED <<known, members, count, modes, key, left, old, who>>
    BY <1>0, <1>3 DEF Consider, TypeOK
  <2>2. Visited(g)'
    <3>1. Visited(g)
      BY <2>1 DEF Reliable, Visiting
    <3>2. \A c \in Clients : AnonCount(c)' = AnonCount(c)
      BY <1>a, <2>1
    <3> QED
      BY <1>0, <2>1, <3>1, <3>2 DEF Visited, Visiting, TypeOK
  <2> QED
    BY <2>1, <2>2 DEF Reliable, Visiting, Delayed
<1>4. CASE UpToDate(g)
  <2>1. /\ at[g] = "recount" /\ at'[g] = "range" /\ key'[g] = NoClient /\ left'[g] = left[g]
        /\ UNCHANGED <<known, members, count, modes>>
        /\ old[g] = AnonCount(key[g])
    BY <1>0, <1>4 DEF UpToDate, Returns, TypeOK
  <2>2. Visited(g)'
    <3>1. Visited(g) /\ old[g] = count[key[g]]
      BY <2>1 DEF Reliable, Visiting
    <3>2. \A c \in Clients : AnonCount(c)' = AnonCount(c)
      BY <1>a, <2>1
    <3> QED
      BY <1>0, <2>1, <3>1, <3>2 DEF Visited, Visiting, TypeOK
  <2> QED
    BY <2>1, <2>2 DEF Reliable, Visiting
<1>5. CASE Recount(g)
  <2>1. /\ at[g] = "recount" /\ at'[g] = "tell" /\ new'[g] = AnonCount(key[g])
        /\ UNCHANGED <<known, members, count, modes, key, left, old, who>>
        /\ key[g] \in Clients
    BY <1>0, <1>5 DEF Recount, Locals, Visiting, TypeOK
  <2>2. \A c \in Clients : AnonCount(c)' = AnonCount(c)
    BY <1>a, <2>1
  <2>3. Visited(g) /\ ~Delayed(g)
    BY <2>1 DEF Reliable, Visiting
  <2>4. Visited(g)'
    BY <1>0, <2>1, <2>2, <2>3 DEF Visited, Visiting, TypeOK
  <2> QED
    BY <2>1, <2>2, <2>3, <2>4 DEF Reliable, Visiting, Delayed
<1>6. CASE Store(g)
  <2>1. /\ at[g] = "store" /\ at'[g] = "range" /\ key'[g] = NoClient /\ left'[g] = left[g]
        /\ UNCHANGED <<known, modes>> /\ members' = members \cup {key[g]}
        /\ count' = [count EXCEPT ![key[g]] = new[g]]
        /\ key[g] \in Clients
    BY <1>0, <1>6 DEF Store, Returns, Locals, Visiting, TypeOK
  <2>2. Visited(g) /\ new[g] = AnonCount(key[g]) /\ key[g] \in members
    BY <2>1 DEF Reliable, Visiting, Visited
  <2>3. members' = members
    BY <2>1, <2>2
  <2>4. \A c \in Clients : AnonCount(c)' = AnonCount(c)
    BY <2>1, <2>3 DEF AnonCount
  <2>5. Visited(g)'
    BY <1>0, <2>1, <2>2, <2>3, <2>4 DEF Visited, Visiting, TypeOK
  <2> QED
    BY <2>1, <2>5 DEF Reliable, Visiting
<1>7. ASSUME NEW m \in Clients, Yield(g, m) PROVE Reliable(g)'
  <2>1. /\ at[g] = "range" /\ at'[g] = "consider" /\ key'[g] = m /\ left'[g] = left[g] \ {m}
        /\ m \in members /\ old'[g] = count[m] /\ key[g] = NoClient
        /\ UNCHANGED <<known, members, count, modes>>
    BY <1>0, <1>7 DEF Yield, Locals, Visiting, TypeOK
  <2>2. Visited(g)'
    <3>1. Visited(g)
      BY <2>1 DEF Reliable, Visiting
    <3>2. \A c \in Clients : AnonCount(c)' = AnonCount(c)
      BY <1>a, <2>1
    <3> QED
      BY <1>0, <2>1, <3>1, <3>2, MembershipAssumption DEF Visited, Visiting, TypeOK
  <2> QED
    BY <2>1, <2>2 DEF Reliable, Visiting
<1>8. ASSUME NEW m \in Clients, Skip(g, m) PROVE Reliable(g)'
  <2>1. /\ at[g] = "range" /\ m \in left[g] \ members
        /\ UNCHANGED <<known, members, count, modes, at, key, old, new>>
    BY <1>0, <1>8 DEF Skip, TypeOK
  <2>2. Visited(g)
    BY <2>1 DEF Reliable, Visiting
  <2> QED
    BY <2>1, <2>2 DEF Visited
<1>9. CASE Tell(g)
  <2>1. /\ at[g] = "tell" /\ at'[g] = "store"
        /\ UNCHANGED <<known, members, count, modes, key, left, old, new, who>>
        /\ key[g] \in Clients
    BY <1>0, <1>9 DEF Tell, Locals, Visiting, TypeOK
  <2>2. \A c \in Clients : AnonCount(c)' = AnonCount(c)
    BY <1>a, <2>1
  <2>3. Visited(g) /\ ~Delayed(g) /\ new[g] = AnonCount(key[g])
    BY <2>1 DEF Reliable, Visiting
  <2>4. Visited(g)'
    BY <1>0, <2>1, <2>2, <2>3 DEF Visited, Visiting, TypeOK
  <2> QED
    BY <2>1, <2>2, <2>3, <2>4 DEF Reliable, Visiting, Delayed
<1> QED
  BY <1>1, <1>2, <1>3, <1>4, <1>5, <1>6, <1>7, <1>8, <1>9

(***************************************************************************)
(* The other steps.  A change of the modes leaves every count right unless *)
(* it is one the announcement will find.                                   *)
(***************************************************************************)
LEMMA OtherReliable ==
    ASSUME MInv, NEW g \in Clients, Reliable(g),
           \/ JoinCount(g) \/ JoinStore(g) \/ JoinNames(g) \/ PartTest(g)
           \/ PartDelete(g) \/ ModeChange(g) \/ ModeAnnounce(g)
    PROVE  Reliable(g)'
<1> USE DEF MInv, Goto, registry, channel, display, locals, history
<1>0. TypeOK
  OBVIOUS
<1>1. CASE JoinCount(g)
  BY <1>0, <1>1 DEF JoinCount, Reliable, Room, Visiting, TypeOK
<1>2. CASE JoinStore(g) \/ JoinNames(g) \/ PartDelete(g) \/ ModeAnnounce(g)
  <2>1. at'[g] \in {"names", "update"}
    BY <1>0, <1>2 DEF JoinStore, JoinNames, PartDelete, ModeAnnounce, TypeOK
  <2> QED
    BY <2>1 DEF Reliable, Visiting
<1>3. CASE PartTest(g)
  <2>1. at'[g] = "delete"
    BY <1>0, <1>3 DEF PartTest, TypeOK
  <2> QED
    BY <2>1 DEF Reliable, Visiting
<1>4. CASE ModeChange(g)
  <2>1. /\ at[g] = "change" /\ at'[g] = "compare"
        /\ UNCHANGED <<known, members, count, was, calm>>
    BY <1>0, <1>4 DEF ModeChange, TypeOK
  <2>2. was[g] = modes /\ (g \in calm => Settled)
    BY <2>1 DEF Reliable
  <2>3. CASE ("c" \in modes) = ("c" \in modes')
    <3>1. \A c : AnonCount(c)' = AnonCount(c)
      BY <2>1, <2>3 DEF AnonCount
    <3>2. Settled' = Settled
      BY <2>1, <3>1 DEF Settled
    <3> QED
      BY <2>1, <2>2, <3>2 DEF Reliable, Visiting
  <2>4. CASE ("c" \in modes) # ("c" \in modes')
    <3>1. CountsAffected(was[g])'
      BY <2>1, <2>2, <2>4 DEF CountsAffected
    <3> QED
      BY <2>1, <3>1 DEF Reliable, Visiting
  <2> QED
    BY <2>3, <2>4
<1>5. CASE ModeAnnounce(g)
  BY <1>2, <1>5
<1> QED
  BY <1>1, <1>2, <1>3, <1>4, <1>5

LEMMA AloneKept ==
    ASSUME MInv, NEW g \in Clients, Handle(g) \/ Step(g)
    PROVE  Alone'
<1> SUFFICES ASSUME NEW h \in Busy', h \notin disturbed'
             PROVE  Reliable(h)'
  BY DEF Alone
<1>0. TypeOK
  BY DEF MInv
<1>1. /\ h = g /\ ~Exit(g) /\ at'[g] # "read"
      /\ at[g] # "read" => g \notin disturbed /\ Reliable(g)
  BY OnlySelf
<1>2. CASE Handle(g)
  BY <1>1, <1>2, HandleReliable
<1>3. CASE Step(g)
  <2>1. ASSUME Ends(g) PROVE FALSE
    BY <1>0, <1>1, <2>1 DEF Ends, Goto, TypeOK
  <2>2. ~PartRefused(g) /\ ~ModeUnannounced(g) /\ ~Updated(g)
    BY <2>1 DEF PartRefused, ModeUnannounced, Updated
  <2>3. at[g] # "read"
    BY <1>1, <1>3, <2>2 DEF Step, JoinCount, JoinStore, JoinNames, PartTest, PartDelete,
       ModeChange, ModeAnnounce, Update, PassOver, Consider, UpToDate, Recount, Tell, Store,
       Yield, Skip
  <2>4. Reliable(g)
    BY <1>1, <2>3
  <2>5. CASE \/ JoinCount(g) \/ JoinStore(g) \/ JoinNames(g) \/ PartTest(g)
             \/ PartDelete(g) \/ ModeChange(g) \/ ModeAnnounce(g)
    BY <1>1, <2>4, <2>5, OtherReliable
  <2>6. CASE \/ Update(g) \/ PassOver(g) \/ Consider(g) \/ UpToDate(g) \/ Recount(g)
             \/ Tell(g) \/ Store(g) \/ \E m \in Clients : Yield(g, m) \/ Skip(g, m)
    BY <1>1, <2>4, <2>6, VisitReliable
  <2> QED
    BY <1>1, <1>3, <2>2, <2>5, <2>6 DEF Step
<1> QED
  BY <1>2, <1>3

LEMMA NextInv == MInv /\ [Next]_vars => MInv'
<1> SUFFICES ASSUME MInv, [Next]_vars PROVE MInv'
  OBVIOUS
<1>1. ASSUME NEW g \in Clients, Handle(g) \/ Step(g) PROVE MInv'
  <2>1. TypeOK' /\ Locals'
    BY <1>1, HandleTypes, StepTypes
  <2> QED
    BY <1>1, <2>1, OverlapKept, LeavingKept, AloneKept DEF MInv
<1> DEFINE kept == <<registry, channel, at, locals, history>>
<1>2. CASE UNCHANGED kept /\ TypeOK'
  <2> USE DEF kept, registry, channel, locals, history
  <2>1. Locals' /\ Overlap' /\ Leaving'
    BY <1>2 DEF MInv, Locals, Overlap, Leaving, Visiting
  <2>2. /\ \A c : AnonCount(c)' = AnonCount(c)
        /\ \A g : Delayed(g)' = Delayed(g)
        /\ \A g : CountsAffected(was[g])' = CountsAffected(was[g])
        /\ \A g : Room(g)' = Room(g)
    BY <1>2 DEF AnonCount, Delayed, CountsAffected, Room
  <2>3. Settled' = Settled /\ \A g : Visited(g)' = Visited(g)
    BY <1>2, <2>2 DEF Settled, Visited, Visiting
  <2>4. \A g : Reliable(g)' = Reliable(g)
    BY <1>2, <2>2, <2>3 DEF Reliable, Visiting
  <2>5. Alone'
    BY <1>2, <2>4 DEF MInv, Alone
  <2> QED
    BY <1>2, <2>1, <2>5 DEF MInv
<1>3. ASSUME NEW g \in Clients, Names(g) PROVE MInv'
  <2>1. 1..(AnonCount(g) - 1) \subseteq Nat
    BY AnonCountBound DEF MInv
  <2>2. TypeOK'
    BY <1>3, <2>1 DEF Names, MInv, TypeOK, Others, registry, channel, locals, history
  <2> QED
    BY <1>2, <1>3, <2>2 DEF Names
<1>4. CASE UNCHANGED vars
  <2>1. TypeOK'
    BY <1>4 DEF vars, MInv, TypeOK
  <2>2. UNCHANGED kept
    BY <1>4 DEF vars, registry, channel, locals, history
  <2> QED
    BY <1>2, <2>1, <2>2
<1> QED
  BY <1>1, <1>3, <1>4 DEF Next

(***************************************************************************)
(* Types hold in every state: the map of members, the locals of every      *)
(* goroutine and the histories.                                            *)
(***************************************************************************)
THEOREM MembershipTypeCorrect == Spec => []TypeOK
<1>1. MInv => TypeOK
  BY DEF MInv
<1> QED
  BY <1>1, InitInv, NextInv, PTL DEF Spec

LEMMA Invariance == Spec => []MInv
BY InitInv, NextInv, PTL DEF Spec

(***************************************************************************)
(* The refinement.  What the promise knows of the state, and of the place  *)
(* of a goroutine:                                                         *)
(***************************************************************************)
stage == [g \in Clients |-> Stage(g)]
met   == [g \in Clients |-> Met(g)]

LEMMA SamePromise ==
    /\ Promise!Settled <=> Settled
    /\ Promise!Busy = Busy
    /\ \A c \in known : Promise!Shown(c) = AnonCount(c)
<1>1. \A c \in known : Promise!Shown(c) = AnonCount(c)
  <2> SUFFICES ASSUME NEW c \in known PROVE Promise!Shown(c) = AnonCount(c)
    OBVIOUS
  <2> QED
    BY DEF Promise!Shown, AnonCount, Promise!Cardinality, Cardinality
<1>2. Promise!Settled <=> Settled
  BY <1>1 DEF Promise!Settled, Settled
<1>3. Promise!Busy = Busy
  BY DEF Promise!Busy, Stage
<1> QED
  BY <1>1, <1>2, <1>3

LEMMA PromiseInit == Init => Promise!Init
<1> SUFFICES ASSUME Init PROVE Promise!Init
  OBVIOUS
<1>1. \A c \in Clients : Promise!Shown(c) = AnonCount(c)
  BY SamePromise DEF Init
<1>2. stage = [g \in Clients |-> "idle"] /\ met = [g \in Clients |-> {}]
  BY DEF Init, stage, met, Stage, Met
<1>3. count = [c \in Clients |-> IF c \in Present THEN Promise!Shown(c) ELSE 0]
  BY <1>1, MembershipAssumption DEF Init
<1> QED
  BY <1>2, <1>3 DEF Init, Promise!Init, stage, met

(***************************************************************************)
(* A step of a goroutine changes what the promise knows of that goroutine  *)
(* only.                                                                   *)
(***************************************************************************)
LEMMA OthersStay ==
    ASSUME MInv, NEW g \in Clients, Handle(g) \/ Step(g)
    PROVE  /\ stage' = [stage EXCEPT ![g] = Stage(g)']
           /\ met' = [met EXCEPT ![g] = Met(g)']
<1>1. TypeOK
  BY DEF MInv
<1>2. \A h \in Clients \ {g} : Stage(h)' = Stage(h) /\ Met(h)' = Met(h)
  BY <1>1, Elsewhere DEF Stage, Met
<1> QED
  BY <1>2 DEF stage, met

(***************************************************************************)
(* A handler begins, and undertakes to part somebody or nobody.            *)
(***************************************************************************)
LEMMA HandlePromise ==
    ASSUME MInv, NEW g \in Clients, Handle(g)
    PROVE  Promise!Begin(g)
<1>0. TypeOK
  BY DEF MInv
<1>1. /\ at[g] = "read" /\ g \in known /\ UNCHANGED <<known, members, count, modes, stray>>
      /\ disturbed' = IF Busy = {} THEN disturbed \ {g} ELSE disturbed \cup Busy \cup {g}
      /\ calm' = IF Settled THEN calm \cup {g} ELSE calm \ {g}
      /\ at'[g] \in {"count", "leave", "change", "update"}
      /\ at'[g] = "leave" => who'[g] \in Clients
  BY <1>0 DEF Handle, Join, ModeRead, Speak, Part, Kill, Begins, Goto, channel, TypeOK
<1>2. Stage(g) = "idle" /\ Stage(g)' = "busy"
  BY <1>1 DEF Stage
<1>3. Met(g)' \in {{}} \cup {{m} : m \in Clients}
  BY <1>1 DEF Met
<1>6. killed' \in {killed, killed \cup (Met(g)' \ {g})}
  <2>1. CASE \E m \in Clients : Kill(g, m)
    <3>1. PICK m \in Clients : Kill(g, m)
      BY <2>1
    <3>2. Met(g)' = {m} /\ killed' = IF m # g THEN killed \cup {m} ELSE killed
      BY <1>0, <3>1 DEF Kill, Begins, Goto, Met, TypeOK
    <3> QED
      BY <3>2
  <2>2. CASE ~\E m \in Clients : Kill(g, m)
    <3>1. killed' = killed
      BY <2>2 DEF Handle, Join, ModeRead, Speak, Part
    <3> QED
      BY <3>1
  <2> QED
    BY <2>1, <2>2
<1>4. stage' = [stage EXCEPT ![g] = "busy"] /\ stage[g] = "idle"
  BY <1>2, OthersStay DEF stage
<1>5. \E target \in {{}} \cup {{m} : m \in Clients} :
          /\ met' = [met EXCEPT ![g] = target]
          /\ killed' \in {killed, killed \cup (target \ {g})}
  BY <1>3, <1>6, OthersStay
<1> QED
  BY <1>1, <1>4, <1>5, SamePromise DEF Promise!Begin, stage, met

(***************************************************************************)
(* An operation ends.                                                      *)
(***************************************************************************)
LEMMA EndPromise ==
    ASSUME MInv, NEW g \in Clients,
           PartRefused(g) \/ ModeUnannounced(g) \/ Updated(g)
    PROVE  Promise!End(g)
<1>0. TypeOK /\ Locals /\ Alone /\ Step(g)
  BY DEF MInv, Step
<1>1. Ends(g) /\ at[g] \in {"leave", "compare", "range"}
  BY DEF PartRefused, ModeUnannounced, Updated
<1>2. /\ at'[g] = "read"
      /\ UNCHANGED <<known, members, count, modes, disturbed, calm, stray, killed>>
  BY <1>0, <1>1 DEF Ends, Goto, registry, channel, display, history, TypeOK
<1>3. stage' = [stage EXCEPT ![g] = "idle"] /\ met' = [met EXCEPT ![g] = {}]
  <2>1. Stage(g)' = "idle" /\ Met(g)' = {}
    BY <1>2 DEF Stage, Met
  <2> QED
    BY <1>0, <2>1, OthersStay
<1>4. ASSUME g \notin disturbed, "D" \notin modes, stage[g] = "updating" \/ g \in calm
      PROVE  Settled
  <2>1. Reliable(g)
    BY <1>0, <1>1, <1>4 DEF Alone
  <2>2. CASE PartRefused(g)
    BY <1>4, <2>1, <2>2 DEF PartRefused, Reliable, stage, Stage
  <2>3. CASE ModeUnannounced(g)
    BY <1>4, <2>1, <2>3 DEF ModeUnannounced, Reliable, stage, Stage
  <2>4. CASE Updated(g)
    <3>1. at[g] = "range" /\ left[g] = {} /\ key[g] = NoClient
      BY <1>0, <2>4 DEF Updated, Locals, Visiting
    <3>2. Visited(g)
      BY <2>1, <3>1 DEF Reliable, Visiting
    <3> QED
      BY <1>0, <1>4, <3>1, <3>2, MembershipAssumption DEF Visited, Settled, TypeOK
  <2> QED
    BY <2>2, <2>3, <2>4
<1>5. stage[g] # "idle"
  BY <1>1 DEF stage, Stage
<1> QED
  BY <1>2, <1>3, <1>4, <1>5, SamePromise DEF Promise!End, stage, met

(***************************************************************************)
(* The steps of an operation.                                              *)
(***************************************************************************)
LEMMA SameCardinality == \A S : Promise!Cardinality(S) = Cardinality(S)
BY DEF Promise!Cardinality, Cardinality

\* reading, testing and comparing promise nothing new
LEMMA StutterPromise ==
    ASSUME MInv, NEW g \in Clients,
           \/ JoinCount(g) \/ JoinNames(g) \/ PartTest(g) \/ ModeAnnounce(g)
           \/ Consider(g) \/ Recount(g) \/ Tell(g) \/ \E m \in Clients : Yield(g, m)
    PROVE  /\ UNCHANGED <<known, members, count, modes, disturbed, calm, stray, killed>>
           /\ stage' = stage /\ met' = met
<1>0. TypeOK /\ Step(g)
  BY DEF MInv, Step
<1>1. UNCHANGED <<known, members, count, modes, disturbed, calm, stray, killed>>
  BY DEF JoinCount, JoinNames, PartTest, ModeAnnounce, Consider, Recount, Tell, Yield,
     registry, channel, history
<1>2. Stage(g)' = Stage(g)
  BY <1>0 DEF JoinCount, JoinNames, PartTest, ModeAnnounce, Consider, Recount, Tell, Yield,
     Goto, Stage, TypeOK
<1>3. Met(g)' = Met(g)
  <2>1. CASE JoinCount(g) \/ JoinNames(g) \/ PartTest(g) \/ ModeAnnounce(g)
    BY <1>0, <2>1 DEF JoinCount, JoinNames, PartTest, ModeAnnounce, Goto, Met, TypeOK, locals
  <2>2. CASE Consider(g) \/ Recount(g) \/ Tell(g)
    BY <1>0, <2>2 DEF Consider, Recount, Tell, Goto, Met, TypeOK, locals
  <2>3. ASSUME NEW m \in Clients, Yield(g, m) PROVE Met(g)' = Met(g)
    <3>1. /\ at[g] = "range" /\ at'[g] = "consider" /\ m \in left[g]
          /\ left'[g] = left[g] \ {m} /\ key'[g] = m
      BY <1>0, <2>3 DEF Yield, Goto, TypeOK
    <3> QED
      BY <3>1 DEF Met
  <2> QED
    BY <2>1, <2>2, <2>3
<1>4. stage' = [stage EXCEPT ![g] = stage[g]] /\ met' = [met EXCEPT ![g] = met[g]]
  BY <1>0, <1>2, <1>3, OthersStay DEF stage, met
<1> QED
  BY <1>1, <1>4 DEF stage, met

LEMMA PassPromise ==
    ASSUME MInv, NEW g \in Clients,
           PassOver(g) \/ UpToDate(g) \/ \E m \in Clients : Skip(g, m)
    PROVE  Promise!Pass(g)
<1>0. TypeOK /\ Step(g)
  BY DEF MInv, Step
<1>1. UNCHANGED <<known, members, count, modes, disturbed, calm, stray, killed>>
  BY DEF PassOver, UpToDate, Skip, registry, channel, display, history
<1>2. Stage(g) = "updating" /\ Stage(g)' = Stage(g) /\ Met(g)' \subseteq Met(g)
  <2>1. CASE PassOver(g) \/ UpToDate(g)
    <3>1. /\ at[g] \in {"consider", "recount"} /\ at'[g] = "range" /\ left'[g] = left[g]
      BY <1>0, <2>1 DEF PassOver, UpToDate, Returns, Goto, TypeOK
    <3> QED
      BY <3>1 DEF Stage, Met
  <2>2. ASSUME NEW m \in Clients, Skip(g, m)
        PROVE  Stage(g) = "updating" /\ Stage(g)' = Stage(g) /\ Met(g)' \subseteq Met(g)
    <3>1. at[g] = "range" /\ at' = at /\ left'[g] = left[g] \ {m}
      BY <1>0, <2>2 DEF Skip, TypeOK
    <3> QED
      BY <3>1 DEF Stage, Met
  <2> QED
    BY <2>1, <2>2
<1>3. /\ stage[g] = "updating" /\ stage' = stage
      /\ \E rest \in SUBSET met[g] : met' = [met EXCEPT ![g] = rest]
  BY <1>0, <1>2, OthersStay DEF stage, met
<1> QED
  BY <1>1, <1>3 DEF Promise!Pass, stage, met

LEMMA EnterPromise ==
    ASSUME MInv, NEW g \in Clients, JoinStore(g)
    PROVE  Promise!Enter(g)
<1>0. TypeOK /\ Locals /\ Alone /\ Step(g)
  BY DEF MInv, Step
<1>1. /\ at[g] = "enter" /\ at'[g] = "names"
      /\ members' = members \cup {g} /\ count' = [count EXCEPT ![g] = new[g]]
      /\ stray' = IF g \in terminating THEN stray \cup {g} ELSE stray \ {g}
      /\ UNCHANGED <<known, modes, disturbed, calm, killed>>
  BY <1>0 DEF JoinStore, Goto, registry, history, TypeOK
<1>2. Stage(g) = "busy" /\ Stage(g)' = "busy" /\ Met(g) = {} /\ Met(g)' = {}
  BY <1>1 DEF Stage, Met
<1>3. stage[g] = "busy" /\ stage' = stage /\ met' = met
  BY <1>0, <1>2, OthersStay DEF stage, met
<1>4. g \notin disturbed \cup Vips /\ Limit > 0 => Promise!Cardinality(members) < Limit
  BY <1>0, <1>1, SameCardinality DEF Alone, Reliable, Room
<1>5. new[g] \in Promise!Numbers
  BY <1>0, <1>1, SameCardinality DEF Locals, Promise!Numbers
<1>6. g \in terminating => g \in disturbed
  BY <1>0, <1>1 DEF Locals
<1> QED
  BY <1>1, <1>3, <1>4, <1>5, <1>6 DEF Promise!Enter, stage, met

LEMMA LeavePromise ==
    ASSUME MInv, NEW g \in Clients, PartDelete(g)
    PROVE  \E m \in Clients : Promise!Leave(g, m)
<1>0. TypeOK /\ Locals /\ Step(g)
  BY DEF MInv, Step
<1>1. /\ at[g] = "delete" /\ at'[g] = "update" /\ who[g] \in Clients
      /\ members' = members \ {who[g]} /\ count' = [count EXCEPT ![who[g]] = 0]
      /\ stray' = stray \ {who[g]}
      /\ UNCHANGED <<known, modes, disturbed, calm, killed>>
  BY <1>0 DEF PartDelete, Goto, registry, history, Locals, TypeOK
<1>2. Stage(g) = "busy" /\ Stage(g)' = "busy" /\ Met(g) = {who[g]} /\ Met(g)' = {}
  BY <1>1 DEF Stage, Met
<1>3. /\ stage[g] = "busy" /\ stage' = stage
      /\ met[g] = {who[g]} /\ met' = [met EXCEPT ![g] = {}]
  BY <1>0, <1>2, OthersStay DEF stage, met
<1>4. Promise!Leave(g, who[g])
  BY <1>1, <1>3 DEF Promise!Leave, stage, met
<1> QED
  BY <1>1, <1>4

LEMMA UpdatePromise ==
    ASSUME MInv, NEW g \in Clients, ModeChange(g) \/ Update(g)
    PROVE  Promise!SetModes(g) \/ Promise!Update(g)
<1>0. TypeOK /\ Step(g)
  BY DEF MInv, Step
<1>1. CASE ModeChange(g)
  <2>1. /\ at[g] = "change" /\ at'[g] = "compare" /\ modes' \in SUBSET {"c", "D"}
        /\ UNCHANGED <<known, members, count, disturbed, calm, stray, killed>>
    BY <1>0, <1>1 DEF ModeChange, Goto, registry, history, TypeOK
  <2>2. Stage(g) = "busy" /\ Stage(g)' = "busy" /\ Met(g) = {} /\ Met(g)' = {}
    BY <2>1 DEF Stage, Met
  <2>3. stage[g] = "busy" /\ stage' = stage /\ met' = met
    BY <1>0, <2>2, OthersStay DEF stage, met
  <2> QED
    BY <2>1, <2>3 DEF Promise!SetModes, stage, met
<1>2. CASE Update(g)
  <2>1. /\ at[g] = "update" /\ at'[g] = "range" /\ left'[g] = members
        /\ UNCHANGED <<known, members, count, modes, disturbed, calm, stray, killed>>
    BY <1>0, <1>2 DEF Update, Goto, registry, channel, display, history, TypeOK
  <2>2. /\ stage[g] = "busy" /\ stage' = [stage EXCEPT ![g] = "updating"]
        /\ met' = [met EXCEPT ![g] = members]
    BY <1>0, <2>1, OthersStay DEF stage, met, Stage, Met
  <2> QED
    BY <2>1, <2>2 DEF Promise!Update, stage, met
<1> QED
  BY <1>1, <1>2

LEMMA TellPromise ==
    ASSUME MInv, NEW g \in Clients, Store(g)
    PROVE  \E m \in Clients : Promise!Tell(g, m)
<1>0. TypeOK /\ Locals /\ Alone /\ Step(g)
  BY DEF MInv, Step
<1>1. /\ at[g] = "store" /\ at'[g] = "range" /\ left'[g] = left[g]
      /\ key[g] \in Clients
      /\ members' = members \cup {key[g]} /\ count' = [count EXCEPT ![key[g]] = new[g]]
      /\ stray' = IF key[g] \in members THEN stray ELSE stray \cup {key[g]}
      /\ UNCHANGED <<known, modes, disturbed, calm, killed>>
  BY <1>0 DEF Store, Returns, Goto, registry, history, Locals, Visiting, TypeOK
<1>2. /\ Stage(g) = "updating" /\ Stage(g)' = "updating"
      /\ Met(g) = left[g] \cup {key[g]} /\ Met(g)' = left[g]
  BY <1>1 DEF Stage, Met
<1>3. /\ stage[g] = "updating" /\ stage' = stage /\ key[g] \in met[g]
      /\ \E rest \in SUBSET met[g] : met' = [met EXCEPT ![g] = rest]
  BY <1>0, <1>2, OthersStay DEF stage, met
<1>4. key[g] \notin members => g \in disturbed
  BY <1>0, <1>1 DEF Alone, Reliable, Visited, Visiting
<1>5. new[g] \in Promise!Numbers
  BY <1>0, <1>1, SameCardinality, AnonCountBound DEF Locals, Promise!Numbers
<1>6. Promise!Tell(g, key[g])
  BY <1>1, <1>3, <1>4, <1>5 DEF Promise!Tell, stage, met
<1> QED
  BY <1>1, <1>6

LEMMA ExitPromise ==
    ASSUME MInv, NEW g \in Clients, Exit(g)
    PROVE  Promise!Exit(g)
<1>0. TypeOK /\ Leaving /\ Step(g)
  BY DEF MInv, Step
<1>1. /\ at[g] = "read" /\ g \in known \cap terminating /\ known' = known \ {g}
      /\ disturbed' = disturbed \cup Busy
      /\ UNCHANGED <<members, count, modes, calm, stray, at, who, left, key, killed>>
  BY DEF Exit, channel, locals
<1>2. stage[g] = "idle" /\ stage' = stage /\ met' = met
  BY <1>1 DEF stage, met, Stage, Met
<1>3. g \in members \ stray =>
          /\ g \in killed
          /\ \E h \in Promise!Busy \ {g} : stage[h] = "busy" /\ g \in met[h]
  <2> SUFFICES ASSUME g \in members \ stray
               PROVE  /\ g \in killed
                      /\ \E h \in Promise!Busy \ {g} : stage[h] = "busy" /\ g \in met[h]
    OBVIOUS
  <2>1. PICK h \in Clients : /\ at[h] \in {"leave", "delete"} /\ who[h] = g
                             /\ h = g \/ g \in killed
    BY <1>0, <1>1 DEF Leaving
  <2>2. stage[h] = "busy" /\ met[h] = {g} /\ h # g
    BY <1>1, <2>1 DEF stage, met, Stage, Met
  <2>3. h \in Promise!Busy
    BY <2>1, SamePromise
  <2> QED
    BY <2>1, <2>2, <2>3
<1> QED
  BY <1>1, <1>2, <1>3, SamePromise DEF Promise!Exit, stage, met

LEMMA NextPromise ==
    ASSUME MInv, [Next]_vars
    PROVE  [Promise!Next]_(Promise!vars)
<1>1. ASSUME NEW g \in Clients, Handle(g) PROVE Promise!Next
  BY <1>1, HandlePromise DEF Promise!Next
<1>2. ASSUME NEW g \in Clients, Step(g) PROVE [Promise!Next]_(Promise!vars)
  <2>1. CASE \/ JoinCount(g) \/ JoinNames(g) \/ PartTest(g) \/ ModeAnnounce(g)
             \/ Consider(g) \/ Recount(g) \/ Tell(g) \/ \E m \in Clients : Yield(g, m)
    BY <2>1, StutterPromise DEF Promise!vars, stage, met
  <2>2. CASE PartRefused(g) \/ ModeUnannounced(g) \/ Updated(g)
    BY <2>2, EndPromise DEF Promise!Next
  <2>3. CASE PassOver(g) \/ UpToDate(g) \/ \E m \in Clients : Skip(g, m)
    BY <2>3, PassPromise DEF Promise!Next
  <2>4. CASE JoinStore(g)
    BY <2>4, EnterPromise DEF Promise!Next
  <2>5. CASE PartDelete(g)
    BY <2>5, LeavePromise DEF Promise!Next
  <2>6. CASE ModeChange(g) \/ Update(g)
    BY <2>6, UpdatePromise DEF Promise!Next
  <2>7. CASE Store(g)
    BY <2>7, TellPromise DEF Promise!Next
  <2>8. CASE Exit(g)
    BY <2>8, ExitPromise DEF Promise!Next
  <2> QED
    BY <1>2, <2>1, <2>2, <2>3, <2>4, <2>5, <2>6, <2>7, <2>8 DEF Step
<1>3. ASSUME NEW g \in Clients, Names(g) PROVE UNCHANGED Promise!vars
  BY <1>3 DEF Names, registry, channel, locals, history, Promise!vars, Stage, Met
<1>4. CASE UNCHANGED vars
  BY <1>4 DEF vars, Promise!vars, Stage, Met
<1> QED
  BY <1>1, <1>2, <1>3, <1>4 DEF Next

(***************************************************************************)
(* For any number of clients the channel keeps the promise of module       *)
(* AnonymousChannel: who is let in over the limit, put back, or left       *)
(* behind, and who is left with a wrong number, is so because operations   *)
(* have overlapped (server.go:365, 404-409, 425, 492-528, 636).            *)
(***************************************************************************)
THEOREM PromiseKept == Spec => KeepsPromise
<1>1. MInv /\ [Next]_vars => [Promise!Next]_(Promise!vars)
  BY NextPromise
<1>2. Init => Promise!Init
  BY PromiseInit
<1> QED
  BY <1>1, <1>2, Invariance, PTL DEF Spec, KeepsPromise, Promise!Spec

(***************************************************************************)
(* For any number of clients mode D delays what it should, except for an   *)
(* update that somebody has disturbed (server.go:498).                     *)
(***************************************************************************)
THEOREM DelayKeptCorrect == Spec => DelayKept
<1> DEFINE A == \A m \in members \cap members' : "D" \in modes /\ count'[m] # count[m] =>
                    \/ at[m] = "enter"
                    \/ \E g \in Clients : /\ at[g] = "store" /\ key[g] = m
                                          /\ who[g] \in {NoClient, m} \/ g \in disturbed
<1>1. ASSUME MInv, [Next]_vars PROVE A \/ UNCHANGED vars
  <2> SUFFICES ASSUME NEW m \in members \cap members', "D" \in modes, count'[m] # count[m]
               PROVE  \/ at[m] = "enter"
                      \/ \E g \in Clients : /\ at[g] = "store" /\ key[g] = m
                                            /\ who[g] \in {NoClient, m} \/ g \in disturbed
    OBVIOUS
  <2>0. TypeOK /\ Locals /\ Alone
    BY <1>1 DEF MInv
  <2>1. PICK g \in Clients : JoinStore(g) \/ PartDelete(g) \/ Store(g)
    BY <1>1 DEF Next, Handle, Names, Step, Join, ModeRead, Speak, Part, Kill, Begins,
       JoinCount, JoinNames, PartTest, PartRefused, ModeChange, ModeAnnounce,
       ModeUnannounced, Update, PassOver, Consider, UpToDate, Recount, Tell, Updated, Exit,
       Yield, Skip, Ends, vars, channel
  <2>2. CASE JoinStore(g)
    BY <2>0, <2>2 DEF JoinStore, TypeOK
  <2>3. CASE PartDelete(g)
    BY <2>0, <2>3 DEF PartDelete, TypeOK
  <2>4. CASE Store(g)
    <3>1. key[g] = m /\ at[g] = "store"
      BY <2>0, <2>4 DEF Store, TypeOK
    <3>2. g \notin disturbed => ~Delayed(g)
      BY <2>0, <3>1 DEF Alone, Reliable
    <3> QED
      BY <3>1, <3>2 DEF Delayed
  <2> QED
    BY <2>1, <2>2, <2>3, <2>4
<1>2. MInv /\ [Next]_vars => [A]_vars
  BY <1>1
<1> QED
  BY <1>2, Invariance, PTL DEF Spec, DelayKept

(***************************************************************************)
(* What a client sees.  The invariant behind DisplayFollowsCount: whose    *)
(* operation a join is, that a member has been told of one user at least,  *)
(* and what an operation that nobody has disturbed may rely on.            *)
(***************************************************************************)
Joining ==
    \A g \in Clients :
        /\ at[g] \in {"count", "enter", "names"} => who[g] = g
        /\ at[g] = "enter" => new[g] >= 1

Positive == \A m \in (members \cap known) \ misled : count[m] >= 1

Aware == (members \cap known) \ terminating

\* the client is still to be told that nobody came with it
Double(g) ==
    /\ shown[g] = Others(AnonCount(g)) /\ count[g] = AnonCount(g) + 1
    /\ at[g] = "update" \/ g \in left[g] \/ key[g] = g

Informed(g) ==
    /\ at[g] \in {"count", "enter"} => g \notin members
    /\ at[g] = "enter" => new[g] = AnonCount(g) + 1
    /\ at[g] = "names" /\ g \in members \cap known =>
          count[g] \in {AnonCount(g), AnonCount(g) + 1}
    /\ at[g] = "store" /\ key[g] \in Aware \ misled => shown[key[g]] = Others(new[g])
    /\ at[g] \in Visiting \cup {"update", "range"} /\ who[g] = g /\ g \in Aware \ misled =>
          \/ shown[g] = Others(count[g]) \/ Double(g)
          \/ at[g] = "store" /\ key[g] = g

Unimpeded == \A g \in Busy : g \notin disturbed => Informed(g)

SInv == MInv /\ Joining /\ Positive /\ DisplayFollowsCount /\ Unimpeded

LEMMA AtLeastOne ==
    ASSUME TypeOK, NEW m \in members \cap known
    PROVE  AnonCount(m) >= 1 /\ AnonCount(m) \in Nat
<1>1. IsFiniteSet(members) /\ Cardinality(members) \in Nat
  BY AnonCountBound
<1>2. Cardinality(members) # 0
  BY <1>1, FS_EmptySet
<1> QED
  BY <1>1, <1>2 DEF AnonCount

LEMMA JoiningKept ==
    ASSUME MInv, Joining, NEW g \in Clients, Handle(g) \/ Step(g)
    PROVE  Joining'
<1> USE DEF Begins, Goto, locals, Joining
<1>0. TypeOK
  BY DEF MInv
<1>1. CASE Handle(g)
  BY <1>0, <1>1 DEF Handle, Join, ModeRead, Speak, Part, Kill, TypeOK
<1>2. CASE Step(g)
  <2>1. CASE JoinCount(g)
    <3>1. AnonCount(g) + 1 >= 1
      BY <1>0, AnonCountBound
    <3> QED
      BY <1>0, <2>1, <3>1 DEF JoinCount, TypeOK
  <2>2. CASE JoinStore(g) \/ JoinNames(g) \/ PartTest(g) \/ PartDelete(g)
    BY <1>0, <2>2 DEF JoinStore, JoinNames, PartTest, PartDelete, TypeOK
  <2>3. CASE PartRefused(g) \/ ModeUnannounced(g) \/ Updated(g)
    BY <1>0, <2>3 DEF PartRefused, ModeUnannounced, Updated, Ends, TypeOK
  <2>4. CASE ModeChange(g) \/ ModeAnnounce(g) \/ Update(g) \/ Consider(g) \/ Exit(g)
    BY <1>0, <2>4 DEF ModeChange, ModeAnnounce, Update, Consider, Exit, TypeOK
  <2>5. CASE PassOver(g) \/ UpToDate(g) \/ Store(g)
    BY <1>0, <2>5 DEF PassOver, UpToDate, Store, Returns, TypeOK
  <2>6. CASE Recount(g) \/ Tell(g) \/ \E m \in Clients : Yield(g, m) \/ Skip(g, m)
    BY <1>0, <2>6 DEF Recount, Tell, Yield, Skip, TypeOK
  <2> QED
    BY <1>2, <2>1, <2>2, <2>3, <2>4, <2>5, <2>6 DEF Step
<1> QED
  BY <1>1, <1>2

LEMMA PositiveKept ==
    ASSUME MInv, Joining, Positive, NEW g \in Clients, Handle(g) \/ Step(g)
    PROVE  Positive'
<1> USE DEF registry, channel, display
<1>0. TypeOK /\ Locals /\ Alone
  BY DEF MInv
<1>1. CASE JoinStore(g)
  <2>1. /\ members' = members \cup {g} /\ count' = [count EXCEPT ![g] = new[g]]
        /\ known' = known /\ misled' = misled /\ new[g] >= 1
    BY <1>1 DEF JoinStore, Joining
  <2> QED
    BY <1>0, <2>1 DEF Positive, TypeOK
<1>2. CASE PartDelete(g)
  <2>1. /\ members' = members \ {who[g]} /\ count' = [count EXCEPT ![who[g]] = 0]
        /\ known' = known /\ misled' = misled \ {who[g]}
    BY <1>2 DEF PartDelete
  <2> QED
    BY <1>0, <2>1 DEF Positive, TypeOK
<1>3. CASE Store(g)
  <2>1. /\ at[g] = "store" /\ key[g] \in Clients /\ known' = known
        /\ members' = members \cup {key[g]} /\ count' = [count EXCEPT ![key[g]] = new[g]]
        /\ misled' = IF g \in disturbed THEN misled \cup {key[g]} ELSE misled
    BY <1>0, <1>3 DEF Store, Locals, Visiting
  <2>2. g \notin disturbed => key[g] \in members /\ new[g] = AnonCount(key[g])
    BY <1>0, <2>1 DEF Alone, Reliable, Visited, Visiting
  <2>3. g \notin disturbed /\ key[g] \in known => new[g] >= 1
    BY <1>0, <2>2, AtLeastOne
  <2> QED
    BY <1>0, <2>1, <2>3 DEF Positive, TypeOK
<1>4. CASE ~JoinStore(g) /\ ~PartDelete(g) /\ ~Store(g)
  <2>1. /\ members' = members /\ count' = count /\ known' \subseteq known
        /\ misled \subseteq misled'
    <3>1. CASE Handle(g)
      BY <3>1 DEF Handle, Join, ModeRead, Speak, Part, Kill, Begins
    <3>2. CASE Step(g)
      BY <1>4, <3>2 DEF Step, JoinCount, JoinNames, PartTest, PartRefused, ModeChange,
         ModeAnnounce, ModeUnannounced, Update, PassOver, Consider, UpToDate, Recount, Tell,
         Updated, Exit, Yield, Skip, Ends
    <3> QED
      BY <3>1, <3>2
  <2> QED
    BY <2>1 DEF Positive
<1> QED
  BY <1>1, <1>2, <1>3, <1>4

(***************************************************************************)
(* Nobody's display is disturbed by a step that is not about it.           *)
(***************************************************************************)
Sees(m) ==
    \/ shown[m] = Others(count[m]) \/ m \in misled \/ Entering(m)
    \/ \E g \in Clients : at[g] = "store" /\ key[g] = m

LEMMA QuietSees ==
    ASSUME TypeOK, NEW g \in Clients, Handle(g) \/ Step(g), NEW m \in Clients, Sees(m),
           shown'[m] = shown[m], count'[m] = count[m], m \in misled => m \in misled',
           at[g] = "store" => key[g] # m,
           m = g /\ Entering(m) => Entering(m)'
    PROVE  Sees(m)'
<1>1. m # g /\ Entering(m) => Entering(m)'
  BY Elsewhere DEF Entering
<1>2. \A h \in Clients : at[h] = "store" /\ key[h] = m => at'[h] = "store" /\ key'[h] = m
  BY Elsewhere
<1> QED
  BY <1>1, <1>2 DEF Sees

LEMMA DisplayKept ==
    ASSUME MInv, Joining, DisplayFollowsCount, Unimpeded,
           NEW g \in Clients, Handle(g) \/ Step(g)
    PROVE  DisplayFollowsCount'
<1> USE DEF registry, channel, display
<1>0. TypeOK /\ Locals /\ Alone
  BY DEF MInv
<1> SUFFICES ASSUME NEW m \in Clients, m \in Aware' PROVE Sees(m)'
  BY <1>0, HandleTypes, StepTypes DEF DisplayFollowsCount, Sees, Aware, TypeOK
<1>a. m \in Aware => Sees(m)
  BY DEF DisplayFollowsCount, Sees, Aware
<1>1. CASE JoinStore(g)
  <2>1. /\ at[g] = "enter" /\ at'[g] = "names" /\ who'[g] = g
        /\ members' = members \cup {g} /\ count' = [count EXCEPT ![g] = new[g]]
        /\ UNCHANGED <<known, terminating, shown, misled>>
    BY <1>0, <1>1 DEF JoinStore, Joining, Goto, TypeOK
  <2>2. CASE m = g
    BY <2>1, <2>2 DEF Sees, Entering
  <2>3. CASE m # g
    BY <1>0, <1>a, <2>1, <2>3, QuietSees DEF Aware, TypeOK
  <2> QED
    BY <2>2, <2>3
<1>2. CASE JoinNames(g)
  <2>1. /\ at[g] = "names" /\ at'[g] = "update" /\ who'[g] = g
        /\ \A c \in Clients \ {g} : shown'[c] = shown[c]
        /\ UNCHANGED <<known, terminating, members, count, misled>>
    BY <1>0, <1>2 DEF JoinNames, Joining, Goto, locals, TypeOK
  <2>2. CASE m = g
    BY <2>1, <2>2 DEF Sees, Entering
  <2>3. CASE m # g
    BY <1>0, <1>a, <2>1, <2>3, QuietSees DEF Aware
  <2> QED
    BY <2>2, <2>3
<1>3. CASE PartDelete(g)
  <2>1. /\ at[g] = "delete" /\ who[g] \in Clients
        /\ members' = members \ {who[g]} /\ count' = [count EXCEPT ![who[g]] = 0]
        /\ shown' = [shown EXCEPT ![who[g]] = {}]
        /\ misled' = misled \ {who[g]} /\ UNCHANGED <<known, terminating>>
    BY <1>0, <1>3 DEF PartDelete, Locals
  <2>2. m # who[g] /\ m \in Aware
    BY <2>1 DEF Aware
  <2>3. ~(m = g /\ Entering(m))
    BY <2>1 DEF Entering
  <2> QED
    BY <1>0, <1>a, <2>1, <2>2, <2>3, QuietSees DEF TypeOK
<1>4. CASE Tell(g)
  <2>1. /\ at[g] = "tell" /\ at'[g] = "store" /\ key' = key /\ who' = who
        /\ \A c \in Clients \ {key[g]} : shown'[c] = shown[c]
        /\ UNCHANGED <<known, terminating, members, count, misled>>
    BY <1>0, <1>4 DEF Tell, Goto, locals, TypeOK
  <2>2. CASE m = key[g]
    BY <2>1, <2>2 DEF Sees
  <2>3. CASE m # key[g]
    <3>1. m = g /\ Entering(m) => Entering(m)'
      BY <2>1 DEF Entering
    <3> QED
      BY <1>0, <1>a, <2>1, <2>3, <3>1, QuietSees DEF Aware
  <2> QED
    BY <2>2, <2>3
<1>5. CASE Store(g)
  <2>1. /\ at[g] = "store" /\ at'[g] = "range" /\ key[g] \in Clients /\ who' = who
        /\ members' = members \cup {key[g]} /\ count' = [count EXCEPT ![key[g]] = new[g]]
        /\ misled' = IF g \in disturbed THEN misled \cup {key[g]} ELSE misled
        /\ UNCHANGED <<known, terminating, shown>>
    BY <1>0, <1>5 DEF Store, Returns, Goto, Locals, Visiting, TypeOK
  <2>2. CASE m = key[g] /\ g \in disturbed
    BY <2>1, <2>2 DEF Sees
  <2>3. CASE m = key[g] /\ g \notin disturbed
    <3>1. Visited(g) /\ Informed(g)
      BY <1>0, <2>1, <2>3 DEF Alone, Reliable, Unimpeded, Visiting
    <3>2. m \in Aware
      BY <2>1, <2>3, <3>1 DEF Visited, Visiting, Aware
    <3>3. m \in misled \/ shown[m] = Others(new[g])
      BY <2>1, <2>3, <3>1, <3>2 DEF Informed
    <3>4. count'[m] = new[g] /\ shown'[m] = shown[m] /\ misled' = misled
      BY <1>0, <2>1, <2>3 DEF TypeOK
    <3> QED
      BY <3>3, <3>4 DEF Sees, Others
  <2>4. CASE m # key[g]
    <3>1. m = g /\ Entering(m) => Entering(m)'
      BY <2>1 DEF Entering
    <3> QED
      BY <1>0, <1>a, <2>1, <2>4, <3>1, QuietSees DEF Aware, TypeOK
  <2> QED
    BY <2>2, <2>3, <2>4
<1>6. CASE Updated(g)
  <2>1. /\ at[g] = "range" /\ left[g] = {} /\ key[g] = NoClient /\ at'[g] = "read"
        /\ misled' = IF g \in disturbed THEN misled \cup ({who[g]} \cap members) ELSE misled
        /\ UNCHANGED <<known, terminating, members, count, shown>>
    BY <1>0, <1>6 DEF Updated, Ends, Goto, Locals, Visiting, TypeOK
  <2>2. m \in Aware
    BY <2>1 DEF Aware
  <2>3. CASE m = g /\ who[g] = g /\ g \in disturbed
    BY <2>1, <2>2, <2>3 DEF Sees, Aware
  <2>4. CASE m = g /\ who[g] = g /\ g \notin disturbed
    <3>1. Informed(g)
      BY <2>1, <2>4 DEF Unimpeded
    <3>2. ~Double(g)
      BY <2>1, MembershipAssumption DEF Double
    <3>3. m \in misled \/ shown[m] = Others(count[m])
      BY <2>1, <2>2, <2>4, <3>1, <3>2 DEF Informed
    <3> QED
      BY <2>1, <2>4, <3>3 DEF Sees, Others
  <2>5. CASE m # g \/ who[g] # g
    <3>1. ~(m = g /\ Entering(m))
      BY <2>5 DEF Entering
    <3> QED
      BY <1>0, <1>a, <2>1, <2>2, <3>1, QuietSees
  <2> QED
    BY <2>3, <2>4, <2>5
<1>7. CASE /\ ~JoinStore(g) /\ ~JoinNames(g) /\ ~PartDelete(g)
           /\ ~Tell(g) /\ ~Store(g) /\ ~Updated(g)
  <2>1. /\ members' = members /\ count' = count /\ known' \subseteq known
        /\ terminating \subseteq terminating' /\ misled \subseteq misled' /\ shown' = shown
        /\ at[g] # "store"
    <3>1. CASE Handle(g)
      BY <3>1 DEF Handle, Join, ModeRead, Speak, Part, Kill, Begins
    <3>2. CASE Step(g)
      BY <1>7, <3>2 DEF Step, JoinCount, PartTest, PartRefused, ModeChange,
         ModeAnnounce, ModeUnannounced, Update, PassOver, Consider, UpToDate, Recount,
         Exit, Yield, Skip, Ends
    <3> QED
      BY <3>1, <3>2
  <2>2. Entering(g) => Entering(g)'
    <3>1. CASE Handle(g)
      BY <3>1 DEF Handle, Join, ModeRead, Speak, Part, Kill, Begins, Entering
    <3>2. CASE JoinCount(g) \/ PartTest(g) \/ PartRefused(g) \/ ModeChange(g) \/ ModeAnnounce(g)
               \/ ModeUnannounced(g) \/ Exit(g)
      BY <3>2 DEF JoinCount, PartTest, PartRefused, ModeChange, ModeAnnounce, ModeUnannounced,
         Exit, Entering
    <3>3. CASE Update(g) \/ PassOver(g) \/ Consider(g) \/ UpToDate(g) \/ Recount(g)
      BY <1>0, <3>3 DEF Update, PassOver, Consider, UpToDate, Recount, Returns, Goto, Entering,
         locals, TypeOK
    <3>4. CASE \E c \in Clients : Yield(g, c) \/ Skip(g, c)
      BY <1>0, <3>4 DEF Yield, Skip, Goto, Entering, TypeOK
    <3> QED
      BY <1>7, <3>1, <3>2, <3>3, <3>4 DEF Step
  <2>3. m \in Aware
    BY <2>1 DEF Aware
  <2> QED
    BY <1>0, <1>a, <2>1, <2>2, <2>3, QuietSees
<1> QED
  BY <1>1, <1>2, <1>3, <1>4, <1>5, <1>6, <1>7

(***************************************************************************)
(* What an operation that nobody has disturbed knows stays right.          *)
(***************************************************************************)
LEMMA JoinInformed ==
    ASSUME MInv, Joining, NEW g \in Clients, Informed(g),
           JoinCount(g) \/ JoinStore(g) \/ JoinNames(g)
    PROVE  Informed(g)'
<1> USE DEF Goto, registry, channel, locals
<1>0. TypeOK
  BY DEF MInv
<1>1. CASE JoinCount(g)
  <2>1. /\ at[g] = "count" /\ at'[g] = "enter" /\ new'[g] = AnonCount(g) + 1
        /\ UNCHANGED <<known, members, count, modes>>
    BY <1>0, <1>1 DEF JoinCount, TypeOK
  <2>2. AnonCount(g)' = AnonCount(g)
    BY <2>1, SameCounts
  <2> QED
    BY <2>1, <2>2 DEF Informed, Visiting
<1>2. CASE JoinStore(g)
  <2>1. /\ at[g] = "enter" /\ at'[g] = "names" /\ members' = members \cup {g}
        /\ count'[g] = new[g] /\ UNCHANGED <<known, modes>>
    BY <1>0, <1>2 DEF JoinStore, TypeOK
  <2>2. g \notin members /\ new[g] = AnonCount(g) + 1
    BY <2>1 DEF Informed
  <2>3. Cardinality(members \cup {g}) = Cardinality(members) + 1 /\ Cardinality(members) \in Nat
    BY <1>0, <2>2, AnonCountBound, FS_AddElement
  <2>4. g \in known => count'[g] \in {AnonCount(g)', AnonCount(g)' + 1}
    BY <2>1, <2>2, <2>3 DEF AnonCount
  <2> QED
    BY <2>1, <2>4 DEF Informed, Visiting
<1>3. CASE JoinNames(g)
  <2>1. /\ at[g] = "names" /\ at'[g] = "update"
        /\ UNCHANGED <<known, terminating, members, count, modes, misled>>
        /\ g \in Aware => shown'[g] = Others(AnonCount(g))
    BY <1>0, <1>3 DEF JoinNames, Aware, TypeOK, display
  <2>2. AnonCount(g)' = AnonCount(g)
    BY <2>1, SameCounts
  <2>3. g \in Aware => count[g] \in {AnonCount(g), AnonCount(g) + 1}
    BY <2>1 DEF Informed, Aware
  <2> QED
    BY <2>1, <2>2, <2>3 DEF Informed, Double, Visiting, Aware, Others
<1> QED
  BY <1>1, <1>2, <1>3

\* the JOINs or PARTs of an update show the new number, when they start from the old one
LEMMA AfterTelling ==
    ASSUME NEW before \in Nat, NEW now \in Nat, before >= 1, now >= 1
    PROVE  /\ AfterUpdate(Others(before), before, now) = Others(now)
           /\ before = now + 1 => AfterUpdate(Others(now), before, now) = Others(now)
<1>1. CASE before < now
  <2>1. (1..(before - 1)) \cup (before..(now - 1)) = 1..(now - 1)
    BY <1>1
  <2> QED
    BY <1>1, <2>1 DEF AfterUpdate, Others
<1>2. CASE ~(before < now)
  <2>1. (1..(before - 1)) \ (now..(before - 1)) = 1..(now - 1)
    BY <1>2
  <2>2. (1..(now - 1)) \ (now..(before - 1)) = 1..(now - 1)
    OBVIOUS
  <2> QED
    BY <1>2, <2>1, <2>2 DEF AfterUpdate, Others
<1> QED
  BY <1>1, <1>2

LEMMA TellInformed ==
    ASSUME MInv, Positive, NEW g \in Clients, Reliable(g), Informed(g), Tell(g),
           key[g] \in Aware => Sees(key[g]),
           \A h \in Busy : h = g
    PROVE  Informed(g)'
<1>0. TypeOK /\ Locals
  BY DEF MInv
<1>1. /\ at[g] = "tell" /\ at'[g] = "store" /\ key[g] \in Clients
      /\ shown' = IF key[g] \in terminating THEN shown
                  ELSE [shown EXCEPT ![key[g]] = AfterUpdate(@, old[g], new[g])]
      /\ UNCHANGED <<known, terminating, members, count, modes, misled, who, left, key, new>>
  BY <1>0 DEF Tell, Goto, registry, channel, locals, Locals, Visiting, TypeOK
<1>2. AnonCount(g)' = AnonCount(g)
  BY <1>1, SameCounts
<1>3. key[g] \in members /\ old[g] = count[key[g]] /\ new[g] = AnonCount(key[g])
  BY <1>1 DEF Reliable, Visited, Visiting
<1>4. ASSUME key[g] \in Aware \ misled PROVE shown'[key[g]] = Others(new[g])
  <2>1. old[g] \in Nat /\ new[g] \in Nat /\ old[g] >= 1 /\ new[g] >= 1
    BY <1>0, <1>3, <1>4, AtLeastOne DEF Positive, Aware, TypeOK
  <2>2. \/ shown[key[g]] = Others(old[g])
        \/ shown[key[g]] = Others(new[g]) /\ old[g] = new[g] + 1
    <3>1. ~\E h \in Clients : at[h] = "store" /\ key[h] = key[g]
      BY <1>1
    <3>2. CASE shown[key[g]] = Others(count[key[g]])
      BY <1>3, <3>2
    <3>3. CASE Entering(key[g])
      <4>1. key[g] = g /\ who[g] = g
        BY <1>1, <3>3 DEF Entering
      <4> QED
        BY <1>1, <1>3, <1>4, <4>1 DEF Informed, Double, Visiting
    <3> QED
      BY <1>4, <3>1, <3>2, <3>3 DEF Sees, Aware
  <2>3. AfterUpdate(shown[key[g]], old[g], new[g]) = Others(new[g])
    BY <2>1, <2>2, AfterTelling
  <2> QED
    BY <1>0, <1>1, <1>4, <2>3 DEF Aware, TypeOK
<1>5. ASSUME who[g] = g, g \in Aware \ misled, key[g] # g
      PROVE  (shown[g] = Others(count[g]) \/ Double(g))'
  <2>1. shown'[g] = shown[g]
    BY <1>0, <1>1, <1>5 DEF TypeOK
  <2>2. shown[g] = Others(count[g]) \/ Double(g)
    BY <1>1, <1>5 DEF Informed, Visiting
  <2> QED
    BY <1>1, <1>2, <1>5, <2>1, <2>2 DEF Double, Others
<1> QED
  BY <1>1, <1>4, <1>5 DEF Informed, Aware, Visiting, Others

LEMMA VisitInformed ==
    ASSUME MInv, NEW g \in Clients, Reliable(g), Informed(g),
           \/ Update(g) \/ PassOver(g) \/ Consider(g) \/ UpToDate(g) \/ Recount(g)
           \/ Store(g) \/ \E m \in Clients : Yield(g, m) \/ Skip(g, m)
    PROVE  Informed(g)'
<1> USE DEF Goto, registry, channel, display, locals
<1>0. TypeOK /\ Locals
  BY DEF MInv
<1> DEFINE Mine == who[g] = g /\ g \in Aware \ misled
<1>a. ASSUME at[g] \in Visiting \cup {"update", "range"}, Mine, ~(at[g] = "store" /\ key[g] = g)
      PROVE  shown[g] = Others(count[g]) \/ Double(g)
  BY <1>a DEF Informed
<1>b. ASSUME UNCHANGED <<known, members, modes>>
      PROVE  AnonCount(g)' = AnonCount(g)
  BY <1>b DEF AnonCount
<1>1. CASE Update(g)
  <2>1. /\ at[g] = "update" /\ at'[g] = "range" /\ left'[g] = members
        /\ UNCHANGED <<known, terminating, members, count, modes, misled, shown, who>>
    BY <1>0, <1>1 DEF Update, TypeOK
  <2>2. AnonCount(g)' = AnonCount(g)
    BY <1>b, <2>1
  <2> QED
    BY <1>a, <2>1, <2>2 DEF Informed, Double, Visiting, Aware, Others
<1>2. CASE PassOver(g)
  <2>1. /\ at[g] = "consider" /\ at'[g] = "range" /\ left'[g] = left[g]
        /\ UNCHANGED <<known, terminating, members, count, modes, misled, shown, who>>
        /\ key[g] \notin known \/ key[g] # who[g]
    BY <1>0, <1>2 DEF PassOver, Returns, Delayed, TypeOK
  <2>2. AnonCount(g)' = AnonCount(g)
    BY <1>b, <2>1
  <2>3. Mine => key[g] # g
    BY <2>1 DEF Aware
  <2> QED
    BY <1>a, <2>1, <2>2, <2>3 DEF Informed, Double, Visiting, Aware, Others
<1>3. CASE Consider(g) \/ Recount(g)
  <2>1. /\ at[g] \in {"consider", "recount"} /\ at'[g] \in {"recount", "tell"}
        /\ UNCHANGED <<known, terminating, members, count, modes, misled, shown, who, left, key>>
    BY <1>0, <1>3 DEF Consider, Recount, TypeOK
  <2>2. AnonCount(g)' = AnonCount(g)
    BY <1>b, <2>1
  <2> QED
    BY <1>a, <2>1, <2>2 DEF Informed, Double, Visiting, Aware, Others
<1>4. CASE UpToDate(g)
  <2>1. /\ at[g] = "recount" /\ at'[g] = "range" /\ left'[g] = left[g]
        /\ UNCHANGED <<known, terminating, members, count, modes, misled, shown, who>>
        /\ old[g] = AnonCount(key[g]) /\ old[g] = count[key[g]]
    BY <1>0, <1>4 DEF UpToDate, Returns, Reliable, TypeOK
  <2>2. AnonCount(g)' = AnonCount(g)
    BY <1>b, <2>1
  <2>3. Mine /\ key[g] = g => shown[g] = Others(count[g])
    BY <1>0, <1>a, <2>1, AnonCountBound DEF Double, Visiting
  <2> QED
    BY <1>a, <2>1, <2>2, <2>3 DEF Informed, Double, Visiting, Aware, Others
<1>5. CASE Store(g)
  <2>1. /\ at[g] = "store" /\ at'[g] = "range" /\ left'[g] = left[g] /\ key[g] \in Clients
        /\ members' = members \cup {key[g]} /\ count' = [count EXCEPT ![key[g]] = new[g]]
        /\ UNCHANGED <<known, terminating, modes, shown, who>> /\ misled \subseteq misled'
    BY <1>0, <1>5 DEF Store, Returns, Locals, Visiting, TypeOK
  <2>2. members' = members
    BY <2>1 DEF Reliable, Visited, Visiting
  <2>3. AnonCount(g)' = AnonCount(g)
    BY <1>b, <2>1, <2>2
  <2>4. Mine /\ key[g] = g => shown'[g] = Others(count'[g])
    BY <1>0, <2>1 DEF Informed, TypeOK
  <2>5. Mine /\ key[g] # g => (shown[g] = Others(count[g]) \/ Double(g)) /\ count'[g] = count[g]
    BY <1>0, <1>a, <2>1 DEF Visiting, TypeOK
  <2> QED
    BY <2>1, <2>2, <2>3, <2>4, <2>5 DEF Informed, Double, Visiting, Aware, Others
<1>6. ASSUME NEW m \in Clients, Yield(g, m) PROVE Informed(g)'
  <2>1. /\ at[g] = "range" /\ at'[g] = "consider" /\ left'[g] = left[g] \ {m} /\ key'[g] = m
        /\ key[g] = NoClient
        /\ UNCHANGED <<known, terminating, members, count, modes, misled, shown, who>>
    BY <1>0, <1>6 DEF Yield, Locals, Visiting, TypeOK
  <2>2. AnonCount(g)' = AnonCount(g)
    BY <1>b, <2>1
  <2> QED
    BY <1>a, <2>1, <2>2, MembershipAssumption DEF Informed, Double, Visiting, Aware, Others
<1>7. ASSUME NEW m \in Clients, Skip(g, m) PROVE Informed(g)'
  <2>1. /\ at[g] = "range" /\ left'[g] = left[g] \ {m} /\ m \notin members
        /\ UNCHANGED <<known, terminating, members, count, modes, misled, shown, at, who, key,
                       new>>
    BY <1>0, <1>7 DEF Skip, TypeOK
  <2>2. AnonCount(g)' = AnonCount(g)
    BY <1>b, <2>1
  <2> QED
    BY <1>a, <2>1, <2>2 DEF Informed, Double, Visiting, Aware, Others
<1> QED
  BY <1>1, <1>2, <1>3, <1>4, <1>5, <1>6, <1>7

LEMMA OtherInformed ==
    ASSUME MInv, NEW g \in Clients, \A h \in Busy : h = g,
           g \in Aware => Sees(g),
           \/ Handle(g) \/ PartTest(g) \/ PartDelete(g) \/ ModeChange(g) \/ ModeAnnounce(g)
    PROVE  Informed(g)'
<1> USE DEF Goto, registry, channel, display, locals
<1>0. TypeOK
  BY DEF MInv
<1>1. CASE Handle(g)
  BY <1>0, <1>1, MembershipAssumption
     DEF Handle, Join, ModeRead, Speak, Part, Kill, Begins, Informed, Visiting, TypeOK
<1>2. CASE PartTest(g) \/ ModeChange(g)
  <2>1. at'[g] \in {"delete", "compare"}
    BY <1>0, <1>2 DEF PartTest, ModeChange, TypeOK
  <2> QED
    BY <2>1 DEF Informed, Visiting
<1>3. CASE PartDelete(g)
  <2>1. at'[g] = "update" /\ members' = members \ {who[g]} /\ who' = who
    BY <1>0, <1>3 DEF PartDelete, TypeOK
  <2> QED
    BY <2>1 DEF Informed, Visiting, Aware
<1>4. CASE ModeAnnounce(g)
  <2>1. /\ at[g] = "compare" /\ at'[g] = "update"
        /\ UNCHANGED <<known, terminating, members, count, shown, misled>>
    BY <1>0, <1>4 DEF ModeAnnounce, TypeOK
  <2>2. g \in Aware \ misled => shown[g] = Others(count[g])
    BY <2>1 DEF Sees, Entering
  <2> QED
    BY <2>1, <2>2 DEF Informed, Visiting, Aware, Others
<1> QED
  BY <1>1, <1>2, <1>3, <1>4

LEMMA UnimpededKept ==
    ASSUME SInv, NEW g \in Clients, Handle(g) \/ Step(g)
    PROVE  Unimpeded'
<1> SUFFICES ASSUME NEW h \in Busy', h \notin disturbed'
             PROVE  Informed(h)'
  BY DEF Unimpeded
<1> USE DEF SInv
<1>0. TypeOK /\ Overlap
  BY DEF MInv
<1>1. /\ h = g /\ ~Exit(g) /\ at'[g] # "read"
      /\ at[g] # "read" => g \notin disturbed /\ Reliable(g)
  BY OnlySelf
<1>2. \A m \in Aware : Sees(m)
  BY DEF DisplayFollowsCount, Sees, Aware
<1>3. CASE Handle(g)
  <2>1. at[g] = "read"
    BY <1>3 DEF Handle, Join, ModeRead, Speak, Part, Kill, Begins
  <2>2. ASSUME NEW place \in Places, Begins(g, place) PROVE \A k \in Busy : k = g
    BY <1>0, <1>1, <2>2 DEF Begins, Goto, TypeOK
  <2>3. \A k \in Busy : k = g
    BY <1>3, <2>2 DEF Handle, Join, ModeRead, Speak, Part, Kill, Places
  <2> QED
    BY <1>1, <1>2, <1>3, <2>3, OtherInformed
<1>4. CASE Step(g)
  <2>1. ASSUME Ends(g) PROVE FALSE
    BY <1>0, <1>1, <2>1 DEF Ends, Goto, TypeOK
  <2>2. ~PartRefused(g) /\ ~ModeUnannounced(g) /\ ~Updated(g)
    BY <2>1 DEF PartRefused, ModeUnannounced, Updated
  <2>3. at[g] # "read"
    BY <1>1, <1>4, <2>2 DEF Step, JoinCount, JoinStore, JoinNames, PartTest, PartDelete,
       ModeChange, ModeAnnounce, Update, PassOver, Consider, UpToDate, Recount, Tell, Store,
       Yield, Skip
  <2>4. Reliable(g) /\ Informed(g) /\ \A k \in Busy : k = g
    BY <1>0, <1>1, <2>3 DEF Unimpeded, Overlap
  <2>5. CASE PartTest(g) \/ PartDelete(g) \/ ModeChange(g) \/ ModeAnnounce(g)
    BY <1>1, <1>2, <2>4, <2>5, OtherInformed
  <2>6. CASE JoinCount(g) \/ JoinStore(g) \/ JoinNames(g)
    BY <1>1, <2>4, <2>6, JoinInformed
  <2>7. CASE \/ Update(g) \/ PassOver(g) \/ Consider(g) \/ UpToDate(g) \/ Recount(g)
             \/ Store(g) \/ \E m \in Clients : Yield(g, m) \/ Skip(g, m)
    BY <1>1, <2>4, <2>7, VisitInformed
  <2>8. CASE Tell(g)
    BY <1>1, <1>2, <2>4, <2>8, TellInformed
  <2> QED
    BY <1>1, <1>4, <2>2, <2>5, <2>6, <2>7, <2>8 DEF Step
<1> QED
  BY <1>3, <1>4

LEMMA NamesKept ==
    ASSUME SInv, NEW h \in Clients, Names(h), MInv'
    PROVE  SInv'
<1>0. TypeOK /\ Locals /\ Alone
  BY DEF SInv, MInv
<1>1. /\ h \in members \cap known /\ at[h] = "read"
      /\ shown' = [shown EXCEPT ![h] = Others(AnonCount(h))]
      /\ misled' = IF count[h] # AnonCount(h) THEN misled \cup {h} ELSE misled \ {h}
      /\ UNCHANGED <<known, terminating, members, count, modes, at, who, left, key, old, new,
                     disturbed>>
  BY DEF Names, registry, channel, locals, history
<1>2. \A c : AnonCount(c)' = AnonCount(c)
  BY <1>1 DEF AnonCount
<1>3. Joining'
  BY <1>1 DEF SInv, Joining
<1>4. Positive'
  <2>1. AnonCount(h) >= 1
    BY <1>0, <1>1, AtLeastOne
  <2> QED
    BY <1>0, <1>1, <2>1 DEF SInv, Positive, TypeOK
<1>5. DisplayFollowsCount'
  <2> SUFFICES ASSUME NEW m \in Clients, m \in Aware' PROVE Sees(m)'
    BY <1>0, <1>1 DEF DisplayFollowsCount, Sees, Aware, TypeOK
  <2>1. Sees(m)
    BY <1>1 DEF SInv, DisplayFollowsCount, Sees, Aware
  <2>2. CASE m = h /\ count[h] # AnonCount(h)
    BY <1>1, <2>2 DEF Sees
  <2>3. CASE m = h /\ count[h] = AnonCount(h)
    <3>1. shown'[m] = Others(count'[m])
      BY <1>0, <1>1, <2>3 DEF TypeOK
    <3> QED
      BY <3>1 DEF Sees, Others
  <2>4. CASE m # h
    <3>1. shown'[m] = shown[m] /\ (m \in misled => m \in misled')
      BY <1>0, <1>1, <2>4 DEF TypeOK
    <3> QED
      BY <1>1, <2>1, <3>1 DEF Sees, Entering, Others
  <2> QED
    BY <2>2, <2>3, <2>4
<1>6. Unimpeded'
  <2> SUFFICES ASSUME NEW g \in Busy', g \notin disturbed' PROVE Informed(g)'
    BY DEF Unimpeded
  <2>1. g \in Busy /\ g # h /\ Informed(g) /\ Reliable(g)
    BY <1>0, <1>1 DEF SInv, Unimpeded, Alone
  <2>2. shown'[g] = shown[g] /\ (g \in misled <=> g \in misled')
    BY <1>0, <1>1, <2>1 DEF TypeOK
  <2>3. ASSUME at[g] = "store", key[g] \in (Aware \ misled)'
        PROVE  shown'[key[g]] = Others(new[g])
    <3>1. CASE key[g] = h
      BY <1>0, <1>1, <2>1, <2>3, <3>1 DEF Reliable, TypeOK
    <3>2. CASE key[g] # h
      <4>1. shown'[key[g]] = shown[key[g]] /\ key[g] \in Aware \ misled
        BY <1>0, <1>1, <2>3, <3>2 DEF Aware, TypeOK
      <4> QED
        BY <2>1, <2>3, <4>1 DEF Informed
    <3> QED
      BY <3>1, <3>2
  <2>4. Double(g)' = Double(g)
    BY <1>1, <1>2, <2>2 DEF Double, Others
  <2> QED
    BY <1>1, <1>2, <2>1, <2>2, <2>3, <2>4 DEF Informed, Aware, Visiting, Others
<1> QED
  BY <1>3, <1>4, <1>5, <1>6 DEF SInv

LEMMA SeesInvariance == Spec => []SInv
<1>1. Init => SInv
  <2> SUFFICES ASSUME Init PROVE SInv
    OBVIOUS
  <2>1. MInv
    BY InitInv
  <2>2. TypeOK /\ members = Present /\ \A m \in members \cap known : AnonCount(m) >= 1
    BY <2>1, AtLeastOne DEF MInv, Init
  <2>3. Positive
    BY <2>2, MembershipAssumption DEF Init, Positive
  <2>4. Joining /\ DisplayFollowsCount /\ Unimpeded
    BY DEF Init, Joining, DisplayFollowsCount, Unimpeded
  <2> QED
    BY <2>1, <2>3, <2>4 DEF SInv
<1>2. SInv /\ [Next]_vars => SInv'
  <2> SUFFICES ASSUME SInv, [Next]_vars PROVE SInv'
    OBVIOUS
  <2>0. MInv'
    BY NextInv DEF SInv
  <2>1. ASSUME NEW g \in Clients, Handle(g) \/ Step(g) PROVE SInv'
    BY <2>0, <2>1, JoiningKept, PositiveKept, DisplayKept, UnimpededKept DEF SInv
  <2>2. ASSUME NEW g \in Clients, Names(g) PROVE SInv'
    BY <2>0, <2>2, NamesKept
  <2>3. CASE UNCHANGED vars
    <3>1. \A c : AnonCount(c)' = AnonCount(c)
      BY <2>3 DEF vars, AnonCount
    <3>2. Joining' /\ Positive' /\ DisplayFollowsCount'
      BY <2>3 DEF vars, SInv, Joining, Positive, DisplayFollowsCount, Entering, Others
    <3>3. \A g : Double(g)' = Double(g)
      BY <2>3, <3>1 DEF vars, Double, Others
    <3>4. Unimpeded'
      BY <2>3, <3>1, <3>3 DEF vars, SInv, Unimpeded, Informed, Aware, Visiting, Others
    <3> QED
      BY <2>0, <3>2, <3>4 DEF SInv
  <2> QED
    BY <2>1, <2>2, <2>3 DEF Next
<1> QED
  BY <1>1, <1>2, PTL DEF Spec

(***************************************************************************)
(* For any number of clients what a client sees is what is stored for it,  *)
(* unless NAMES told it otherwise or operations have overlapped            *)
(* (server.go:492-528, 549).                                               *)
(***************************************************************************)
THEOREM DisplayFollowsCountCorrect == Spec => []DisplayFollowsCount
<1>1. SInv => DisplayFollowsCount
  BY DEF SInv
<1> QED
  BY <1>1, SeesInvariance, PTL

=============================================================================
