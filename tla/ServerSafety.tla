---------------------------- MODULE ServerSafety ----------------------------
(***************************************************************************)
(* Proofs of the safety of the server, for every set of clients and        *)
(* channels, every table and every set of messages: no update of a count   *)
(* is lost, mode z spares nobody who was there when it was enforced, and   *)
(* who has gone by its own doing is in no channel.                         *)
(***************************************************************************)
EXTENDS ServerProofs

(***************************************************************************)
(* The operations that are still to be done.  A goroutine that goes on     *)
(* takes away the first of its own, and puts others in its place.          *)
(***************************************************************************)
LEMMA TodoElement ==
    ASSUME NEW o
    PROVE  o \in Todo <=> \E d \in Clients : \E i \in DOMAIN prog[d] : prog[d][i] = o
  BY DEF Todo, ToSet

LEMMA ContinuedElements ==
    ASSUME TypeOK, NEW c \in Clients, prog[c] # <<>>,
           NEW first \in Seq(Operations), Continue(c, first)
    PROVE  /\ \A d \in Clients \ {c} : prog'[d] = prog[d]
           /\ \A i \in DOMAIN first : \E j \in DOMAIN prog'[c] : prog'[c][j] = first[i]
           /\ \A i \in DOMAIN prog[c] :
                 \/ prog[c][i] = Head(prog[c])
                 \/ \E j \in DOMAIN prog'[c] : prog'[c][j] = prog[c][i]
           /\ \A j \in DOMAIN prog'[c] :
                 \/ \E i \in DOMAIN first : prog'[c][j] = first[i]
                 \/ \E i \in DOMAIN prog[c] : i # 1 /\ prog'[c][j] = prog[c][i]
  <1>. DEFINE s == prog[c]
  <1>1. s \in Seq(Operations) /\ s # <<>> /\ Len(s) \in Nat /\ Len(s) >= 1
    BY LenProperties, EmptySeq DEF TypeOK
  <1>2. /\ Tail(s) \in Seq(Operations) /\ Len(Tail(s)) = Len(s) - 1 /\ Head(s) = s[1]
        /\ \A i \in 1..Len(Tail(s)) : Tail(s)[i] = s[i + 1]
    BY <1>1, HeadTailProperties
  <1>3. prog'[c] = first \o Tail(s)
    BY DEF Continue, TypeOK
  <1>4. \A d \in Clients \ {c} : prog'[d] = prog[d]
    BY DEF Continue, TypeOK
  <1>. DEFINE n == Len(first)
              t == Tail(s)
  <1>5. /\ DOMAIN first = 1..n /\ n \in Nat /\ DOMAIN s = 1..Len(s)
        /\ Len(first \o t) = n + Len(t) /\ DOMAIN (first \o t) = 1..(n + Len(t))
        /\ \A i \in 1..(n + Len(t)) : (first \o t)[i] = IF i <= n THEN first[i] ELSE t[i - n]
    BY <1>1, <1>2, ConcatProperties, LenProperties
  <1>. HIDE DEF s, t, n
  <1>6. Len(t) = Len(s) - 1 /\ Head(s) = s[1] /\ \A i \in 1..Len(t) : t[i] = s[i + 1]
    BY <1>2 DEF t
  <1>. DEFINE u == first \o t
  <1>7. /\ DOMAIN u = 1..(n + Len(t))
        /\ \A i \in 1..(n + Len(t)) : u[i] = IF i <= n THEN first[i] ELSE t[i - n]
    BY <1>5
  <1>. HIDE DEF u
  <1>8. \A i \in DOMAIN first : i \in DOMAIN u /\ u[i] = first[i]
    BY <1>1, <1>5, <1>6, <1>7
  <1>9. \A i \in DOMAIN s : s[i] = Head(s) \/ \E j \in DOMAIN u : u[j] = s[i]
    <2>. SUFFICES ASSUME NEW i \in DOMAIN s, i # 1
                  PROVE  (i - 1) + n \in DOMAIN u /\ u[(i - 1) + n] = s[i]
      BY <1>6
    <2>1. i - 1 \in 1..Len(t) /\ (i - 1) + n \in 1..(n + Len(t)) /\ ~((i - 1) + n <= n)
      BY <1>1, <1>5, <1>6
    <2>2. t[i - 1] = s[(i - 1) + 1] /\ (i - 1) + 1 = i /\ ((i - 1) + n) - n = i - 1
      BY <1>1, <1>5, <1>6, <2>1
    <2>. QED  BY <1>7, <2>1, <2>2
  <1>10. \A j \in DOMAIN u : \/ \E i \in DOMAIN first : u[j] = first[i]
                             \/ \E i \in DOMAIN s : i # 1 /\ u[j] = s[i]
    <2>. SUFFICES ASSUME NEW j \in DOMAIN u
                  PROVE  \/ \E i \in DOMAIN first : u[j] = first[i]
                         \/ \E i \in DOMAIN s : i # 1 /\ u[j] = s[i]
      OBVIOUS
    <2>1. CASE j <= n
      <3>1. j \in DOMAIN first /\ u[j] = first[j]
        BY <1>1, <1>5, <1>6, <1>7, <2>1
      <3>. QED  BY <3>1
    <2>2. CASE ~(j <= n)
      <3>1. j - n \in 1..Len(t) /\ (j - n) + 1 \in DOMAIN s /\ (j - n) + 1 # 1
        BY <1>1, <1>5, <1>6, <1>7, <2>2
      <3>2. u[j] = t[j - n] /\ t[j - n] = s[(j - n) + 1]
        BY <1>6, <1>7, <2>2, <3>1
      <3>. QED  BY <3>1, <3>2
    <2>. QED  BY <2>1, <2>2
  <1>11. prog'[c] = u /\ prog[c] = s
    BY <1>3 DEF u, s, t
  <1>. QED  BY <1>4, <1>8, <1>9, <1>10, <1>11

LEMMA ContinueTodo ==
    ASSUME TypeOK, NEW c \in Clients, prog[c] # <<>>,
           NEW first \in Seq(Operations), Continue(c, first)
    PROVE  /\ \A o \in Todo : o \in Todo' \/ o = Head(prog[c])
           /\ \A i \in DOMAIN first : first[i] \in Todo'
           /\ \A o \in Todo' : o \in Todo \/ \E i \in DOMAIN first : first[i] = o
  <1>1. \A o : o \in Todo' <=> \E d \in Clients : \E i \in DOMAIN prog'[d] : prog'[d][i] = o
    BY DEF Todo, ToSet
  <1>2. \A i \in DOMAIN first : first[i] \in Todo'
    BY <1>1, ContinuedElements
  <1>4. ASSUME NEW o \in Todo' PROVE o \in Todo \/ \E i \in DOMAIN first : first[i] = o
    <2>1. PICK d \in Clients : \E i \in DOMAIN prog'[d] : prog'[d][i] = o
      BY <1>1
    <2>2. CASE d = c
      BY <2>1, <2>2, ContinuedElements, TodoElement
    <2>3. CASE d # c
      BY <2>1, <2>3, ContinuedElements, TodoElement
    <2>. QED  BY <2>2, <2>3
  <1>3. ASSUME NEW o \in Todo PROVE o \in Todo' \/ o = Head(prog[c])
    <2>1. PICK d \in Clients : \E i \in DOMAIN prog[d] : prog[d][i] = o
      BY TodoElement
    <2>2. CASE d = c
      BY <1>1, <2>1, <2>2, ContinuedElements
    <2>3. CASE d # c
      BY <1>1, <2>1, <2>3, ContinuedElements
    <2>. QED  BY <2>2, <2>3
  <1>. QED  BY <1>2, <1>3, <1>4

\* a handler begins when its goroutine has nothing to do
LEMMA BeginTodo ==
    ASSUME TypeOK, NEW c \in Clients, prog[c] = <<>>, NEW s, prog' = [prog EXCEPT ![c] = s]
    PROVE  /\ Todo \subseteq Todo'
           /\ \A i \in DOMAIN s : s[i] \in Todo'
           /\ \A o \in Todo' : o \in Todo \/ \E i \in DOMAIN s : s[i] = o
  <1>1. \A o : o \in Todo' <=> \E d \in Clients : \E i \in DOMAIN prog'[d] : prog'[d][i] = o
    BY DEF Todo, ToSet
  <1>2. prog'[c] = s /\ \A d \in Clients \ {c} : prog'[d] = prog[d]
    BY DEF TypeOK
  <1>3. DOMAIN prog[c] = {}
    BY EmptySeq
  <1>. QED  BY <1>1, <1>2, <1>3, TodoElement

LEMMA NothingFirst ==
    <<>> \in Seq(Operations) /\ \A i \in DOMAIN <<>> : <<>>[i].do = "part"
  BY EmptySeq

\* what a goroutine performs next is one of its operations
LEMMA FirstTodo ==
    ASSUME TypeOK, NEW c \in Clients, prog[c] # <<>>
    PROVE  /\ 1 \in DOMAIN prog[c] /\ prog[c][1] = Head(prog[c])
           /\ Head(prog[c]) \in Todo
  <1>1. prog[c] \in Seq(Operations)
    BY DEF TypeOK
  <1>2. Len(prog[c]) \in Nat /\ Len(prog[c]) >= 1 /\ DOMAIN prog[c] = 1..Len(prog[c])
    BY <1>1, LenProperties, EmptySeq
  <1>3. Head(prog[c]) = prog[c][1]
    BY <1>1, HeadTailProperties
  <1>. QED  BY <1>2, <1>3, TodoElement

(***************************************************************************)
(* A channel that does not exist has no members and no modes.  Who has     *)
(* been admitted has been admitted to a channel that exists, and by SSL if *)
(* it was in mode z.                                                       *)
(***************************************************************************)
Existing ==
    /\ \A ch \in Channels : ch \notin channels =>
           Members(ch) = {} /\ \A m \in CHANNEL_MODES : ~HasMode(cmode[ch], m)
    /\ \A o \in Todo : o.do = "enter" =>
           /\ o.ch \in channels
           /\ HasMode(o.was, "z") => o.who \in SSL

(***************************************************************************)
(* updateClientCount stores counts, and leaves who is a member alone.      *)
(***************************************************************************)
LEMMA MembersUpdated ==
    ASSUME TypeOK, NEW ch \in Channels, NEW c,
           NEW stored \in [Clients -> Nat], NEW seen,
           UpdateClientCount(stored, seen, ch, c)
    PROVE  /\ \A m \in Clients : count'[ch][m] # 0 <=> stored[m] # 0
           /\ \A m \in Clients : m \in Updated(stored, ch, c) =>
                  count'[ch][m] = AnonCountIn(stored, ch, m)
           /\ \A other \in Channels \ {ch} : count'[other] = count[other]
  <1>1. count'[ch] = CountsUpdated(stored, ch, c)
    BY DEF UpdateClientCount, TypeOK
  <1>2. \A other \in Channels \ {ch} : count'[other] = count[other]
    BY DEF UpdateClientCount, TypeOK
  <1>3. ASSUME NEW m \in Clients
        PROVE  /\ count'[ch][m] # 0 <=> stored[m] # 0
               /\ m \in Updated(stored, ch, c) => count'[ch][m] = AnonCountIn(stored, ch, m)
    <2>1. CASE m \in Updated(stored, ch, c)
      <3>1. stored[m] # 0 /\ count'[ch][m] = AnonCountIn(stored, ch, m)
        BY <1>1, <2>1 DEF CountsUpdated, Updated
      <3>2. AnonCountIn(stored, ch, m) \in Nat /\ AnonCountIn(stored, ch, m) >= 1
        BY <3>1, AnonCountTyped
      <3>. QED  BY <3>1, <3>2
    <2>2. CASE m \notin Updated(stored, ch, c)
      BY <1>1, <2>2 DEF CountsUpdated
    <2>. QED  BY <2>1, <2>2
  <1>. QED  BY <1>2, <1>3

\* the members of channels after joinChannel and partChannel
LEMMA MembersAfter ==
    ASSUME TypeOK, NEW ch \in Channels, NEW c, NEW who \in Clients, NEW n \in Nat,
           NEW seen, UpdateClientCount([count[ch] EXCEPT ![who] = n], seen, ch, c)
    PROVE  /\ \A m \in Clients \ {who} : m \in Members(ch)' <=> m \in Members(ch)
           /\ who \in Members(ch)' <=> n # 0
           /\ \A other \in Channels \ {ch} : Members(other)' = Members(other)
  <1>. DEFINE stored == [count[ch] EXCEPT ![who] = n]
  <1>1. stored \in [Clients -> Nat] /\ stored[who] = n
    BY DEF TypeOK
  <1>2. \A m \in Clients \ {who} : stored[m] = count[ch][m]
    BY DEF TypeOK
  <1>. HIDE DEF stored
  <1>3. UpdateClientCount(stored, seen, ch, c)
    BY DEF stored
  <1>4. /\ \A m \in Clients : count'[ch][m] # 0 <=> stored[m] # 0
        /\ \A other \in Channels \ {ch} : count'[other] = count[other]
    BY <1>1, <1>3, MembersUpdated
  <1>. QED  BY <1>1, <1>2, <1>4 DEF Members

\* the same when nobody joins or parts
LEMMA MembersSame ==
    ASSUME TypeOK, NEW ch \in Channels, NEW c, NEW seen,
           UpdateClientCount(count[ch], seen, ch, c)
    PROVE  \A any \in Channels : Members(any)' = Members(any)
  <1>1. count[ch] \in [Clients -> Nat]
    BY DEF TypeOK
  <1>2. /\ \A m \in Clients : count'[ch][m] # 0 <=> count[ch][m] # 0
        /\ \A other \in Channels \ {ch} : count'[other] = count[other]
    BY <1>1, MembersUpdated
  <1>3. ASSUME NEW any \in Channels PROVE Members(any)' = Members(any)
    BY <1>2 DEF Members
  <1>. QED  BY <1>3

\* an update concerns one channel
LEMMA UpdateElsewhere ==
    ASSUME TypeOK, NEW ch \in Channels, NEW c, NEW stored, NEW seen,
           UpdateClientCount(stored, seen, ch, c), NEW other \in Channels, other # ch
    PROVE  count'[other] = count[other] /\ shown'[other] = shown[other]
  BY DEF UpdateClientCount, TypeOK

(***************************************************************************)
(* No update of a count is lost: NoLostUpdate is inductive, with the types.*)
(***************************************************************************)
LEMMA UpdateSettles ==
    ASSUME TypeOK, NEW ch \in Channels, NEW c,
           NEW stored \in [Clients -> Nat], NEW seen,
           UpdateClientCount(stored, seen, ch, c), UNCHANGED <<clients, cmode, umode>>,
           c = NoClient \/ ~HasMode(cmode[ch], "D"),
           NEW m \in Clients
    PROVE  ~Stale(ch, m)'
  <1>. SUFFICES ASSUME m \in Members(ch)', m \in clients
                PROVE  count'[ch][m] = AnonCount(ch, m)'
    BY DEF Stale
  <1>1. /\ \A d \in Clients : count'[ch][d] # 0 <=> stored[d] # 0
        /\ m \in Updated(stored, ch, c) => count'[ch][m] = AnonCountIn(stored, ch, m)
    BY MembersUpdated
  <1>2. stored[m] # 0
    BY <1>1 DEF Members
  <1>3. m \in Updated(stored, ch, c)
    BY <1>2 DEF Updated
  <1>4. {d \in Clients : count'[ch][d] # 0} = {d \in Clients : stored[d] # 0}
    BY <1>1
  <1>5. Hidden(ch, m)' <=> Hidden(ch, m)
    BY DEF Hidden
  <1>6. AnonCount(ch, m)' = AnonCountIn(stored, ch, m)
    BY <1>4, <1>5 DEF AnonCount, AnonCountIn
  <1>. QED  BY <1>1, <1>3, <1>6

Covered(ch, m) ==
    Stale(ch, m) /\ ~HasMode(cmode[ch], "D") => \E o \in Todo : Covers(o, ch, m)

\* what the staleness of a count depends on
LEMMA StaleSame ==
    ASSUME NEW ch \in Channels, NEW m \in Clients, count'[ch] = count[ch],
           m \in clients' => m \in clients,
           Hidden(ch, m)' <=> Hidden(ch, m)
    PROVE  Stale(ch, m)' => Stale(ch, m)
  BY DEF Stale, Members, AnonCount, AnonCountIn

\* an update of one channel, that is not delayed or concerns another channel
LEMMA UpdateCovers ==
    ASSUME TypeOK, NoLostUpdate, NEW ch \in Channels, NEW c,
           NEW stored \in [Clients -> Nat], NEW seen,
           UpdateClientCount(stored, seen, ch, c), UNCHANGED <<clients, cmode, umode>>,
           \A o \in Todo : o \in Todo' \/ (\A any \in Channels \ {ch}, m \in Clients :
                                              ~Covers(o, any, m))
    PROVE  NoLostUpdate'
  <1>. SUFFICES ASSUME NEW any \in Channels, NEW m \in Clients
                PROVE  Covered(any, m)'
    BY DEF NoLostUpdate, Covered
  <1>1. CASE any = ch
    BY <1>1, UpdateSettles DEF Covered
  <1>2. CASE any # ch
    <2>1. count'[any] = count[any]
      BY <1>2, MembersUpdated
    <2>2. Hidden(any, m)' <=> Hidden(any, m)
      BY DEF Hidden
    <2>3. Stale(any, m)' => Stale(any, m)
      BY <2>1, <2>2, StaleSame
    <2>4. \A o : Covers(o, any, m)' <=> Covers(o, any, m)
      BY DEF Covers
    <2>. QED  BY <1>2, <2>3, <2>4 DEF Covered, NoLostUpdate
  <1>. QED  BY <1>1, <1>2

\* a step that changes no count and no mode, and drops no operation that covers
LEMMA CalmCovers ==
    ASSUME TypeOK, NoLostUpdate, UNCHANGED <<count, cmode, umode>>, clients' \subseteq clients,
           \A o \in Todo : o \in Todo' \/ (\A any \in Channels, m \in Clients :
                                              ~Covers(o, any, m))
    PROVE  NoLostUpdate'
  <1>. SUFFICES ASSUME NEW any \in Channels, NEW m \in Clients
                PROVE  Covered(any, m)'
    BY DEF NoLostUpdate, Covered
  <1>1. Hidden(any, m)' <=> Hidden(any, m)
    BY DEF Hidden
  <1>2. Stale(any, m)' => Stale(any, m)
    BY <1>1, StaleSame
  <1>3. \A o : Covers(o, any, m)' <=> Covers(o, any, m)
    BY DEF Covers
  <1>. QED  BY <1>2, <1>3 DEF Covered, NoLostUpdate

\* the first operation of a goroutine, if it is of another kind, covers nothing
LEMMA OtherKinds ==
    ASSUME NEW o, o.do \notin {"refresh", "announce"}
    PROVE  \A any \in Channels, m \in Clients : ~Covers(o, any, m)
  BY DEF Covers

LEMMA CalmStepCovers ==
    ASSUME TypeOK, NoLostUpdate, UNCHANGED <<clients, count, cmode, umode>>,
           NEW c \in Clients, prog[c] # <<>>, NEW first \in Seq(Operations),
           Continue(c, first), Head(prog[c]).do \notin {"refresh", "announce"}
    PROVE  NoLostUpdate'
  BY ContinueTodo, OtherKinds, CalmCovers

LEMMA BeginCovers ==
    ASSUME TypeOK, NoLostUpdate, UNCHANGED <<clients, count, cmode, umode>>,
           NEW c \in Clients, prog[c] = <<>>, NEW s, prog' = [prog EXCEPT ![c] = s]
    PROVE  NoLostUpdate'
  BY BeginTodo, CalmCovers

LEMMA ConnectCovers ==
    ASSUME TypeOK, NoLostUpdate, NEW c \in Clients, Connect(c)
    PROVE  NoLostUpdate'
  <1>. SUFFICES ASSUME NEW any \in Channels, NEW m \in Clients
                PROVE  Covered(any, m)'
    BY DEF NoLostUpdate, Covered
  <1>1. UNCHANGED <<count, cmode, prog>> /\ c \notin Members(any)
    BY DEF Connect
  <1>2. CASE m = c
    BY <1>1, <1>2 DEF Covered, Stale, Members
  <1>3. CASE m # c
    <2>1. umode'[m] = umode[m] /\ (m \in clients' <=> m \in clients)
      BY <1>3 DEF Connect, TypeOK
    <2>2. Stale(any, m)' => Stale(any, m)
      BY <1>1, <2>1, StaleSame DEF Hidden
    <2>3. Todo' = Todo /\ \A o : Covers(o, any, m)' <=> Covers(o, any, m)
      BY <1>1 DEF Todo, Covers
    <2>. QED  BY <1>1, <2>2, <2>3 DEF Covered, NoLostUpdate
  <1>. QED  BY <1>2, <1>3

LEMMA ChannelModeCovers ==
    ASSUME TypeOK, NoLostUpdate, NEW c \in Clients, NEW ch \in Channels, ChannelMode(c, ch)
    PROVE  NoLostUpdate'
  <1>0. TypeOK'
    BY TypeNext DEF Next, Handle
  <1>1. /\ prog[c] = <<>> /\ UNCHANGED <<clients, umode, count>>
        /\ \A any \in Channels \ {ch} : cmode'[any] = cmode[any]
        /\ cmode' \in [Channels -> ChannelModes] /\ cmode[ch] \in ChannelModes
    <2>1. PICK modes : cmode' = [cmode EXCEPT ![ch] = modes]
      BY DEF ChannelMode
    <2>. QED  BY <1>0, <2>1 DEF ChannelMode, Chatting, Reading, TypeOK, registry
  <1>2. PICK new : /\ new \in Todo' /\ Todo \subseteq Todo'
                   /\ new.do = "announce" /\ new.ch = ch /\ new.was = cmode[ch]
    <2>. DEFINE o == Announce(ch, c, cmode[ch])
                s == <<Enforce(ch, c), o>>
    <2>1. prog' = [prog EXCEPT ![c] = s]
      BY DEF ChannelMode
    <2>2. 2 \in DOMAIN s /\ s[2] = o
      OBVIOUS
    <2>3. o.do = "announce" /\ o.ch = ch /\ o.was = cmode[ch]
      BY DEF Announce, Operation
    <2>. HIDE DEF s, o
    <2>4. Todo \subseteq Todo' /\ o \in Todo'
      BY <1>1, <2>1, <2>2, BeginTodo
    <2>. QED  BY <2>3, <2>4
  <1>. SUFFICES ASSUME NEW any \in Channels, NEW m \in Clients
                PROVE  Covered(any, m)'
    BY DEF NoLostUpdate, Covered
  <1>4. CASE any # ch
    <2>1. Hidden(any, m)' <=> Hidden(any, m)
      BY <1>1, <1>4 DEF Hidden
    <2>2. Stale(any, m)' => Stale(any, m)
      BY <1>1, <2>1, StaleSame
    <2>3. \A o : Covers(o, any, m)' <=> Covers(o, any, m)
      BY <1>1, <1>4 DEF Covers
    <2>. QED  BY <1>1, <1>2, <1>4, <2>2, <2>3 DEF Covered, NoLostUpdate
  <1>5. CASE any = ch
    <2>. DEFINE same(l) == HasMode(cmode'[ch], l) <=> HasMode(cmode[ch], l)
    <2>1. "c" \in CHANNEL_MODES /\ "D" \in CHANNEL_MODES
      BY DEF CHANNEL_MODES
    <2>2. DOMAIN cmode'[ch] = CHANNEL_MODES
      BY <1>1 DEF ChannelModes
    <2>3. CASE ~same("c") \/ (HasMode(cmode[ch], "D") /\ ~HasMode(cmode'[ch], "D"))
      <3>1. CountAffected(cmode'[ch], new.was)
        BY <1>2, <2>1, <2>2, <2>3 DEF CountAffected, Added, Removed
      <3>2. Covers(new, ch, m)'
        BY <1>2, <3>1 DEF Covers
      <3>. QED  BY <1>2, <1>5, <3>2 DEF Covered
    <2>4. CASE same("c") /\ (HasMode(cmode[ch], "D") => HasMode(cmode'[ch], "D"))
      <3>1. Hidden(ch, m)' <=> Hidden(ch, m)
        BY <1>1, <2>4 DEF Hidden
      <3>2. Stale(ch, m)' => Stale(ch, m)
        BY <1>1, <3>1, StaleSame
      <3>3. CASE HasMode(cmode'[ch], "D")
        BY <1>5, <3>3 DEF Covered
      <3>4. ASSUME ~HasMode(cmode'[ch], "D"), NEW o, Covers(o, ch, m)
            PROVE  Covers(o, ch, m)'
        <4>1. \A was : CountAffected(cmode[ch], was) => CountAffected(cmode'[ch], was)
          BY <1>1, <2>1, <2>2, <2>4, <3>4 DEF CountAffected, Added, Removed, ChannelModes
        <4>. QED  BY <3>4, <4>1 DEF Covers
      <3>5. CASE ~HasMode(cmode'[ch], "D")
        <4>1. ~HasMode(cmode[ch], "D")
          BY <2>4, <3>5
        <4>2. Stale(ch, m)' => \E o \in Todo : Covers(o, ch, m)
          BY <3>2, <4>1 DEF NoLostUpdate
        <4>. QED  BY <1>2, <1>5, <3>4, <3>5, <4>2 DEF Covered
      <3>. QED  BY <3>3, <3>5
    <2>. QED  BY <2>3, <2>4
  <1>. QED  BY <1>4, <1>5

\* a member's own mode c: all of its channels are to be refreshed
LEMMA UserModeCovers ==
    ASSUME TypeOK, NoLostUpdate, Existing, NEW c \in Clients, UserMode(c)
    PROVE  NoLostUpdate'
  <1>1. /\ prog[c] = <<>> /\ UNCHANGED <<clients, count, cmode, channels>>
        /\ \A m \in Clients \ {c} : umode'[m] = umode[m]
    <2>1. PICK modes : umode' = [umode EXCEPT ![c] = modes]
      BY DEF UserMode
    <2>. QED  BY <2>1 DEF UserMode, Chatting, Reading, TypeOK, registry
  <1>2. umode'[c] \in ClientModes /\ umode[c] \in ClientModes
    <2>1. TypeOK'
      BY TypeNext DEF Next, Handle
    <2>. QED  BY <2>1 DEF TypeOK
  <1>3. CASE ~CountAffected(umode'[c], umode[c])
    <2>1. UNCHANGED prog
      BY <1>3 DEF UserMode
    <2>2. HasMode(umode'[c], "c") <=> HasMode(umode[c], "c")
      BY <1>2, <1>3 DEF CountAffected, Added, Removed, ClientModes, CLIENT_MODES
    <2>. SUFFICES ASSUME NEW any \in Channels, NEW m \in Clients
                  PROVE  Covered(any, m)'
      BY DEF NoLostUpdate, Covered
    <2>3. Hidden(any, m)' <=> Hidden(any, m)
      BY <1>1, <2>2 DEF Hidden
    <2>4. Stale(any, m)' => Stale(any, m)
      BY <1>1, <2>3, StaleSame
    <2>5. Todo' = Todo /\ \A o : Covers(o, any, m)' <=> Covers(o, any, m)
      BY <1>1, <2>1 DEF Todo, Covers
    <2>. QED  BY <1>1, <2>4, <2>5 DEF Covered, NoLostUpdate
  <1>4. CASE CountAffected(umode'[c], umode[c])
    <2>1. PICK order \in SetToSeqs(ChannelsOf(c)) :
              prog' = [prog EXCEPT ![c] = [i \in DOMAIN order |-> Refresh(order[i], c)]]
      BY <1>4 DEF UserMode
    <2>. DEFINE s == [i \in DOMAIN order |-> Refresh(order[i], c)]
    <2>2. IsFiniteSet(ChannelsOf(c))
      BY ChannelsAssumption, FS_Subset DEF TypeOK, ChannelsOf
    <2>3. \A ch \in ChannelsOf(c) : \E i \in DOMAIN order : order[i] = ch
      BY <2>2, OrderVisitsAll
    <2>4. \A i \in DOMAIN s : s[i].do = "refresh" /\ s[i].ch = order[i] /\ s[i].who = c
      BY DEF Refresh, Operation
    <2>5. DOMAIN s = DOMAIN order
      OBVIOUS
    <2>. HIDE DEF s
    <2>6. Todo \subseteq Todo' /\ \A i \in DOMAIN s : s[i] \in Todo'
      BY <1>1, <2>1, BeginTodo DEF s
    <2>. SUFFICES ASSUME NEW any \in Channels, NEW m \in Clients
                  PROVE  Covered(any, m)'
      BY DEF NoLostUpdate, Covered
    <2>7. CASE m = c
      <3>1. CASE any \in ChannelsOf(c)
        <4>1. PICK i \in DOMAIN s : s[i].do = "refresh" /\ s[i].ch = any /\ s[i].who = c
          BY <2>3, <2>4, <2>5, <3>1
        <4>2. s[i] \in Todo'
          BY <2>6
        <4>3. PICK o : o \in Todo' /\ o.do = "refresh" /\ o.ch = any /\ o.who = c
          BY <4>1, <4>2
        <4>. QED  BY <2>7, <4>3 DEF Covered, Covers
      <3>2. CASE any \notin ChannelsOf(c)
        <4>1. c \notin Members(any)
          BY <3>2 DEF ChannelsOf, Existing
        <4>. QED  BY <1>1, <2>7, <4>1 DEF Covered, Stale, Members
      <3>. QED  BY <3>1, <3>2
    <2>8. CASE m # c
      <3>1. Hidden(any, m)' <=> Hidden(any, m)
        BY <1>1, <2>8 DEF Hidden
      <3>2. Stale(any, m)' => Stale(any, m)
        BY <1>1, <3>1, StaleSame
      <3>3. \A o : Covers(o, any, m)' <=> Covers(o, any, m)
        BY <1>1 DEF Covers
      <3>. QED  BY <1>1, <2>6, <3>2, <3>3 DEF Covered, NoLostUpdate
    <2>. QED  BY <2>7, <2>8
  <1>. QED  BY <1>3, <1>4

LEMMA JoinCovers ==
    ASSUME TypeOK, NoLostUpdate, NEW c \in Clients, JoinChannel(c)
    PROVE  NoLostUpdate'
  <1>. DEFINE o == Head(prog[c])
              stored == [count[o.ch] EXCEPT ![o.who] = AnonCount(o.ch, o.who) + 1]
              listed == [shown[o.ch] EXCEPT ![o.who] = Others(AnonCountIn(stored, o.ch, o.who))]
              seen == IF o.who \in terminating THEN shown[o.ch] ELSE listed
  <1>1. /\ prog[c] # <<>> /\ o.do = "enter" /\ Continue(c, <<>>)
        /\ UpdateClientCount(stored, seen, o.ch, o.who)
        /\ UNCHANGED <<clients, cmode, umode>>
    BY DEF JoinChannel, At, registry
  <1>2. o.ch \in Channels /\ o.who \in Clients
    BY <1>1, HeadTyped DEF Operations
  <1>3. stored \in [Clients -> Nat]
    BY <1>2, AnonCountTyped DEF AnonCount, TypeOK
  <1>4. \A p \in Todo : p \in Todo' \/ p = o
    BY <1>1, ContinueTodo, EmptySeq
  <1>5. \A any \in Channels, m \in Clients : ~Covers(o, any, m)
    BY <1>1, OtherKinds
  <1>. HIDE DEF o, stored, listed, seen
  <1>. QED  BY <1>1, <1>2, <1>3, <1>4, <1>5, UpdateCovers

LEMMA PartCovers ==
    ASSUME TypeOK, NoLostUpdate, NEW c \in Clients, PartChannel(c)
    PROVE  NoLostUpdate'
  <1>. DEFINE o == Head(prog[c])
              stored == [count[o.ch] EXCEPT ![o.who] = 0]
              seen == [shown[o.ch] EXCEPT ![o.who] = {}]
  <1>1. /\ prog[c] # <<>> /\ o.do = "part" /\ Continue(c, <<>>)
        /\ UpdateClientCount(stored, seen, o.ch, o.who)
        /\ UNCHANGED <<clients, cmode, umode>>
    BY DEF PartChannel, At, registry
  <1>2. o.ch \in Channels /\ o.who \in Clients
    BY <1>1, HeadTyped DEF Operations
  <1>3. stored \in [Clients -> Nat]
    BY <1>2 DEF TypeOK
  <1>4. \A p \in Todo : p \in Todo' \/ p = o
    BY <1>1, ContinueTodo, EmptySeq
  <1>5. \A any \in Channels, m \in Clients : ~Covers(o, any, m)
    BY <1>1, OtherKinds
  <1>. HIDE DEF o, stored, seen
  <1>. QED  BY <1>1, <1>2, <1>3, <1>4, <1>5, UpdateCovers

\* a refresh, or an announcement: what it covered is now up to date
LEMMA RefreshCovers ==
    ASSUME TypeOK, NoLostUpdate, NEW c \in Clients, RefreshCounts(c) \/ AnnounceMode(c)
    PROVE  NoLostUpdate'
  <1>. DEFINE o == Head(prog[c])
  <1>1. /\ prog[c] # <<>> /\ Continue(c, <<>>)
        /\ \/ UpdateClientCount(count[o.ch], shown[o.ch], o.ch, o.who)
           \/ /\ o.do = "announce" /\ ~CountAffected(cmode[o.ch], o.was)
              /\ UNCHANGED <<count, shown>>
        /\ UNCHANGED <<clients, cmode, umode>>
    BY DEF RefreshCounts, AnnounceMode, At, registry
  <1>2. o.ch \in Channels /\ o.who \in Clients
    BY <1>1, HeadTyped DEF Operations
  <1>3. count[o.ch] \in [Clients -> Nat]
    BY <1>2 DEF TypeOK
  <1>4. \A p \in Todo : p \in Todo' \/ p = o
    BY <1>1, ContinueTodo, EmptySeq
  <1>. HIDE DEF o
  <1>5. CASE UpdateClientCount(count[o.ch], shown[o.ch], o.ch, o.who)
    <2>1. \A any \in Channels \ {o.ch}, m \in Clients : ~Covers(o, any, m)
      BY DEF Covers
    <2>. QED  BY <1>1, <1>2, <1>3, <1>4, <1>5, <2>1, UpdateCovers
  <1>6. CASE /\ o.do = "announce" /\ ~CountAffected(cmode[o.ch], o.was)
             /\ UNCHANGED <<count, shown>>
    <2>1. \A any \in Channels, m \in Clients : ~Covers(o, any, m)
      BY <1>6 DEF Covers
    <2>. QED  BY <1>1, <1>4, <1>6, <2>1, CalmCovers
  <1>. QED  BY <1>1, <1>5, <1>6

\* where the members of channels can change, and where their modes can
LEMMA AdmitStep ==
    ASSUME TypeOK, NEW c \in Clients, Admit(c)
    PROVE  \E o, e \in Operations :
               /\ o = Head(prog[c]) /\ o.ch \in Channels /\ o.do = "join" /\ Admitted(o)
               /\ e.do = "enter" /\ e.ch = o.ch /\ e.who = o.who /\ e.was = cmode[o.ch]
               /\ prog[c] # <<>> /\ Continue(c, <<e>>) /\ <<e>> \in Seq(Operations)
               /\ \A i \in DOMAIN <<e>> : <<e>>[i] = e
               /\ channels' = channels \cup {o.ch}
               /\ UNCHANGED <<clients, terminating, umode, cmode, count, late, killed>>
  <1>0. PICK o : o = Head(prog[c])
    OBVIOUS
  <1>1. /\ prog[c] # <<>> /\ o.do = "join" /\ Admitted(o)
        /\ Continue(c, <<Enter(o.ch, o.who, cmode[o.ch])>>)
        /\ channels' = channels \cup {o.ch}
        /\ UNCHANGED <<clients, terminating, umode, cmode, count, late, killed>>
    BY <1>0 DEF Admit, At, registry, histories
  <1>2. o.ch \in Channels /\ o.who \in Clients /\ o \in Operations
    BY <1>0, <1>1, HeadTyped DEF Operations
  <1>. DEFINE e == Enter(o.ch, o.who, cmode[o.ch])
  <1>3. e \in Operations
    BY <1>2, OperationsTyped DEF Keys, TypeOK
  <1>4. e.do = "enter" /\ e.ch = o.ch /\ e.who = o.who /\ e.was = cmode[o.ch]
    BY DEF Enter, Operation
  <1>5. Continue(c, <<e>>)
    BY <1>1
  <1>. HIDE DEF e
  <1>6. <<e>> \in Seq(Operations) /\ \A i \in DOMAIN <<e>> : <<e>>[i] = e
    BY <1>3
  <1>. QED  BY <1>0, <1>1, <1>2, <1>3, <1>4, <1>5, <1>6

LEMMA JoinStep ==
    ASSUME TypeOK, NEW c \in Clients, JoinChannel(c)
    PROVE  \E o \in Operations :
               /\ o = Head(prog[c]) /\ o.ch \in Channels /\ o.who \in Clients
               /\ o.do = "enter" /\ prog[c] # <<>> /\ Continue(c, <<>>)
               /\ UNCHANGED <<clients, terminating, user, umode, channels, cmode, killed>>
               /\ \A m \in Clients \ {o.who} : m \in Members(o.ch)' <=> m \in Members(o.ch)
               /\ o.who \in Members(o.ch)'
               /\ \A other \in Channels \ {o.ch} : Members(other)' = Members(other)
               /\ late \subseteq late'
               /\ HasMode(cmode[o.ch], "z") /\ ~HasMode(o.was, "z") /\ o.who \notin SSL =>
                     <<o.ch, o.who>> \in late'
  <1>0. PICK o : o = Head(prog[c])
    OBVIOUS
  <1>. DEFINE n == AnonCount(o.ch, o.who) + 1
  <1>1. /\ prog[c] # <<>> /\ o.do = "enter" /\ Continue(c, <<>>)
        /\ \E seen : UpdateClientCount([count[o.ch] EXCEPT ![o.who] = n], seen, o.ch, o.who)
        /\ UNCHANGED <<clients, terminating, user, channels, cmode, umode, killed>>
        /\ late \subseteq late'
        /\ HasMode(cmode[o.ch], "z") /\ ~HasMode(o.was, "z") /\ o.who \notin SSL =>
              <<o.ch, o.who>> \in late'
    BY <1>0 DEF JoinChannel, At, registry
  <1>2. o.ch \in Channels /\ o.who \in Clients /\ o \in Operations
    BY <1>0, <1>1, HeadTyped DEF Operations
  <1>3. n \in Nat /\ n # 0
    BY AnonCountTyped DEF AnonCount
  <1>. HIDE DEF n
  <1>4. /\ \A m \in Clients \ {o.who} : m \in Members(o.ch)' <=> m \in Members(o.ch)
        /\ o.who \in Members(o.ch)'
        /\ \A other \in Channels \ {o.ch} : Members(other)' = Members(other)
    BY <1>1, <1>2, <1>3, MembersAfter
  <1>. QED  BY <1>0, <1>1, <1>2, <1>4

LEMMA PartStep ==
    ASSUME TypeOK, NEW c \in Clients, PartChannel(c)
    PROVE  \E o \in Operations :
               /\ o = Head(prog[c]) /\ o.ch \in Channels /\ o.who \in Clients
               /\ o.do = "part" /\ prog[c] # <<>> /\ Continue(c, <<>>)
               /\ UNCHANGED <<clients, terminating, user, umode, channels, cmode, killed>>
               /\ late' = late \ {<<o.ch, o.who>>}
               /\ \A m \in Clients \ {o.who} : m \in Members(o.ch)' <=> m \in Members(o.ch)
               /\ o.who \notin Members(o.ch)'
               /\ \A other \in Channels \ {o.ch} : Members(other)' = Members(other)
  <1>0. PICK o : o = Head(prog[c])
    OBVIOUS
  <1>1. /\ prog[c] # <<>> /\ o.do = "part" /\ Continue(c, <<>>)
        /\ \E seen : UpdateClientCount([count[o.ch] EXCEPT ![o.who] = 0], seen, o.ch, o.who)
        /\ UNCHANGED <<clients, terminating, user, channels, cmode, umode, killed>>
        /\ late' = late \ {<<o.ch, o.who>>}
    BY <1>0 DEF PartChannel, At, registry
  <1>2. o.ch \in Channels /\ o.who \in Clients /\ o \in Operations
    BY <1>0, <1>1, HeadTyped DEF Operations
  <1>3. /\ \A m \in Clients \ {o.who} : m \in Members(o.ch)' <=> m \in Members(o.ch)
        /\ o.who \notin Members(o.ch)'
        /\ \A other \in Channels \ {o.ch} : Members(other)' = Members(other)
    BY <1>1, <1>2, MembersAfter
  <1>. QED  BY <1>0, <1>1, <1>2, <1>3

\* the operations that become several parts, or one, or none
LEMMA EnforceStep ==
    ASSUME TypeOK, NEW c \in Clients, EnforceModes(c)
    PROVE  \E o \in Operations, first \in Seq(Operations) :
               /\ o = Head(prog[c]) /\ o.ch \in Channels /\ o.do = "enforce"
               /\ prog[c] # <<>> /\ Continue(c, first)
               /\ UNCHANGED <<clients, terminating, user, umode, channels, cmode, count,
                              killed>>
               /\ \A ch, m : <<ch, m>> \in late =>
                     <<ch, m>> \in late' \/ (ch = o.ch /\ HasMode(cmode[ch], "z"))
               /\ \A i \in DOMAIN first : first[i].do = "part"
               /\ HasMode(cmode[o.ch], "z") =>
                     \A m \in (Members(o.ch) \cap clients) \ SSL :
                         \E i \in DOMAIN first : first[i] = Part(o.ch, m)
  <1>0. PICK o : o = Head(prog[c])
    OBVIOUS
  <1>. DEFINE plain == IF HasMode(cmode[o.ch], "z")
                       THEN (Members(o.ch) \cap clients) \ SSL ELSE {}
  <1>1. /\ prog[c] # <<>> /\ o.do = "enforce"
        /\ UNCHANGED <<clients, terminating, user, umode, channels, cmode, count, killed>>
        /\ \A ch, m : <<ch, m>> \in late =>
              <<ch, m>> \in late' \/ (ch = o.ch /\ HasMode(cmode[ch], "z"))
    BY <1>0 DEF EnforceModes, At, registry
  <1>2. o.ch \in Channels /\ o \in Operations
    BY <1>0, <1>1, HeadTyped DEF Operations
  <1>3. PICK order \in SetToSeqs(plain) :
            Continue(c, [i \in DOMAIN order |-> Part(o.ch, order[i])])
    BY <1>0 DEF EnforceModes
  <1>4. IsFiniteSet(plain) /\ plain \subseteq Clients
    BY ClientsAssumption, FS_Subset, FS_EmptySet DEF TypeOK
  <1>. HIDE DEF plain
  <1>5. PICK n \in Nat : /\ DOMAIN order = 1..n
                         /\ \A i \in 1..n : order[i] \in plain
                         /\ \A x \in plain : \E i \in 1..n : order[i] = x
    BY <1>4, OrderVisitsAll
  <1>. DEFINE first == [i \in 1..n |-> Part(o.ch, order[i])]
  <1>6. \A i \in 1..n : Part(o.ch, order[i]) \in Operations
    BY <1>2, <1>4, <1>5, OperationsTyped, NoModesTyped DEF Keys
  <1>7. first \in Seq(Operations)
    BY <1>6
  <1>8. Continue(c, first)
    BY <1>3, <1>5
  <1>9. \A i \in DOMAIN first : first[i].do = "part"
    BY DEF Part, Operation
  <1>10. \A m \in plain : \E i \in DOMAIN first : first[i] = Part(o.ch, m)
    BY <1>5
  <1>. HIDE DEF first
  <1>. QED  BY <1>0, <1>1, <1>2, <1>7, <1>8, <1>9, <1>10 DEF plain

LEMMA KillStep ==
    ASSUME TypeOK, NEW c \in Clients, KillClient(c)
    PROVE  \E o \in Operations, first \in Seq(Operations) :
               /\ o = Head(prog[c]) /\ o.who \in Clients /\ o.do = "kill"
               /\ prog[c] # <<>> /\ Continue(c, first)
               /\ terminating' = terminating \cup {o.who}
               /\ killed' = IF o.who # c THEN killed \cup ({o.who} \cap (clients \ terminating))
                            ELSE killed
               /\ UNCHANGED <<clients, user, umode, channels, cmode, count, late>>
               /\ \A i \in DOMAIN first : first[i].do = "part"
               /\ o.who \in clients \ terminating =>
                     \A ch \in ChannelsOf(o.who) :
                         \E i \in DOMAIN first : first[i] = Part(ch, o.who)
  <1>0. PICK o : o = Head(prog[c])
    OBVIOUS
  <1>. DEFINE from == IF o.who \in clients \ terminating THEN ChannelsOf(o.who) ELSE {}
  <1>1. /\ prog[c] # <<>> /\ o.do = "kill" /\ terminating' = terminating \cup {o.who}
        /\ killed' = IF o.who # c THEN killed \cup ({o.who} \cap (clients \ terminating))
                     ELSE killed
        /\ UNCHANGED <<clients, user, umode, channels, cmode, count, late>>
    BY <1>0 DEF KillClient, At
  <1>2. o.who \in Clients /\ o \in Operations
    BY <1>0, <1>1, HeadTyped DEF Operations
  <1>3. PICK order \in SetToSeqs(from) :
            Continue(c, [i \in DOMAIN order |-> Part(order[i], o.who)])
    BY <1>0 DEF KillClient
  <1>4. IsFiniteSet(from) /\ from \subseteq Channels
    BY ChannelsAssumption, FS_Subset, FS_EmptySet DEF TypeOK, ChannelsOf
  <1>. HIDE DEF from
  <1>5. PICK n \in Nat : /\ DOMAIN order = 1..n
                         /\ \A i \in 1..n : order[i] \in from
                         /\ \A x \in from : \E i \in 1..n : order[i] = x
    BY <1>4, OrderVisitsAll
  <1>. DEFINE first == [i \in 1..n |-> Part(order[i], o.who)]
  <1>6. \A i \in 1..n : Part(order[i], o.who) \in Operations
    BY <1>2, <1>4, <1>5, OperationsTyped, NoModesTyped DEF Keys
  <1>7. first \in Seq(Operations)
    BY <1>6
  <1>8. Continue(c, first)
    BY <1>3, <1>5
  <1>9. \A i \in DOMAIN first : first[i].do = "part"
    BY DEF Part, Operation
  <1>10. \A ch \in from : \E i \in DOMAIN first : first[i] = Part(ch, o.who)
    BY <1>5
  <1>. HIDE DEF first
  <1>. QED  BY <1>0, <1>1, <1>2, <1>7, <1>8, <1>9, <1>10 DEF from

LEMMA PartIfBannedStep ==
    ASSUME TypeOK, NEW c \in Clients, PartIfBanned(c)
    PROVE  \E o \in Operations, first \in Seq(Operations) :
               /\ o = Head(prog[c]) /\ o.do = "partbanned"
               /\ prog[c] # <<>> /\ Continue(c, first)
               /\ UNCHANGED <<clients, terminating, umode, channels, cmode, count, histories>>
               /\ \A i \in DOMAIN first : first[i].do = "part"
  <1>0. PICK o : o = Head(prog[c])
    OBVIOUS
  <1>1. /\ prog[c] # <<>> /\ o.do = "partbanned"
        /\ UNCHANGED <<clients, terminating, umode, channels, cmode, count, histories>>
    BY <1>0 DEF PartIfBanned, At, registry
  <1>2. o \in Operations
    BY <1>0, <1>1, HeadTyped
  <1>3. PICK first : /\ Continue(c, first)
                     /\ first = <<>> \/ \E ch \in ChannelsOf(c) : first = <<Part(ch, c)>>
    BY DEF PartIfBanned
  <1>4. first \in Seq(Operations) /\ \A i \in DOMAIN first : first[i].do = "part"
    <2>1. CASE first = <<>>
      BY <2>1, EmptySeq
    <2>2. ASSUME NEW ch \in ChannelsOf(c), first = <<Part(ch, c)>>
          PROVE  first \in Seq(Operations) /\ \A i \in DOMAIN first : first[i].do = "part"
      <3>1. Part(ch, c) \in Operations /\ Part(ch, c).do = "part"
        BY OperationsTyped, NoModesTyped DEF ChannelsOf, TypeOK, Keys, Part, Operation
      <3>. HIDE DEF Part
      <3>. QED  BY <2>2, <3>1
    <2>. QED  BY <1>3, <2>1, <2>2
  <1>. QED  BY <1>0, <1>1, <1>2, <1>3, <1>4

LEMMA OtherSteps ==
    ASSUME TypeOK, [Next]_vars,
           \A c \in Clients : ~JoinChannel(c) /\ ~PartChannel(c)
    PROVE  /\ \A ch \in Channels : Members(ch)' = Members(ch)
           /\ channels \subseteq channels'
  <1>1. CASE UNCHANGED count /\ channels \subseteq channels'
    BY <1>1 DEF Members
  <1>2. ASSUME NEW c \in Clients, NEW ch \in Channels, Privmsg(c, ch)
        PROVE  /\ \A any \in Channels : Members(any)' = Members(any)
               /\ channels \subseteq channels'
    BY <1>2, MembersSame DEF Privmsg
  <1>3. ASSUME NEW c \in Clients, RefreshCounts(c) \/ AnnounceMode(c)
        PROVE  /\ \A any \in Channels : Members(any)' = Members(any)
               /\ channels \subseteq channels'
    <2>. DEFINE o == Head(prog[c])
    <2>1. /\ prog[c] # <<>> /\ UNCHANGED channels
          /\ \/ UpdateClientCount(count[o.ch], shown[o.ch], o.ch, o.who)
             \/ UNCHANGED count
      BY <1>3 DEF RefreshCounts, AnnounceMode, At
    <2>2. o.ch \in Channels
      BY <2>1, HeadTyped DEF Operations
    <2>. HIDE DEF o
    <2>3. CASE UpdateClientCount(count[o.ch], shown[o.ch], o.ch, o.who)
      BY <2>1, <2>2, <2>3, MembersSame
    <2>4. CASE UNCHANGED count
      BY <2>1, <2>4 DEF Members
    <2>. QED  BY <2>1, <2>3, <2>4
  <1>4. ASSUME NEW c \in Clients, Handle(c), \A ch \in Channels : ~Privmsg(c, ch)
        PROVE  UNCHANGED <<count, channels>>
    BY <1>4 DEF Handle, Connect, User, Pass, Identify, Quit, JoinCommand, PartCommand, UserMode,
       Names, Topic, ChannelMode, Kick, Ban, KillCommand
  <1>5. ASSUME NEW c \in Clients,
               \/ Admit(c) \/ JoinRefused(c) \/ PartRefused(c) \/ EnforceModes(c)
               \/ PartIfBanned(c) \/ KillClient(c) \/ Exit(c)
        PROVE  UNCHANGED count /\ channels \subseteq channels'
    BY <1>5 DEF Admit, JoinRefused, PartRefused, EnforceModes, PartIfBanned, KillClient, Exit
  <1>6. CASE (\E b \in bans : BanExpires(b)) \/ UNCHANGED vars
    BY <1>1, <1>6 DEF BanExpires, vars
  <1>. QED
    BY <1>1, <1>2, <1>3, <1>4, <1>5, <1>6 DEF Next, Step

\* only a member changes the modes of a channel
LEMMA ModesStep ==
    ASSUME TypeOK, [Next]_vars, NEW ch \in Channels, cmode'[ch] # cmode[ch]
    PROVE  \E c \in Clients : ChannelMode(c, ch)
  <1>1. ASSUME NEW c \in Clients, NEW other \in Channels, ChannelMode(c, other)
        PROVE  ChannelMode(c, ch)
    BY <1>1 DEF ChannelMode, TypeOK
  <1>2. ASSUME NEW c \in Clients, Handle(c), \A other \in Channels : ~ChannelMode(c, other)
        PROVE  UNCHANGED cmode
    BY <1>2 DEF Handle, Connect, User, Pass, Identify, Quit, JoinCommand, PartCommand, UserMode,
       Names, Topic, Privmsg, Kick, Ban, KillCommand
  <1>3. ASSUME NEW c \in Clients, Step(c) PROVE UNCHANGED cmode
    BY <1>3 DEF Step, Admit, JoinRefused, JoinChannel, PartChannel, PartRefused, RefreshCounts,
       EnforceModes, AnnounceMode, PartIfBanned, KillClient, Exit
  <1>4. CASE (\E b \in bans : BanExpires(b)) \/ UNCHANGED vars
    BY <1>4 DEF BanExpires, vars
  <1>. QED  BY <1>1, <1>2, <1>3, <1>4 DEF Next

(***************************************************************************)
(* What the handlers leave to be done.  A goroutine joins channels, and    *)
(* updates counts, only on behalf of its own client; others it parts and   *)
(* kills.  Where there is a kill, there are only kills and parts.          *)
(***************************************************************************)
Own(o, c) == o.do \in {"join", "enter", "refresh", "announce"} => o.who = c

Ending(o) == o.do \in {"part", "kill"}

Handled(s, c) ==
    \A i \in DOMAIN s : /\ Own(s[i], c) /\ s[i].do # "enter"
                        /\ s[i].do = "kill" => \A j \in DOMAIN s : Ending(s[j])

LEMMA AutoJoinsOwn ==
    ASSUME NEW c, NEW permission
    PROVE  \A i \in DOMAIN AutoJoins(c, permission) :
               AutoJoins(c, permission)[i].do = "join" /\ AutoJoins(c, permission)[i].who = c
  BY DEF AutoJoins, Join, Operation

LEMMA HandlerOperations ==
    ASSUME TypeOK, NEW c \in Clients, Handle(c), ~Connect(c), prog' # prog
    PROVE  \E s : prog' = [prog EXCEPT ![c] = s] /\ Handled(s, c)
  <1>. USE DEF Own, Ending, Handled
  <1>1. CASE User(c)
    <2>. DEFINE s == AutoJoins(c, GlobalPermission(c))
    <2>1. prog' = [prog EXCEPT ![c] = s]
      BY <1>1 DEF User
    <2>2. \A i \in DOMAIN s : s[i].do = "join" /\ s[i].who = c
      BY AutoJoinsOwn
    <2>. HIDE DEF s
    <2>. QED  BY <2>1, <2>2
  <1>2. CASE Pass(c) \/ Quit(c)
    <2>. DEFINE s == <<Kill(c)>>
    <2>1. prog' = [prog EXCEPT ![c] = s]
      BY <1>2 DEF Pass, Quit
    <2>2. DOMAIN s = {1} /\ s[1].do = "kill"
      BY DEF Kill, Operation
    <2>. HIDE DEF s
    <2>. QED  BY <2>1, <2>2
  <1>3. CASE Identify(c)
    <2>1. PICK a \in Accounts :
              prog' = [prog EXCEPT ![c] =
                  (IF Permission[a][ServerChannel] >= PERMISSION_VIP
                   THEN <<Join(ServerChannel, c, Flag)>> ELSE <<>>) \o <<PartBanned(c)>>]
      BY <1>3 DEF Identify
    <2>. DEFINE s == (IF Permission[a][ServerChannel] >= PERMISSION_VIP
                      THEN <<Join(ServerChannel, c, Flag)>> ELSE <<>>) \o <<PartBanned(c)>>
    <2>2. \A i \in DOMAIN s : s[i].do \in {"join", "partbanned"} /\ s[i].who = c
      BY DEF Join, PartBanned, Operation
    <2>3. prog' = [prog EXCEPT ![c] = s]
      BY <2>1
    <2>. HIDE DEF s
    <2>. QED  BY <2>2, <2>3
  <1>4. CASE JoinCommand(c)
    <2>1. PICK j \in JoinCommands : prog' = [prog EXCEPT ![c] =
                                        [i \in 1..Len(j.chans) |-> Join(j.chans[i], c, j.key)]]
      BY <1>4 DEF JoinCommand
    <2>. DEFINE s == [i \in 1..Len(j.chans) |-> Join(j.chans[i], c, j.key)]
    <2>2. \A i \in DOMAIN s : s[i].do = "join" /\ s[i].who = c
      BY DEF Join, Operation
    <2>3. prog' = [prog EXCEPT ![c] = s]
      BY <2>1
    <2>. HIDE DEF s
    <2>. QED  BY <2>2, <2>3
  <1>5. CASE PartCommand(c)
    <2>1. PICK p \in PartCommands : prog' = [prog EXCEPT ![c] =
                                        [i \in 1..Len(p) |-> Part(p[i], c)]]
      BY <1>5 DEF PartCommand
    <2>. DEFINE s == [i \in 1..Len(p) |-> Part(p[i], c)]
    <2>2. \A i \in DOMAIN s : s[i].do = "part"
      BY DEF Part, Operation
    <2>3. prog' = [prog EXCEPT ![c] = s]
      BY <2>1
    <2>. HIDE DEF s
    <2>. QED  BY <2>2, <2>3
  <1>6. CASE UserMode(c)
    <2>1. PICK order : prog' = [prog EXCEPT ![c] = [i \in DOMAIN order |-> Refresh(order[i], c)]]
      BY <1>6 DEF UserMode
    <2>. DEFINE s == [i \in DOMAIN order |-> Refresh(order[i], c)]
    <2>2. \A i \in DOMAIN s : s[i].do = "refresh" /\ s[i].who = c
      BY DEF Refresh, Operation
    <2>3. prog' = [prog EXCEPT ![c] = s]
      BY <2>1
    <2>. HIDE DEF s
    <2>. QED  BY <2>2, <2>3
  <1>7. ASSUME NEW ch \in Channels, ChannelMode(c, ch)
        PROVE  \E s : prog' = [prog EXCEPT ![c] = s] /\ Handled(s, c)
    <2>. DEFINE s == <<Enforce(ch, c), Announce(ch, c, cmode[ch])>>
    <2>1. prog' = [prog EXCEPT ![c] = s]
      BY <1>7 DEF ChannelMode
    <2>2. \A i \in DOMAIN s : s[i].do \in {"enforce", "announce"} /\ s[i].who = c
      BY DEF Enforce, Announce, Operation
    <2>. HIDE DEF s
    <2>. QED  BY <2>1, <2>2
  <1>8. ASSUME NEW ch \in Channels, Kick(c, ch) \/ Ban(c, ch) \/ KillCommand(c, ch)
        PROVE  \E s : prog' = [prog EXCEPT ![c] = s] /\ Handled(s, c)
    <2>1. PICK s : /\ prog' = [prog EXCEPT ![c] = s]
                   /\ \/ \E v : s = <<Part(ch, v)>>
                      \/ \E order : s = [i \in DOMAIN order |-> Part(ch, order[i])]
                      \/ \E order : s = [i \in DOMAIN order |-> Kill(order[i])]
      <3>1. CASE Kick(c, ch)
        BY <3>1 DEF Kick
      <3>2. CASE Ban(c, ch)
        <4>1. PICK order :
                  prog' = [prog EXCEPT ![c] = [i \in DOMAIN order |-> Part(ch, order[i])]]
          BY <3>2 DEF Ban
        <4>. QED  BY <4>1
      <3>3. CASE KillCommand(c, ch)
        <4>1. PICK order : prog' = [prog EXCEPT ![c] = [i \in DOMAIN order |-> Kill(order[i])]]
          BY <3>3 DEF KillCommand
        <4>. QED  BY <4>1
      <3>. QED  BY <1>8, <3>1, <3>2, <3>3
    <2>2. \A v : Part(ch, v).do = "part" /\ Kill(v).do = "kill"
      BY DEF Part, Kill, Operation
    <2>. HIDE DEF Part, Kill
    <2>3. \A i \in DOMAIN s : s[i].do \in {"part", "kill"}
      BY <2>1, <2>2
    <2>. QED  BY <2>1, <2>3
  <1>9. \A ch \in Channels : ~Names(c, ch) /\ ~Privmsg(c, ch) /\ ~Topic(c, ch)
    BY DEF Names, Privmsg, Topic
  <1>. QED  BY <1>1, <1>2, <1>3, <1>4, <1>5, <1>6, <1>7, <1>8, <1>9 DEF Handle

LEMMA ChannelsExist ==
    ASSUME TypeOK, Existing, [Next]_vars, NEW ch \in Channels, ch \notin channels'
    PROVE  Members(ch)' = {} /\ cmode'[ch] = cmode[ch] /\ ch \notin channels
  <1>1. Members(ch)' = {} /\ ch \notin channels
    <2>1. ASSUME NEW c \in Clients, JoinChannel(c) PROVE Members(ch)' = {} /\ ch \notin channels
      <3>1. PICK o : /\ o.do = "enter" /\ o = Head(prog[c]) /\ prog[c] # <<>>
                     /\ UNCHANGED channels
                     /\ \A other \in Channels \ {o.ch} : Members(other)' = Members(other)
        BY <2>1, JoinStep
      <3>2. o.ch \in channels
        BY <3>1, FirstTodo DEF Existing
      <3>. QED  BY <3>1, <3>2 DEF Existing
    <2>2. ASSUME NEW c \in Clients, PartChannel(c) PROVE Members(ch)' = {} /\ ch \notin channels
      <3>1. PICK o : /\ o.who \notin Members(o.ch)' /\ UNCHANGED channels
                     /\ \A m \in Clients \ {o.who} : m \in Members(o.ch)' <=> m \in Members(o.ch)
                     /\ \A other \in Channels \ {o.ch} : Members(other)' = Members(other)
        BY <2>2, PartStep
      <3>. QED  BY <3>1 DEF Existing, Members
    <2>3. CASE \A c \in Clients : ~JoinChannel(c) /\ ~PartChannel(c)
      BY <2>3, OtherSteps DEF Existing
    <2>. QED  BY <2>1, <2>2, <2>3
  <1>2. cmode'[ch] = cmode[ch]
    <2>. SUFFICES ASSUME NEW c \in Clients, ChannelMode(c, ch) PROVE FALSE
      BY ModesStep
    <2>. QED  BY <1>1 DEF ChannelMode, Existing
  <1>. QED  BY <1>1, <1>2

\* only Admit makes an operation that stores a client
LEMMA NobodyElseAdmits ==
    ASSUME TypeOK, [Next]_vars, \A c \in Clients : ~Admit(c)
    PROVE  \A o \in Todo' : o \in Todo \/ o.do # "enter"
  <1>1. CASE UNCHANGED prog
    BY <1>1 DEF Todo
  <1>2. ASSUME NEW c \in Clients, Handle(c), prog' # prog
        PROVE  \A o \in Todo' : o \in Todo \/ o.do # "enter"
    <2>1. ~Connect(c)
      BY <1>2 DEF Connect
    <2>2. PICK s : prog' = [prog EXCEPT ![c] = s] /\ Handled(s, c)
      BY <1>2, <2>1, HandlerOperations
    <2>3. prog[c] = <<>>
      BY <1>2, <2>1 DEF Handle, User, Pass, Identify, Quit, JoinCommand, PartCommand, UserMode,
         Names, Privmsg, Topic, ChannelMode, Kick, Ban, KillCommand, Chatting, Reading
    <2>4. \A o \in Todo' : o \in Todo \/ \E i \in DOMAIN s : s[i] = o
      BY <2>2, <2>3, BeginTodo
    <2>5. \A i \in DOMAIN s : s[i].do # "enter"
      BY <2>2 DEF Handled
    <2>. QED  BY <2>4, <2>5
  <1>3. ASSUME NEW c \in Clients, Step(c), ~Exit(c), ~Admit(c)
        PROVE  \A o \in Todo' : o \in Todo \/ o.do # "enter"
    <2>1. prog[c] # <<>>
      BY <1>3 DEF Step, At, JoinRefused, JoinChannel, PartChannel, PartRefused, RefreshCounts,
         EnforceModes, AnnounceMode, PartIfBanned, KillClient
    <2>2. PICK first \in Seq(Operations) :
              Continue(c, first) /\ \A i \in DOMAIN first : first[i].do = "part"
      BY <1>3, EnforceStep, PartIfBannedStep, KillStep, NothingFirst
         DEF Step, JoinRefused, JoinChannel, PartChannel, PartRefused, RefreshCounts,
             AnnounceMode
    <2>. QED  BY <2>1, <2>2, ContinueTodo
  <1>. QED  BY <1>1, <1>2, <1>3 DEF Next, Step, Exit, BanExpires, vars

LEMMA AdmittedExist ==
    ASSUME TypeOK, Existing, [Next]_vars, NEW o \in Todo', o.do = "enter"
    PROVE  o.ch \in channels' /\ (HasMode(o.was, "z") => o.who \in SSL)
  <1>0. channels \subseteq channels'
    <2>1. ASSUME NEW c \in Clients, JoinChannel(c) \/ PartChannel(c)
          PROVE  UNCHANGED channels
      BY <2>1 DEF JoinChannel, PartChannel
    <2>. QED  BY <2>1, OtherSteps
  <1>1. CASE o \in Todo
    BY <1>0, <1>1 DEF Existing
  <1>2. CASE o \notin Todo
    <2>1. PICK c \in Clients : Admit(c)
      BY <1>2, NobodyElseAdmits
    <2>2. PICK j, e \in Operations :
              /\ j.ch \in Channels /\ Admitted(j)
              /\ e.do = "enter" /\ e.ch = j.ch /\ e.who = j.who /\ e.was = cmode[j.ch]
              /\ prog[c] # <<>> /\ Continue(c, <<e>>) /\ <<e>> \in Seq(Operations)
              /\ \A i \in DOMAIN <<e>> : <<e>>[i] = e
              /\ channels' = channels \cup {j.ch}
      BY <2>1, AdmitStep
    <2>3. o = e
      BY <1>2, <2>2, ContinueTodo
    <2>4. "z" \in CHANNEL_MODES
      BY DEF CHANNEL_MODES
    <2>5. HasMode(cmode[j.ch], "z") => j.who \in SSL
      BY <2>2, <2>4 DEF Existing, Admitted, CanJoin
    <2>. QED  BY <2>2, <2>3, <2>5
  <1>. QED  BY <1>1, <1>2

LEMMA ExistingNext == TypeOK /\ Existing /\ [Next]_vars => Existing'
  <1>. SUFFICES ASSUME TypeOK, Existing, [Next]_vars PROVE Existing'
    OBVIOUS
  <1>1. ASSUME NEW ch \in Channels, ch \notin channels'
        PROVE  Members(ch)' = {} /\ \A m \in CHANNEL_MODES : ~HasMode(cmode'[ch], m)
    BY <1>1, ChannelsExist DEF Existing
  <1>2. ASSUME NEW o \in Todo', o.do = "enter"
        PROVE  o.ch \in channels' /\ (HasMode(o.was, "z") => o.who \in SSL)
    BY <1>2, AdmittedExist
  <1>. QED  BY <1>1, <1>2 DEF Existing

LEMMA NoLostUpdateNext == TypeOK /\ Existing /\ NoLostUpdate /\ [Next]_vars => NoLostUpdate'
  <1>. SUFFICES ASSUME TypeOK, Existing, NoLostUpdate, [Next]_vars PROVE NoLostUpdate'
    OBVIOUS
  <1>. USE DEF registry
  <1>1. ASSUME NEW c \in Clients,
               \/ User(c) \/ Pass(c) \/ Identify(c) \/ JoinCommand(c) \/ PartCommand(c) \/ Quit(c)
               \/ \E ch \in Channels : Kick(c, ch) \/ Ban(c, ch) \/ KillCommand(c, ch)
        PROVE  NoLostUpdate'
    <2>1. UNCHANGED <<clients, count, cmode, umode>> /\ prog[c] = <<>>
      BY <1>1 DEF User, Pass, Identify, JoinCommand, PartCommand, Quit, Kick, Ban, KillCommand,
         Chatting, Reading
    <2>2. CASE UNCHANGED prog
      BY <2>1, <2>2, CalmCovers DEF Todo
    <2>3. CASE \E s : prog' = [prog EXCEPT ![c] = s]
      BY <2>1, <2>3, BeginCovers
    <2>. QED
      BY <1>1, <2>2, <2>3 DEF User, Pass, Identify, JoinCommand, PartCommand, Quit, Kick, Ban,
         KillCommand
  <1>2. ASSUME NEW c \in Clients, NEW ch \in Channels, Names(c, ch) \/ Topic(c, ch)
        PROVE  NoLostUpdate'
    BY <1>2, CalmCovers DEF Names, Topic, Todo
  <1>3. ASSUME NEW c \in Clients, NEW ch \in Channels, Privmsg(c, ch)
        PROVE  NoLostUpdate'
    <2>1. UpdateClientCount(count[ch], shown[ch], ch, NoClient) /\ Todo' = Todo
          /\ UNCHANGED <<clients, cmode, umode>>
      BY <1>3 DEF Privmsg, Todo
    <2>2. count[ch] \in [Clients -> Nat]
      BY DEF TypeOK
    <2>. QED  BY <2>1, <2>2, UpdateCovers
  <1>4. ASSUME NEW c \in Clients, Admit(c) \/ JoinRefused(c) \/ PartRefused(c)
                                  \/ EnforceModes(c) \/ PartIfBanned(c) \/ KillClient(c)
        PROVE  NoLostUpdate'
    <2>1. /\ UNCHANGED <<clients, count, cmode, umode>> /\ prog[c] # <<>>
          /\ Head(prog[c]).do \notin {"refresh", "announce"}
      BY <1>4 DEF Admit, JoinRefused, PartRefused, EnforceModes, PartIfBanned, KillClient, At
    <2>2. PICK first \in Seq(Operations) : Continue(c, first)
      BY <1>4, AdmitStep, EnforceStep, KillStep, PartIfBannedStep, EmptySeq
         DEF JoinRefused, PartRefused
    <2>. QED  BY <2>1, <2>2, CalmStepCovers
  <1>5. ASSUME NEW c \in Clients, Exit(c) PROVE NoLostUpdate'
    BY <1>5, CalmCovers DEF Exit, Todo
  <1>6. ASSUME NEW b \in bans, BanExpires(b) PROVE NoLostUpdate'
    BY <1>6, CalmCovers DEF BanExpires, Todo
  <1>7. CASE UNCHANGED vars
    BY <1>7, CalmCovers DEF vars, Todo
  <1>. QED
    BY <1>1, <1>2, <1>3, <1>4, <1>5, <1>6, <1>7, ConnectCovers, ChannelModeCovers,
       UserModeCovers, JoinCovers, PartCovers, RefreshCovers DEF Next, Handle, Step

(***************************************************************************)
(* A handler adds to the operations that are to be done.                   *)
(***************************************************************************)
LEMMA ModeBegins ==
    ASSUME TypeOK, NEW c \in Clients, NEW ch \in Channels, ChannelMode(c, ch)
    PROVE  \E o \in Todo' : o.do = "enforce" /\ o.ch = ch
  <1>. DEFINE o == Enforce(ch, c)
              s == <<o, Announce(ch, c, cmode[ch])>>
  <1>1. prog[c] = <<>> /\ prog' = [prog EXCEPT ![c] = s]
    BY DEF ChannelMode, Chatting, Reading
  <1>2. 1 \in DOMAIN s /\ s[1] = o
    OBVIOUS
  <1>3. o.do = "enforce" /\ o.ch = ch
    BY DEF Enforce, Operation
  <1>. HIDE DEF o, s
  <1>4. o \in Todo'
    BY <1>1, <1>2, BeginTodo
  <1>. QED  BY <1>3, <1>4

LEMMA BeginStep ==
    ASSUME TypeOK, NEW c \in Clients, Handle(c)
    PROVE  /\ Todo \subseteq Todo'
           /\ \A ch \in Channels : ChannelMode(c, ch) =>
                  \E o \in Todo' : o.do = "enforce" /\ o.ch = ch
  <1>. USE DEF registry
  <1>1. CASE UNCHANGED prog
    <2>1. Todo' = Todo
      BY <1>1 DEF Todo
    <2>2. ASSUME NEW ch \in Channels, ChannelMode(c, ch)
          PROVE  \E o \in Todo' : o.do = "enforce" /\ o.ch = ch
      BY <2>2, ModeBegins
    <2>. QED  BY <2>1, <2>2
  <1>2. CASE prog[c] = <<>> /\ \E s : prog' = [prog EXCEPT ![c] = s]
    <2>1. Todo \subseteq Todo'
      BY <1>2, BeginTodo
    <2>. QED  BY <2>1, ModeBegins
  <1>. QED
    BY <1>1, <1>2 DEF Handle, Connect, User, Pass, Identify, Quit, JoinCommand, PartCommand,
       UserMode, Names, Privmsg, Topic, ChannelMode, Kick, Ban, KillCommand, Chatting, Reading

(***************************************************************************)
(* Mode z: PlainIsLeaving is inductive, with the types and Existing.       *)
(***************************************************************************)
Removes(o, ch, m) == o.ch = ch /\ (o.do = "enforce" \/ (o.do = "part" /\ o.who = m))

Leaving(ch, m) == <<ch, m>> \in late \/ \E o \in Todo : Removes(o, ch, m)

LEMMA PlainCalm ==
    ASSUME PlainIsLeaving, NEW ch \in Channels, NEW m \in Clients,
           HasMode(cmode[ch], "z"), m \in (Members(ch) \cap clients) \ SSL,
           \A o \in Todo : o \in Todo' \/ ~Removes(o, ch, m),
           <<ch, m>> \in late => <<ch, m>> \in late'
    PROVE  Leaving(ch, m)'
  BY DEF PlainIsLeaving, Removes, Leaving

LEMMA PlainIsLeavingNext ==
    TypeOK /\ Existing /\ PlainIsLeaving /\ [Next]_vars => PlainIsLeaving'
  <1>. SUFFICES ASSUME TypeOK, Existing, PlainIsLeaving, [Next]_vars,
                       NEW ch \in Channels, NEW m \in Clients, HasMode(cmode'[ch], "z"),
                       m \in (Members(ch)' \cap clients') \ SSL
                PROVE  Leaving(ch, m)'
    BY DEF PlainIsLeaving, Leaving, Removes, Members
  <1>. USE DEF registry, histories
  <1>1. ASSUME NEW c \in Clients, JoinChannel(c)
        PROVE  Leaving(ch, m)'
    <2>1. PICK o \in Operations :
              /\ o = Head(prog[c]) /\ o.ch \in Channels /\ o.who \in Clients
              /\ o.do = "enter" /\ prog[c] # <<>> /\ Continue(c, <<>>)
              /\ UNCHANGED <<clients, cmode>>
              /\ \A d \in Clients \ {o.who} : d \in Members(o.ch)' <=> d \in Members(o.ch)
              /\ \A other \in Channels \ {o.ch} : Members(other)' = Members(other)
              /\ late \subseteq late'
              /\ HasMode(cmode[o.ch], "z") /\ ~HasMode(o.was, "z") /\ o.who \notin SSL =>
                    <<o.ch, o.who>> \in late'
      BY <1>1, JoinStep
    <2>2. CASE ch = o.ch /\ m = o.who
      <3>1. ~HasMode(o.was, "z")
        BY <2>1, <2>2, FirstTodo DEF Existing
      <3>. QED  BY <2>1, <2>2, <3>1 DEF Leaving
    <2>3. CASE ~(ch = o.ch /\ m = o.who)
      <3>1. m \in Members(ch)
        BY <2>1, <2>3
      <3>2. \A p \in Todo : p \in Todo' \/ p = o
        BY <2>1, ContinueTodo, EmptySeq
      <3>. QED  BY <2>1, <3>1, <3>2, PlainCalm DEF Removes
    <2>. QED  BY <2>2, <2>3
  <1>2. ASSUME NEW c \in Clients, PartChannel(c)
        PROVE  Leaving(ch, m)'
    <2>1. PICK o \in Operations :
              /\ o = Head(prog[c]) /\ o.ch \in Channels /\ o.who \in Clients
              /\ o.do = "part" /\ prog[c] # <<>> /\ Continue(c, <<>>)
              /\ UNCHANGED <<clients, cmode>>
              /\ \A d \in Clients \ {o.who} : d \in Members(o.ch)' <=> d \in Members(o.ch)
              /\ o.who \notin Members(o.ch)' /\ late' = late \ {<<o.ch, o.who>>}
              /\ \A other \in Channels \ {o.ch} : Members(other)' = Members(other)
      BY <1>2, PartStep
    <2>2. m \in Members(ch) /\ ~Removes(o, ch, m)
      BY <2>1 DEF Removes
    <2>3. \A p \in Todo : p \in Todo' \/ p = o
      BY <2>1, ContinueTodo, EmptySeq
    <2>4. <<ch, m>> # <<o.ch, o.who>>
      BY <2>1
    <2>. QED  BY <2>1, <2>2, <2>3, <2>4, PlainCalm
  <1>3. CASE \A c \in Clients : ~JoinChannel(c) /\ ~PartChannel(c)
    <2>1. m \in Members(ch)
      BY <1>3, OtherSteps
    <2>2. ASSUME NEW c \in Clients, Handle(c)
          PROVE  Leaving(ch, m)'
      <3>1. Todo \subseteq Todo'
        BY <2>2, BeginStep
      <3>2. CASE \E any \in Channels : ChannelMode(c, any) /\ cmode'[ch] # cmode[ch]
        <4>1. ChannelMode(c, ch)
          BY <3>2 DEF ChannelMode, TypeOK
        <4>. QED  BY <2>2, <4>1, BeginStep DEF Removes, Leaving
      <3>3. CASE cmode'[ch] = cmode[ch]
        <4>1. m \in clients /\ late' = late
          BY <2>1, <2>2 DEF Handle, Connect, User, Pass, Identify, Quit, JoinCommand,
             PartCommand, UserMode, Names, Privmsg, Topic, ChannelMode, Kick, Ban, KillCommand
        <4>. QED  BY <2>1, <3>1, <3>3, <4>1, PlainCalm
      <3>. QED
        BY <2>2, <3>2, <3>3 DEF Handle, Connect, User, Pass, Identify, Quit, JoinCommand,
           PartCommand, UserMode, Names, Privmsg, Topic, Kick, Ban, KillCommand
    <2>3. ASSUME NEW c \in Clients,
                 Admit(c) \/ JoinRefused(c) \/ RefreshCounts(c) \/ AnnounceMode(c)
                 \/ PartIfBanned(c) \/ KillClient(c)
          PROVE  Leaving(ch, m)'
      <3>1. /\ UNCHANGED <<clients, cmode, late>> /\ prog[c] # <<>>
            /\ Head(prog[c]).do \notin {"part", "enforce"}
        BY <2>3 DEF Admit, JoinRefused, RefreshCounts, AnnounceMode, PartIfBanned, KillClient, At
      <3>2. PICK first \in Seq(Operations) : Continue(c, first)
        BY <2>3, AdmitStep, KillStep, PartIfBannedStep, EmptySeq
           DEF JoinRefused, RefreshCounts, AnnounceMode
      <3>3. \A p \in Todo : p \in Todo' \/ p = Head(prog[c])
        BY <3>1, <3>2, ContinueTodo
      <3>. QED  BY <2>1, <3>1, <3>3, PlainCalm DEF Removes
    <2>4. ASSUME NEW c \in Clients, PartRefused(c)
          PROVE  Leaving(ch, m)'
      <3>1. /\ UNCHANGED <<clients, cmode, late>> /\ prog[c] # <<>> /\ Continue(c, <<>>)
            /\ Head(prog[c]).do = "part"
            /\ Head(prog[c]).who \notin clients \cap Members(Head(prog[c]).ch)
        BY <2>4 DEF PartRefused, At
      <3>2. ~Removes(Head(prog[c]), ch, m)
        BY <2>1, <3>1 DEF Removes
      <3>3. \A p \in Todo : p \in Todo' \/ p = Head(prog[c])
        BY <3>1, ContinueTodo, EmptySeq
      <3>. QED  BY <2>1, <3>1, <3>2, <3>3, PlainCalm
    <2>5. ASSUME NEW c \in Clients, EnforceModes(c)
          PROVE  Leaving(ch, m)'
      <3>1. PICK o \in Operations, first \in Seq(Operations) :
               /\ o = Head(prog[c]) /\ o.ch \in Channels /\ o.do = "enforce"
               /\ prog[c] # <<>> /\ Continue(c, first)
               /\ UNCHANGED <<clients, cmode>>
               /\ \A any, d : <<any, d>> \in late =>
                     <<any, d>> \in late' \/ (any = o.ch /\ HasMode(cmode[any], "z"))
               /\ HasMode(cmode[o.ch], "z") =>
                     \A d \in (Members(o.ch) \cap clients) \ SSL :
                         \E i \in DOMAIN first : first[i] = Part(o.ch, d)
        BY <2>5, EnforceStep
      <3>2. /\ \A p \in Todo : p \in Todo' \/ p = o
            /\ \A i \in DOMAIN first : first[i] \in Todo'
        BY <3>1, ContinueTodo
      <3>3. CASE o.ch = ch
        <4>1. Part(ch, m) \in Todo'
          BY <2>1, <3>1, <3>2, <3>3
        <4>. QED  BY <4>1 DEF Leaving, Removes, Part, Operation
      <3>4. CASE o.ch # ch
        BY <2>1, <3>1, <3>2, <3>4, PlainCalm DEF Removes
      <3>. QED  BY <3>3, <3>4
    <2>6. CASE \/ \E c \in Clients : Exit(c)
               \/ \E b \in bans : BanExpires(b)
               \/ UNCHANGED vars
      <3>1. UNCHANGED <<cmode, prog, late>> /\ clients' \subseteq clients
        BY <2>6 DEF Exit, BanExpires, vars
      <3>2. Todo' = Todo
        BY <3>1 DEF Todo
      <3>. QED  BY <2>1, <3>1, <3>2, PlainCalm
    <2>. QED  BY <1>3, <2>2, <2>3, <2>4, <2>5, <2>6 DEF Next, Step
  <1>. QED  BY <1>1, <1>2, <1>3

LEMMA SafetyInit == Init => Existing /\ NoLostUpdate /\ PlainIsLeaving
  <1>. SUFFICES ASSUME Init PROVE Existing /\ NoLostUpdate /\ PlainIsLeaving
    OBVIOUS
  <1>1. clients = {} /\ \A ch \in Channels : Members(ch) = {}
    BY DEF Init, Members
  <1>2. \A ch \in Channels, m \in CHANNEL_MODES : ~HasMode(cmode[ch], m)
    BY NoModesTyped DEF Init
  <1>3. Todo = {}
    BY EmptySeq DEF Init, Todo, ToSet
  <1>. QED  BY <1>1, <1>2, <1>3 DEF Existing, NoLostUpdate, Stale, PlainIsLeaving

(***************************************************************************)
(* No update of a count is lost, whatever the goroutines interleave        *)
(* between a change of members or modes and the update it owes             *)
(* (server.go:383-427, 647-680, 700-727).                                  *)
(***************************************************************************)
THEOREM NoLostUpdateCorrect == Spec => []NoLostUpdate
  <1>. DEFINE IInv == TypeOK /\ Existing /\ NoLostUpdate
  <1>1. Init => IInv
    BY TypeInit, SafetyInit
  <1>2. IInv /\ [Next]_vars => IInv'
    BY TypeNext, ExistingNext, NoLostUpdateNext
  <1>. QED  BY <1>1, <1>2, PTL DEF Spec

(***************************************************************************)
(* In a channel in mode z every client without SSL is about to be removed, *)
(* by a part or by an enforcement that is still to run, unless it was      *)
(* admitted before the mode was set and stored after (server.go:331, 397,  *)
(* 404, 456-466, 645).                                                     *)
(***************************************************************************)
THEOREM PlainIsLeavingCorrect == Spec => []PlainIsLeaving
  <1>. DEFINE IInv == TypeOK /\ Existing /\ PlainIsLeaving
  <1>1. Init => IInv
    BY TypeInit, SafetyInit
  <1>2. IInv /\ [Next]_vars => IInv'
    BY TypeNext, ExistingNext, PlainIsLeavingNext
  <1>. QED  BY <1>1, <1>2, PTL DEF Spec


(***************************************************************************)
(* Who has gone by its own doing is in no channel.  Once its goroutine has *)
(* killed it, only parts are left for that goroutine, or other kills, one  *)
(* part for each channel the client is still in, and the goroutine ends    *)
(* the client as the last thing it does.  A client that is gone has no     *)
(* goroutine.                                                              *)
(***************************************************************************)
OwnOperations(c) ==
    \A i \in DOMAIN prog[c] :
        /\ Own(prog[c][i], c)
        /\ prog[c][i].do = "kill" => \A j \in DOMAIN prog[c] : Ending(prog[c][j])
        /\ c \in terminating \ killed => Ending(prog[c][i])

Leaves(c) ==
    c \in (clients \cap terminating) \ killed =>
        \A ch \in Channels : c \in Members(ch) =>
            \E i \in DOMAIN prog[c] :
                prog[c][i].do = "part" /\ prog[c][i].ch = ch /\ prog[c][i].who = c

Orderly ==
    \A c \in Clients : /\ OwnOperations(c) /\ Leaves(c)
                       /\ c \notin clients => prog[c] = <<>>

LEMMA OrderlyInit == Init => Orderly /\ ExitLeavesNoTrace
  <1>. SUFFICES ASSUME Init PROVE Orderly /\ ExitLeavesNoTrace
    OBVIOUS
  <1>1. clients = {} /\ \A ch \in Channels : Members(ch) = {}
    BY DEF Init, Members
  <1>2. \A c \in Clients : prog[c] = <<>> /\ DOMAIN prog[c] = {}
    BY EmptySeq DEF Init
  <1>. QED  BY <1>1, <1>2 DEF Orderly, OwnOperations, Leaves, ExitLeavesNoTrace

\* a client about which nothing changes, but that it may leave a channel
LEMMA OrderlyBystander ==
    ASSUME Orderly, NEW d \in Clients, prog'[d] = prog[d],
           d \in clients' <=> d \in clients,
           d \in clients => (d \in terminating' \ killed' => d \in terminating \ killed),
           \A ch \in Channels : d \in Members(ch)' => d \in Members(ch)
    PROVE  OwnOperations(d)' /\ Leaves(d)' /\ (d \notin clients' => prog'[d] = <<>>)
  <1>1. OwnOperations(d)'
    <2>1. CASE d \in clients
      BY <2>1 DEF Orderly, OwnOperations
    <2>2. CASE d \notin clients
      BY <2>2, EmptySeq DEF Orderly, OwnOperations
    <2>. QED  BY <2>1, <2>2
  <1>2. Leaves(d)'
    <2>. SUFFICES ASSUME d \in (clients' \cap terminating') \ killed',
                         NEW ch \in Channels, d \in Members(ch)'
                  PROVE  \E i \in DOMAIN prog'[d] : prog'[d][i].do = "part"
                             /\ prog'[d][i].ch = ch /\ prog'[d][i].who = d
      BY DEF Leaves
    <2>1. d \in (clients \cap terminating) \ killed /\ d \in Members(ch) /\ Leaves(d)
      BY DEF Orderly
    <2>. QED  BY <2>1 DEF Leaves
  <1>. QED  BY <1>1, <1>2 DEF Orderly

\* a client whose goroutine begins a handler
LEMMA OrderlyBegins ==
    ASSUME TypeOK, Orderly, NEW c \in Clients, c \in clients \ terminating,
           prog[c] = <<>>, NEW s, prog' = [prog EXCEPT ![c] = s],
           Handled(s, c), UNCHANGED <<clients, terminating, killed>>,
           \A ch \in Channels : Members(ch)' = Members(ch)
    PROVE  Orderly'
  <1>1. prog'[c] = s /\ \A d \in Clients \ {c} : prog'[d] = prog[d]
    BY DEF TypeOK
  <1>2. OwnOperations(c)' /\ Leaves(c)' /\ c \in clients'
    BY <1>1 DEF OwnOperations, Leaves, Handled
  <1>3. \A d \in Clients \ {c} :
            OwnOperations(d)' /\ Leaves(d)' /\ (d \notin clients' => prog'[d] = <<>>)
    BY <1>1, OrderlyBystander
  <1>. QED  BY <1>2, <1>3 DEF Orderly

\* a goroutine that goes on
Follows(o, c, head) == o.do = "part" \/ (~Ending(head) /\ Own(o, c) /\ o.do # "kill")

LEMMA OrderlyContinues ==
    ASSUME TypeOK, Orderly, NEW c \in Clients, prog[c] # <<>>,
           NEW first \in Seq(Operations), Continue(c, first),
           \A i \in DOMAIN first : Follows(first[i], c, Head(prog[c]))
    PROVE  /\ c \in clients
           /\ \A d \in Clients \ {c} : prog'[d] = prog[d]
           /\ \A j \in DOMAIN prog'[c] :
                 /\ Own(prog'[c][j], c)
                 /\ prog'[c][j].do = "kill" => \A k \in DOMAIN prog'[c] : Ending(prog'[c][k])
                 /\ c \in terminating \ killed \/ Head(prog[c]).do = "kill" =>
                        Ending(prog'[c][j])
           /\ Head(prog[c]) \in Operations /\ Own(Head(prog[c]), c)
           /\ c \in terminating \ killed => Ending(Head(prog[c]))
  <1>1. /\ 1 \in DOMAIN prog[c] /\ prog[c][1] = Head(prog[c]) /\ OwnOperations(c)
        /\ c \in clients /\ Head(prog[c]) \in Operations
    BY FirstTodo, HeadTyped DEF Orderly
  <1>2. /\ Own(Head(prog[c]), c)
        /\ c \in terminating \ killed => Ending(Head(prog[c]))
        /\ Head(prog[c]).do = "kill" => \A i \in DOMAIN prog[c] : Ending(prog[c][i])
    BY <1>1 DEF OwnOperations
  <1>3. ASSUME NEW j \in DOMAIN prog'[c],
               ~(\E i \in DOMAIN first : prog'[c][j] = first[i])
        PROVE  \E i \in DOMAIN prog[c] : prog'[c][j] = prog[c][i]
    BY <1>3, ContinuedElements
  <1>4. ASSUME NEW j \in DOMAIN prog'[c], Ending(Head(prog[c])),
               \A i \in DOMAIN prog[c] : Ending(prog[c][i])
        PROVE  Ending(prog'[c][j])
    <2>1. CASE \E i \in DOMAIN first : prog'[c][j] = first[i]
      BY <1>4, <2>1 DEF Follows, Ending
    <2>2. CASE ~(\E i \in DOMAIN first : prog'[c][j] = first[i])
      BY <1>3, <1>4, <2>2
    <2>. QED  BY <2>1, <2>2
  <1>5. ASSUME NEW j \in DOMAIN prog'[c]
        PROVE  Own(prog'[c][j], c)
    <2>1. CASE \E i \in DOMAIN first : prog'[c][j] = first[i]
      BY <2>1 DEF Follows, Own
    <2>2. CASE ~(\E i \in DOMAIN first : prog'[c][j] = first[i])
      BY <1>1, <1>3, <2>2 DEF OwnOperations
    <2>. QED  BY <2>1, <2>2
  <1>6. ASSUME NEW j \in DOMAIN prog'[c], prog'[c][j].do = "kill", NEW k \in DOMAIN prog'[c]
        PROVE  Ending(prog'[c][k])
    <2>1. ~(\E i \in DOMAIN first : prog'[c][j] = first[i])
      BY <1>6 DEF Follows
    <2>2. PICK i \in DOMAIN prog[c] : prog[c][i].do = "kill"
      BY <1>3, <1>6, <2>1
    <2>3. \A h \in DOMAIN prog[c] : Ending(prog[c][h])
      BY <1>1, <2>2 DEF OwnOperations
    <2>. QED  BY <1>1, <1>4, <2>3
  <1>7. ASSUME NEW j \in DOMAIN prog'[c], c \in terminating \ killed
        PROVE  Ending(prog'[c][j])
    <2>1. \A h \in DOMAIN prog[c] : Ending(prog[c][h])
      BY <1>1, <1>7 DEF OwnOperations
    <2>. QED  BY <1>1, <1>4, <2>1
  <1>8. ASSUME NEW j \in DOMAIN prog'[c], Head(prog[c]).do = "kill"
        PROVE  Ending(prog'[c][j])
    BY <1>2, <1>4, <1>8 DEF Ending
  <1>9. \A d \in Clients \ {c} : prog'[d] = prog[d]
    BY ContinuedElements
  <1>. QED  BY <1>1, <1>2, <1>5, <1>6, <1>7, <1>8, <1>9

LEMMA NothingFollows ==
    ASSUME NEW c, NEW head
    PROVE  <<>> \in Seq(Operations) /\ \A i \in DOMAIN <<>> : Follows(<<>>[i], c, head)
  BY EmptySeq

LEMMA PartsFollow ==
    ASSUME NEW c, NEW head, NEW first, \A i \in DOMAIN first : first[i].do = "part"
    PROVE  \A i \in DOMAIN first : Follows(first[i], c, head)
  BY DEF Follows

\* a goroutine that goes on while its client stays, or parts what it was to part
LEMMA OrderlyGoesOn ==
    ASSUME TypeOK, Orderly, NEW c \in Clients, prog[c] # <<>>,
           NEW first \in Seq(Operations), Continue(c, first),
           \A i \in DOMAIN first : Follows(first[i], c, Head(prog[c])),
           UNCHANGED <<clients, terminating, killed>>,
           \A d \in Clients, ch \in Channels : d \in Members(ch)' =>
               d \in Members(ch) \/ (d = c /\ c \notin terminating \ killed),
           \A ch \in Channels : c \in Members(ch)' =>
               ~(Head(prog[c]).do = "part" /\ Head(prog[c]).ch = ch /\ Head(prog[c]).who = c)
    PROVE  Orderly'
  <1>1. \A d \in Clients \ {c} :
            OwnOperations(d)' /\ Leaves(d)' /\ (d \notin clients' => prog'[d] = <<>>)
    BY OrderlyContinues, OrderlyBystander
  <1>2. OwnOperations(c)' /\ c \in clients'
    BY OrderlyContinues DEF OwnOperations
  <1>3. Leaves(c)'
    <2>. SUFFICES ASSUME c \in terminating \ killed, NEW ch \in Channels, c \in Members(ch)'
                  PROVE  \E j \in DOMAIN prog'[c] : prog'[c][j].do = "part"
                             /\ prog'[c][j].ch = ch /\ prog'[c][j].who = c
      BY DEF Leaves
    <2>1. c \in Members(ch) /\ c \in clients /\ Leaves(c)
      BY <1>2 DEF Orderly
    <2>2. PICK i \in DOMAIN prog[c] :
              prog[c][i].do = "part" /\ prog[c][i].ch = ch /\ prog[c][i].who = c
      BY <2>1 DEF Leaves
    <2>3. prog[c][i] # Head(prog[c])
      BY <2>2
    <2>. QED  BY <2>2, <2>3, ContinuedElements
  <1>. QED  BY <1>1, <1>2, <1>3 DEF Orderly

\* killClient makes a part for every channel of the client that quits
LEMMA OrderlyKill ==
    ASSUME TypeOK, Existing, Orderly, NEW c \in Clients, KillClient(c)
    PROVE  Orderly'
  <1>1. PICK o \in Operations, first \in Seq(Operations) :
            /\ o = Head(prog[c]) /\ o.who \in Clients /\ o.do = "kill"
            /\ prog[c] # <<>> /\ Continue(c, first)
            /\ terminating' = terminating \cup {o.who}
            /\ killed' = IF o.who # c THEN killed \cup ({o.who} \cap (clients \ terminating))
                         ELSE killed
            /\ UNCHANGED <<clients, user, umode, channels, cmode, count, late>>
            /\ \A i \in DOMAIN first : first[i].do = "part"
            /\ o.who \in clients \ terminating =>
                  \A ch \in ChannelsOf(o.who) :
                      \E i \in DOMAIN first : first[i] = Part(ch, o.who)
    BY KillStep
  <1>2. \A i \in DOMAIN first : Follows(first[i], c, Head(prog[c]))
    BY <1>1, PartsFollow
  <1>3. /\ c \in clients
        /\ \A d \in Clients \ {c} : prog'[d] = prog[d]
        /\ \A j \in DOMAIN prog'[c] : Own(prog'[c][j], c) /\ Ending(prog'[c][j])
    BY <1>1, <1>2, OrderlyContinues
  <1>4. OwnOperations(c)'
    BY <1>3 DEF OwnOperations
  <1>5. \A ch \in Channels : Members(ch)' = Members(ch)
    BY <1>1 DEF Members
  <1>6. Leaves(c)'
    <2>. SUFFICES ASSUME c \in terminating' \ killed', NEW ch \in Channels, c \in Members(ch)
                  PROVE  \E j \in DOMAIN prog'[c] : prog'[c][j].do = "part"
                             /\ prog'[c][j].ch = ch /\ prog'[c][j].who = c
      BY <1>5 DEF Leaves
    <2>1. CASE c \in terminating
      <3>1. PICK i \in DOMAIN prog[c] :
                prog[c][i].do = "part" /\ prog[c][i].ch = ch /\ prog[c][i].who = c
        BY <1>1, <1>3, <2>1 DEF Orderly, Leaves
      <3>2. prog[c][i] # Head(prog[c])
        BY <1>1, <3>1
      <3>. QED  BY <1>1, <3>1, <3>2, ContinuedElements
    <2>2. CASE c \notin terminating
      <3>1. o.who = c /\ ch \in ChannelsOf(c)
        BY <1>1, <2>2 DEF ChannelsOf, Existing
      <3>2. PICK i \in DOMAIN first : first[i] = Part(ch, c)
        BY <1>1, <1>3, <2>2, <3>1
      <3>3. \E j \in DOMAIN prog'[c] : prog'[c][j] = first[i]
        BY <1>1, ContinuedElements
      <3>4. first[i].do = "part" /\ first[i].ch = ch /\ first[i].who = c
        BY <3>2 DEF Part, Operation
      <3>. QED  BY <3>3, <3>4
    <2>. QED  BY <2>1, <2>2
  <1>7. \A d \in Clients \ {c} :
            OwnOperations(d)' /\ Leaves(d)' /\ (d \notin clients' => prog'[d] = <<>>)
    <2>. SUFFICES ASSUME NEW d \in Clients \ {c}
                  PROVE  OwnOperations(d)' /\ Leaves(d)' /\ (d \notin clients' => prog'[d] = <<>>)
      OBVIOUS
    <2>1. d \in clients => (d \in terminating' \ killed' => d \in terminating \ killed)
      BY <1>1
    <2>. QED  BY <1>1, <1>3, <1>5, <2>1, OrderlyBystander
  <1>. QED  BY <1>1, <1>3, <1>4, <1>6, <1>7 DEF Orderly

LEMMA OrderlyHandler ==
    ASSUME TypeOK, Orderly, NEW c \in Clients, Handle(c), ~Connect(c)
    PROVE  /\ Orderly'
           /\ UNCHANGED clients /\ \A ch \in Channels : Members(ch)' = Members(ch)
  <1>. USE DEF registry, histories
  <1>1. UNCHANGED <<clients, terminating, killed>> /\ Reading(c)
    BY DEF Handle, User, Pass, Identify, Quit, JoinCommand, PartCommand, UserMode, Names,
       Privmsg, Topic, ChannelMode, Kick, Ban, KillCommand, Chatting, Reading
  <1>2. ASSUME NEW ch \in Channels PROVE Members(ch)' = Members(ch)
    <2>1. CASE UNCHANGED count
      BY <2>1 DEF Members
    <2>2. ASSUME NEW any \in Channels, Privmsg(c, any) PROVE Members(ch)' = Members(ch)
      BY <2>2, MembersSame DEF Privmsg
    <2>. QED
      BY <2>1, <2>2 DEF Handle, User, Pass, Identify, Quit, JoinCommand, PartCommand,
         UserMode, Names, Topic, ChannelMode, Kick, Ban, KillCommand
  <1>3. CASE prog' = prog
    BY <1>1, <1>2, <1>3, OrderlyBystander DEF Orderly
  <1>4. CASE prog' # prog
    <2>1. PICK s : prog' = [prog EXCEPT ![c] = s] /\ Handled(s, c)
      BY <1>4, HandlerOperations
    <2>. QED  BY <1>1, <1>2, <2>1, OrderlyBegins DEF Reading
  <1>. QED  BY <1>1, <1>2, <1>3, <1>4

LEMMA OrderlyConnect ==
    ASSUME TypeOK, Orderly, NEW c \in Clients, Connect(c)
    PROVE  Orderly'
  <1>1. /\ UNCHANGED <<prog, count>> /\ clients' = clients \cup {c}
        /\ terminating' = terminating \ {c} /\ killed' = killed \ {c} /\ prog[c] = <<>>
    BY DEF Connect, Orderly
  <1>2. \A ch \in Channels : Members(ch)' = Members(ch)
    BY <1>1 DEF Members
  <1>3. \A d \in Clients \ {c} :
            OwnOperations(d)' /\ Leaves(d)' /\ (d \notin clients' => prog'[d] = <<>>)
    BY <1>1, <1>2, OrderlyBystander
  <1>4. OwnOperations(c)' /\ Leaves(c)' /\ c \in clients'
    BY <1>1, EmptySeq DEF OwnOperations, Leaves
  <1>. QED  BY <1>3, <1>4 DEF Orderly

LEMMA OrderlyExit ==
    ASSUME TypeOK, Orderly, NEW c \in Clients, Exit(c)
    PROVE  /\ Orderly'
           /\ \A ch \in Channels : Members(ch)' = Members(ch)
           /\ c \notin killed => \A ch \in Channels : c \notin Members(ch)
  <1>1. /\ UNCHANGED <<prog, count, terminating, killed>> /\ clients' = clients \ {c}
        /\ prog[c] = <<>> /\ c \in clients \cap terminating
    BY DEF Exit, histories
  <1>2. \A ch \in Channels : Members(ch)' = Members(ch)
    BY <1>1 DEF Members
  <1>3. DOMAIN prog[c] = {}
    BY <1>1, EmptySeq
  <1>4. c \notin killed => \A ch \in Channels : c \notin Members(ch)
    BY <1>1, <1>3 DEF Orderly, Leaves
  <1>5. \A d \in Clients \ {c} :
            OwnOperations(d)' /\ Leaves(d)' /\ (d \notin clients' => prog'[d] = <<>>)
    BY <1>1, <1>2, OrderlyBystander
  <1>6. OwnOperations(c)' /\ Leaves(c)' /\ prog'[c] = <<>>
    BY <1>1, <1>3 DEF OwnOperations, Leaves
  <1>. QED  BY <1>2, <1>4, <1>5, <1>6 DEF Orderly


LEMMA OrderlyNext == TypeOK /\ Existing /\ Orderly /\ [Next]_vars => Orderly'
  <1>. SUFFICES ASSUME TypeOK, Existing, Orderly, [Next]_vars PROVE Orderly'
    OBVIOUS
  <1>. USE DEF registry, histories
  <1>1. ASSUME NEW c \in Clients, JoinChannel(c) PROVE Orderly'
    <2>1. PICK o \in Operations :
              /\ o = Head(prog[c]) /\ o.ch \in Channels /\ o.who \in Clients
              /\ o.do = "enter" /\ prog[c] # <<>> /\ Continue(c, <<>>)
              /\ UNCHANGED <<clients, terminating, killed>>
              /\ \A m \in Clients \ {o.who} : m \in Members(o.ch)' <=> m \in Members(o.ch)
              /\ \A other \in Channels \ {o.ch} : Members(other)' = Members(other)
      BY <1>1, JoinStep
    <2>2. Own(o, c) /\ (c \in terminating \ killed => Ending(o))
      BY <2>1, OrderlyContinues, NothingFollows
    <2>3. o.who = c /\ c \notin terminating \ killed
      BY <2>1, <2>2 DEF Own, Ending
    <2>4. \A d \in Clients, ch \in Channels : d \in Members(ch)' =>
              d \in Members(ch) \/ (d = c /\ c \notin terminating \ killed)
      BY <2>1, <2>3
    <2>. QED  BY <2>1, <2>4, OrderlyGoesOn, NothingFollows
  <1>2. ASSUME NEW c \in Clients, PartChannel(c) PROVE Orderly'
    <2>1. PICK o \in Operations :
              /\ o = Head(prog[c]) /\ o.ch \in Channels /\ o.who \in Clients
              /\ prog[c] # <<>> /\ Continue(c, <<>>)
              /\ UNCHANGED <<clients, terminating, killed>>
              /\ \A m \in Clients \ {o.who} : m \in Members(o.ch)' <=> m \in Members(o.ch)
              /\ o.who \notin Members(o.ch)'
              /\ \A other \in Channels \ {o.ch} : Members(other)' = Members(other)
      BY <1>2, PartStep
    <2>2. \A d \in Clients, ch \in Channels : d \in Members(ch)' => d \in Members(ch)
      BY <2>1
    <2>3. \A ch \in Channels : c \in Members(ch)' => ~(o.ch = ch /\ o.who = c)
      BY <2>1
    <2>. QED  BY <2>1, <2>2, <2>3, OrderlyGoesOn, NothingFollows
  <1>3. CASE \A c \in Clients : ~JoinChannel(c) /\ ~PartChannel(c)
    <2>1. \A ch \in Channels : Members(ch)' = Members(ch)
      BY <1>3, OtherSteps
    <2>2. ASSUME NEW c \in Clients,
                 JoinRefused(c) \/ RefreshCounts(c) \/ AnnounceMode(c) \/ EnforceModes(c)
                 \/ PartIfBanned(c)
          PROVE  Orderly'
      <3>1. /\ UNCHANGED <<clients, terminating, killed>> /\ prog[c] # <<>>
            /\ Head(prog[c]).do # "part"
        BY <2>2 DEF JoinRefused, RefreshCounts, AnnounceMode, EnforceModes, PartIfBanned, At
      <3>2. PICK first \in Seq(Operations) :
                Continue(c, first) /\ \A i \in DOMAIN first : first[i].do = "part"
        BY <2>2, EnforceStep, PartIfBannedStep, NothingFirst
           DEF JoinRefused, RefreshCounts, AnnounceMode
      <3>. QED  BY <2>1, <3>1, <3>2, OrderlyGoesOn, PartsFollow
    <2>3. ASSUME NEW c \in Clients, PartRefused(c) PROVE Orderly'
      <3>1. /\ UNCHANGED <<clients, terminating, killed>> /\ prog[c] # <<>> /\ Continue(c, <<>>)
            /\ Head(prog[c]).who \notin clients \cap Members(Head(prog[c]).ch)
        BY <2>3 DEF PartRefused, At
      <3>2. \A ch \in Channels : c \in Members(ch)' =>
                ~(Head(prog[c]).ch = ch /\ Head(prog[c]).who = c)
        BY <2>1, <3>1 DEF Orderly
      <3>. QED  BY <2>1, <3>1, <3>2, OrderlyGoesOn, NothingFollows
    <2>4. CASE (\E b \in bans : BanExpires(b)) \/ UNCHANGED vars
      <3>1. UNCHANGED <<clients, terminating, killed, prog>>
        BY <2>4 DEF BanExpires, vars
      <3>. QED  BY <2>1, <3>1, OrderlyBystander DEF Orderly
    <2>5. ASSUME NEW c \in Clients, Admit(c) PROVE Orderly'
      <3>1. PICK o, e \in Operations :
                /\ o = Head(prog[c]) /\ o.ch \in Channels /\ o.do = "join" /\ Admitted(o)
                /\ e.do = "enter" /\ e.ch = o.ch /\ e.who = o.who /\ e.was = cmode[o.ch]
                /\ prog[c] # <<>> /\ Continue(c, <<e>>) /\ <<e>> \in Seq(Operations)
                /\ \A i \in DOMAIN <<e>> : <<e>>[i] = e
                /\ channels' = channels \cup {o.ch}
                /\ UNCHANGED <<clients, terminating, umode, cmode, count, late, killed>>
        BY <2>5, AdmitStep
      <3>2. Own(o, c)
        BY <3>1, FirstTodo DEF Orderly, OwnOperations
      <3>3. \A i \in DOMAIN <<e>> : Follows(<<e>>[i], c, o)
        BY <3>1, <3>2 DEF Follows, Own, Ending
      <3>. QED  BY <2>1, <3>1, <3>3, OrderlyGoesOn
    <2>. QED
      BY <1>3, <2>2, <2>3, <2>4, <2>5, OrderlyKill, OrderlyExit, OrderlyHandler, OrderlyConnect
         DEF Next, Step
  <1>. QED  BY <1>1, <1>2, <1>3

LEMMA LeavesNoTraceNext ==
    TypeOK /\ Orderly /\ ExitLeavesNoTrace /\ [Next]_vars => ExitLeavesNoTrace'
  <1>. SUFFICES ASSUME TypeOK, Orderly, ExitLeavesNoTrace, [Next]_vars,
                       NEW ch \in Channels, NEW m \in Members(ch)'
                PROVE  m \in clients' \/ m \in killed'
    BY DEF ExitLeavesNoTrace
  <1>. USE DEF registry, histories
  <1>0. m \in Clients
    BY DEF Members
  <1>1. ASSUME NEW c \in Clients, JoinChannel(c) PROVE m \in clients' \/ m \in killed'
    <2>1. PICK o \in Operations :
              /\ o = Head(prog[c]) /\ o.do = "enter" /\ prog[c] # <<>>
              /\ o.ch \in Channels /\ UNCHANGED <<clients, killed>>
              /\ \A d \in Clients \ {o.who} : d \in Members(o.ch)' <=> d \in Members(o.ch)
              /\ \A other \in Channels \ {o.ch} : Members(other)' = Members(other)
      BY <1>1, JoinStep
    <2>2. m \in Members(ch) \/ m = o.who
      BY <1>0, <2>1
    <2>3. o.who = c /\ c \in clients
      BY <2>1, FirstTodo DEF Orderly, OwnOperations, Own
    <2>. QED  BY <2>1, <2>2, <2>3 DEF ExitLeavesNoTrace
  <1>2. ASSUME NEW c \in Clients, PartChannel(c) PROVE m \in clients' \/ m \in killed'
    <2>1. PICK o \in Operations :
              /\ o.ch \in Channels /\ UNCHANGED <<clients, killed>>
              /\ o.who \notin Members(o.ch)'
              /\ \A d \in Clients \ {o.who} : d \in Members(o.ch)' <=> d \in Members(o.ch)
              /\ \A other \in Channels \ {o.ch} : Members(other)' = Members(other)
      BY <1>2, PartStep
    <2>2. m \in Members(ch)
      BY <1>0, <2>1
    <2>. QED  BY <2>1, <2>2 DEF ExitLeavesNoTrace
  <1>3. CASE \A c \in Clients : ~JoinChannel(c) /\ ~PartChannel(c)
    <2>1. m \in Members(ch) /\ (m \in clients \/ m \in killed)
      BY <1>3, OtherSteps DEF ExitLeavesNoTrace
    <2>2. ASSUME NEW c \in Clients, Exit(c) PROVE m \in clients' \/ m \in killed'
      BY <2>1, <2>2, OrderlyExit DEF Exit
    <2>3. ASSUME NEW c \in Clients, Connect(c) PROVE m \in clients' \/ m \in killed'
      BY <2>1, <2>3 DEF Connect
    <2>4. CASE clients \subseteq clients' /\ killed \subseteq killed'
      BY <2>1, <2>4
    <2>5. ASSUME NEW c \in Clients, Handle(c), ~Connect(c)
          PROVE  clients \subseteq clients' /\ killed \subseteq killed'
      BY <2>5 DEF Handle, User, Pass, Identify, Quit, JoinCommand, PartCommand, UserMode, Names,
         Privmsg, Topic, ChannelMode, Kick, Ban, KillCommand
    <2>6. ASSUME NEW c \in Clients,
                 \/ Admit(c) \/ JoinRefused(c) \/ PartRefused(c) \/ RefreshCounts(c)
                 \/ EnforceModes(c) \/ AnnounceMode(c) \/ PartIfBanned(c) \/ KillClient(c)
          PROVE  clients \subseteq clients' /\ killed \subseteq killed'
      BY <2>6 DEF Admit, JoinRefused, PartRefused, RefreshCounts, EnforceModes, AnnounceMode,
         PartIfBanned, KillClient
    <2>7. CASE (\E b \in bans : BanExpires(b)) \/ UNCHANGED vars
      BY <2>4, <2>7 DEF BanExpires, vars
    <2>. QED  BY <1>3, <2>2, <2>3, <2>4, <2>5, <2>6, <2>7 DEF Next, Step
  <1>. QED  BY <1>1, <1>2, <1>3

(***************************************************************************)
(* A connection that has ended by its own doing is in no channel:          *)
(* killClient parts every channel before the client is deleted from the    *)
(* table of clients, and nothing the goroutine does in between brings it   *)
(* back (server.go:1433-1434, 1443-1445).  Only a client that another's    *)
(* goroutine has killed may stay counted (858-860, 1438, 417).             *)
(***************************************************************************)
THEOREM ExitLeavesNoTraceCorrect == Spec => []ExitLeavesNoTrace
  <1>. DEFINE IInv == TypeOK /\ Existing /\ Orderly /\ ExitLeavesNoTrace
  <1>1. Init => IInv
    BY TypeInit, SafetyInit, OrderlyInit
  <1>2. IInv /\ [Next]_vars => IInv'
    BY TypeNext, ExistingNext, OrderlyNext, LeavesNoTraceNext
  <1>. QED  BY <1>1, <1>2, PTL DEF Spec

(***************************************************************************)
(* In a channel in mode D a join, a part and a change of modes update the  *)
(* count of the one client they are about.                                 *)
(***************************************************************************)
LEMMA DelayedUpdate ==
    ASSUME TypeOK, NEW ch \in Channels, HasMode(cmode[ch], "D"),
           NEW at \in Channels, NEW c \in Clients, NEW m \in Clients \ {c},
           NEW stored, NEW seen, UpdateClientCount(stored, seen, at, c),
           seen[m] = shown[at][m]
    PROVE  shown'[ch][m] = shown[ch][m]
  <1>1. CASE at # ch
    BY <1>1, UpdateElsewhere
  <1>2. CASE at = ch
    <2>1. c # NoClient
      BY ClientsAssumption
    <2>2. m \notin Updated(stored, ch, c)
      BY <2>1 DEF Updated
    <2>3. shown'[ch][m] = ShownUpdated(seen, stored, ch, c)[m]
      BY <1>2 DEF UpdateClientCount, TypeOK
    <2>. QED  BY <1>2, <2>2, <2>3 DEF ShownUpdated
  <1>. QED  BY <1>1, <1>2

\* a goroutine that has done an operation, and put none in its place
LEMMA HasDone ==
    ASSUME TypeOK, NEW c \in Clients, prog[c] # <<>>, Continue(c, <<>>)
    PROVE  prog'[c] # prog[c]
  <1>1. prog[c] \in Seq(Operations) /\ prog'[c] = <<>> \o Tail(prog[c])
    BY DEF Continue, TypeOK
  <1>2. Tail(prog[c]) \in Seq(Operations) /\ Len(Tail(prog[c])) = Len(prog[c]) - 1
    BY <1>1, HeadTailProperties
  <1>3. Len(prog[c]) \in Nat /\ <<>> \o Tail(prog[c]) = Tail(prog[c])
    BY <1>1, <1>2, LenProperties, ConcatEmptySeq
  <1>4. Len(prog'[c]) = Len(prog[c]) - 1
    BY <1>1, <1>2, <1>3
  <1>. QED  BY <1>3, <1>4

LEMMA DelayedStep ==
    ASSUME TypeOK, Orderly, [Next]_vars, NEW ch \in Channels, HasMode(cmode[ch], "D"),
           NEW m \in Members(ch) \cap Members(ch)', shown'[ch][m] # shown[ch][m]
    PROVE  Undelayed(ch, m)
  <1>0. m \in Clients
    BY DEF Members
  <1>1. CASE UNCHANGED shown
    BY <1>1
  <1>2. ASSUME NEW c \in Clients, NEW at \in Channels, Names(c, at)
        PROVE  Undelayed(ch, m)
    <2>1. at = ch /\ c = m
      BY <1>0, <1>2 DEF Names, TypeOK
    <2>. QED  BY <1>2, <2>1 DEF Undelayed
  <1>3. ASSUME NEW c \in Clients, NEW at \in Channels, Privmsg(c, at)
        PROVE  Undelayed(ch, m)
    <2>1. at = ch
      BY <1>3, UpdateElsewhere DEF Privmsg
    <2>. QED  BY <1>3, <2>1 DEF Undelayed
  <1>4. ASSUME NEW c \in Clients, JoinChannel(c)
        PROVE  Undelayed(ch, m)
    <2>. DEFINE o == Head(prog[c])
                stored == [count[o.ch] EXCEPT ![o.who] = AnonCount(o.ch, o.who) + 1]
                listed == [shown[o.ch] EXCEPT ![o.who] =
                              Others(AnonCountIn(stored, o.ch, o.who))]
                seen == IF o.who \in terminating THEN shown[o.ch] ELSE listed
    <2>1. /\ prog[c] # <<>> /\ o.do = "enter" /\ Continue(c, <<>>)
          /\ UpdateClientCount(stored, seen, o.ch, o.who)
      BY <1>4 DEF JoinChannel, At
    <2>2. o.ch \in Channels /\ o.who \in Clients
      BY <2>1, HeadTyped DEF Operations
    <2>3. o.who = c
      BY <2>1, OrderlyContinues, NothingFollows DEF Own
    <2>4. CASE m # c
      <3>1. seen[m] = shown[o.ch][m]
        BY <1>0, <2>2, <2>3, <2>4 DEF TypeOK
      <3>. HIDE DEF o, stored, listed, seen
      <3>. QED  BY <1>0, <2>1, <2>2, <2>3, <2>4, <3>1, DelayedUpdate
    <2>5. CASE m = c
      BY <2>1, <2>5, HasDone DEF Undelayed
    <2>. QED  BY <2>4, <2>5
  <1>5. ASSUME NEW c \in Clients, PartChannel(c)
        PROVE  Undelayed(ch, m)
    <2>1. PICK o \in Operations :
              /\ o = Head(prog[c]) /\ o.ch \in Channels /\ o.who \in Clients
              /\ o.who \notin Members(o.ch)'
      BY <1>5, PartStep
    <2>. DEFINE stored == [count[o.ch] EXCEPT ![o.who] = 0]
                seen == [shown[o.ch] EXCEPT ![o.who] = {}]
    <2>2. UpdateClientCount(stored, seen, o.ch, o.who)
      BY <1>5, <2>1 DEF PartChannel
    <2>3. CASE o.who # m
      <3>1. seen[m] = shown[o.ch][m]
        BY <1>0, <2>1, <2>3 DEF TypeOK
      <3>. HIDE DEF stored, seen
      <3>. QED  BY <1>0, <2>1, <2>2, <2>3, <3>1, DelayedUpdate
    <2>4. CASE o.who = m
      <3>1. o.ch # ch
        BY <2>1, <2>4
      <3>. HIDE DEF stored, seen
      <3>. QED  BY <2>1, <2>2, <3>1, UpdateElsewhere
    <2>. QED  BY <2>3, <2>4
  <1>6. ASSUME NEW c \in Clients, RefreshCounts(c) \/ AnnounceMode(c), shown' # shown
        PROVE  Undelayed(ch, m)
    <2>. DEFINE o == Head(prog[c])
    <2>1. /\ prog[c] # <<>> /\ Continue(c, <<>>) /\ o.do \in {"refresh", "announce"}
          /\ UpdateClientCount(count[o.ch], shown[o.ch], o.ch, o.who)
      BY <1>6 DEF RefreshCounts, AnnounceMode, At
    <2>2. o.ch \in Channels /\ o.who \in Clients
      BY <2>1, HeadTyped DEF Operations
    <2>4. o.who = c
      BY <2>1, OrderlyContinues, NothingFollows DEF Own
    <2>5. CASE m # c
      <3>. HIDE DEF o
      <3>. QED  BY <1>0, <2>1, <2>2, <2>4, <2>5, DelayedUpdate
    <2>6. CASE m = c
      BY <2>1, <2>6, HasDone DEF Undelayed
    <2>. QED  BY <2>5, <2>6
  <1>7. ASSUME NEW c \in Clients, Handle(c),
               \A at \in Channels : ~Names(c, at) /\ ~Privmsg(c, at)
        PROVE  UNCHANGED shown
    BY <1>7 DEF Handle, Connect, User, Pass, Identify, Quit, JoinCommand, PartCommand, UserMode,
       Topic, ChannelMode, Kick, Ban, KillCommand
  <1>8. ASSUME NEW c \in Clients,
               \/ Admit(c) \/ JoinRefused(c) \/ PartRefused(c) \/ EnforceModes(c)
               \/ PartIfBanned(c) \/ KillClient(c) \/ Exit(c)
        PROVE  UNCHANGED shown
    BY <1>8 DEF Admit, JoinRefused, PartRefused, EnforceModes, PartIfBanned, KillClient, Exit
  <1>9. CASE (\E b \in bans : BanExpires(b)) \/ UNCHANGED vars
    BY <1>1, <1>9 DEF BanExpires, vars
  <1>. QED
    BY <1>1, <1>2, <1>3, <1>4, <1>5, <1>6, <1>7, <1>8, <1>9 DEF Next, Step

(***************************************************************************)
(* In a channel in mode D what a client sees changes only when somebody    *)
(* speaks, or by what the client itself does: every update made on behalf  *)
(* of a client is made by its own goroutine (README.md:19,                 *)
(* server.go:498).                                                         *)
(***************************************************************************)
THEOREM DelayedUntilSpeechCorrect == Spec => DelayedUntilSpeech
  <1>. DEFINE IInv == TypeOK /\ Existing /\ Orderly
  <1>1. Init => IInv
    BY TypeInit, SafetyInit, OrderlyInit
  <1>2. IInv /\ [Next]_vars => IInv'
    BY TypeNext, ExistingNext, OrderlyNext
  <1>3. IInv /\ [Next]_vars =>
            [\A ch \in Channels : HasMode(cmode[ch], "D") =>
                \A m \in Members(ch) \cap Members(ch)' :
                    shown'[ch][m] # shown[ch][m] => Undelayed(ch, m)]_vars
    BY DelayedStep
  <1>. QED  BY <1>1, <1>2, <1>3, PTL DEF Spec, DelayedUntilSpeech

=============================================================================
