---------------------------- MODULE ServerProofs ----------------------------
(***************************************************************************)
(* Proofs about the server, for every set of clients and channels, every   *)
(* table of permissions and bans, and every set of messages.               *)
(***************************************************************************)
EXTENDS Server, FiniteSetTheorems, SequenceTheorems, TLAPS

(***************************************************************************)
(* Modes: what a MODE command makes of a map of modes.                     *)
(***************************************************************************)
LEMMA NoModesTyped ==
    /\ NoModes(CHANNEL_MODES) \in ChannelModes
    /\ NoModes(CLIENT_MODES) \in ClientModes
    /\ \A m \in CHANNEL_MODES : ~HasMode(NoModes(CHANNEL_MODES), m)
  BY DEF NoModes, ChannelModes, ClientModes, ModeValues, HasMode

LEMMA AddModesTyped ==
    ASSUME NEW S, NEW modes \in [S -> ModeValues],
           NEW letters \in Seq(STRING), NEW args \in Seq(Args)
    PROVE  AddModes(modes, letters, args) \in [S -> ModeValues]
  <1>. DEFINE F(m) == FirstOf(letters, args, m)
              i(m) == CHOOSE i \in F(m) : TRUE
  <1>1. SUFFICES ASSUME NEW m \in S, F(m) # {}
                 PROVE  ValueAt(letters, args, i(m)) \in ModeValues
    BY DEF AddModes
  <1>2. i(m) \in F(m)
    BY <1>1
  <1>3. Applies(letters, args, i(m))
    BY <1>2 DEF FirstOf
  <1>4. CASE letters[i(m)] \in CHANNEL_MODES_ARG
    <2>1. ArgIndex(letters, i(m)) \in DOMAIN args
      BY <1>3, <1>4 DEF Applies
    <2>2. args[ArgIndex(letters, i(m))] \in Args
      BY <2>1, ElementOfSeq, LenProperties
    <2>. QED  BY <1>4, <2>2 DEF ValueAt, ModeValues
  <1>5. CASE letters[i(m)] \notin CHANNEL_MODES_ARG
    BY <1>5 DEF ValueAt, ModeValues
  <1>. QED  BY <1>4, <1>5

LEMMA ChangedTyped ==
    ASSUME NEW S, NEW modes \in [S -> ModeValues],
           NEW m \in ModeCommands \cup UserModeCommands
    PROVE  Changed(m, modes) \in [S -> ModeValues]
  <1>1. m.letters \in Seq(STRING) /\ m.args \in Seq(Args)
    BY CommandsAssumption
  <1>2. AddModes(modes, m.letters, m.args) \in [S -> ModeValues]
    BY <1>1, AddModesTyped
  <1>3. RemoveModes(modes, m.letters) \in [S -> ModeValues]
    BY DEF RemoveModes, ModeValues
  <1>. QED  BY <1>2, <1>3 DEF Changed

(***************************************************************************)
(* Counts.                                                                 *)
(***************************************************************************)
LEMMA OccupantsFinite ==
    ASSUME NEW stored
    PROVE  LET O == {d \in Clients : stored[d] # 0}
           IN  /\ IsFiniteSet(O) /\ Cardinality(O) \in Nat
               /\ \A d \in O : Cardinality(O) >= 1
  <1>. DEFINE O == {d \in Clients : stored[d] # 0}
  <1>1. IsFiniteSet(O)
    BY ClientsAssumption, FS_Subset
  <1>2. Cardinality(O) \in Nat
    BY <1>1, FS_CardinalityType
  <1>3. Cardinality(O) = 0 <=> O = {}
    BY <1>1, FS_EmptySet
  <1>. HIDE DEF O
  <1>4. \A d \in O : Cardinality(O) >= 1
    BY <1>2, <1>3
  <1>. QED  BY <1>1, <1>2, <1>4 DEF O

LEMMA AnonCountTyped ==
    ASSUME NEW stored, NEW ch, NEW c
    PROVE  /\ AnonCountIn(stored, ch, c) \in Nat
           /\ (c \in Clients /\ stored[c] # 0) => AnonCountIn(stored, ch, c) >= 1
  <1>. DEFINE O == {d \in Clients : stored[d] # 0}
  <1>1. Cardinality(O) \in Nat /\ \A d \in O : Cardinality(O) >= 1
    BY OccupantsFinite
  <1>2. (c \in Clients /\ stored[c] # 0) => Cardinality(O) >= 1
    BY <1>1
  <1>3. AnonCountIn(stored, ch, c) =
            IF Hidden(ch, c) /\ Cardinality(O) >= 2 THEN 2 ELSE Cardinality(O)
    BY DEF AnonCountIn
  <1>. HIDE DEF O
  <1>. QED  BY <1>1, <1>2, <1>3

LEMMA OthersTyped ==
    ASSUME NEW n \in Nat
    PROVE  Others(n) \in SUBSET Nat
  BY DEF Others

LEMMA AfterUpdateTyped ==
    ASSUME NEW seen \in SUBSET Nat, NEW old \in Nat, NEW new \in Nat
    PROVE  AfterUpdate(seen, old, new) \in SUBSET Nat
  BY DEF AfterUpdate

LEMMA UpdateTyped ==
    ASSUME TypeOK, NEW ch \in Channels, NEW c,
           NEW stored \in [Clients -> Nat], NEW seen \in [Clients -> SUBSET Nat],
           UpdateClientCount(stored, seen, ch, c)
    PROVE  /\ count' \in [Channels -> [Clients -> Nat]]
           /\ shown' \in [Channels -> [Clients -> SUBSET Nat]]
  <1>1. CountsUpdated(stored, ch, c) \in [Clients -> Nat]
    BY AnonCountTyped DEF CountsUpdated
  <1>2. ShownUpdated(seen, stored, ch, c) \in [Clients -> SUBSET Nat]
    <2>1. SUFFICES ASSUME NEW m \in Clients
                   PROVE  AfterUpdate(seen[m], stored[m], AnonCountIn(stored, ch, m))
                            \in SUBSET Nat
      BY DEF ShownUpdated
    <2>2. AnonCountIn(stored, ch, m) \in Nat
      BY AnonCountTyped
    <2>. QED  BY <2>2, AfterUpdateTyped
  <1>. QED  BY <1>1, <1>2 DEF UpdateClientCount, TypeOK

(***************************************************************************)
(* Operations and the programs of the goroutines.                          *)
(***************************************************************************)
LEMMA OperationsTyped ==
    ASSUME NEW ch \in Channels, NEW c \in Clients, NEW key \in Keys,
           NEW was \in ChannelModes
    PROVE  /\ Join(ch, c, key) \in Operations /\ Enter(ch, c, was) \in Operations
           /\ Part(ch, c) \in Operations
           /\ Refresh(ch, c) \in Operations /\ Enforce(ch, c) \in Operations
           /\ Announce(ch, c, was) \in Operations
           /\ PartBanned(c) \in Operations /\ Kill(c) \in Operations
  BY NoModesTyped, ChannelsAssumption
     DEF Operation, Operations, Join, Enter, Part, Refresh, Enforce, Announce, PartBanned, Kill,
         Unchanged, Keys

LEMMA ContinueTyped ==
    ASSUME TypeOK, NEW c \in Clients, prog[c] # <<>>,
           NEW first \in Seq(Operations), Continue(c, first)
    PROVE  prog' \in [Clients -> Seq(Operations)]
  <1>1. Tail(prog[c]) \in Seq(Operations)
    BY HeadTailProperties DEF TypeOK
  <1>2. first \o Tail(prog[c]) \in Seq(Operations)
    BY <1>1, ConcatProperties
  <1>. QED  BY <1>2 DEF Continue, TypeOK

LEMMA HeadTyped ==
    ASSUME TypeOK, NEW c \in Clients, prog[c] # <<>>
    PROVE  Head(prog[c]) \in Operations
  BY HeadTailProperties DEF TypeOK

(***************************************************************************)
(* An order of a set visits each of its elements.                          *)
(***************************************************************************)
LEMMA OrderVisitsAll ==
    ASSUME NEW S, IsFiniteSet(S), NEW order \in SetToSeqs(S)
    PROVE  /\ DOMAIN order = 1..Cardinality(S) /\ Cardinality(S) \in Nat
           /\ \A i \in DOMAIN order : order[i] \in S
           /\ \A x \in S : \E i \in DOMAIN order : order[i] = x
  <1>. DEFINE n == Cardinality(S)
  <1>1. n \in Nat
    BY FS_CardinalityType
  <1>2. order \in [1..n -> S] /\ \A i, j \in 1..n : i # j => order[i] # order[j]
    BY DEF SetToSeqs
  <1>3. order \in Injection(1..n, S)
    BY <1>2 DEF Injection, IsInjective
  <1>4. IsFiniteSet(1..n) /\ Cardinality(1..n) = n
    BY <1>1, FS_Interval
  <1>5. order \in Surjection(1..n, S)
    BY <1>3, <1>4, FS_Injection
  <1>. QED  BY <1>1, <1>2, <1>5 DEF Surjection

(***************************************************************************)
(* Type correctness: TypeOK is inductive.                                  *)
(***************************************************************************)
LEMMA TypeInit == Init => TypeOK
  <1>. SUFFICES ASSUME Init PROVE TypeOK
    OBVIOUS
  <1>1. umode \in [Clients -> ClientModes] /\ cmode \in [Channels -> ChannelModes]
    BY NoModesTyped DEF Init
  <1>2. bans \subseteq Bans
    BY CommandsAssumption DEF Init
  <1>3. prog \in [Clients -> Seq(Operations)]
    BY EmptySeq DEF Init
  <1>. QED  BY <1>1, <1>2, <1>3 DEF Init, TypeOK

LEMMA LogTyped ==
    ASSUME TypeOK, NEW ch \in Channels, NEW c \in Clients, Log(ch, c)
    PROVE  logs' \in [Channels -> SUBSET [address : Addresses,
                                          account : Accounts \cup {NoAccount}]]
  <1>1. [address |-> Address[c], account |-> account[c]]
            \in [address : Addresses, account : Accounts \cup {NoAccount}]
    BY ClientsAssumption DEF TypeOK
  <1>. QED  BY <1>1 DEF Log, TypeOK

LEMMA BanRowsTyped ==
    ASSUME TypeOK, NEW at \in Channels, NEW ch \in Channels, NEW v \in Revealed(at)
    PROVE  BanRows(ch, v) \subseteq Bans
  <1>1. v \in Clients
    BY DEF Revealed, TypeOK
  <1>2. Address[v] \in Addresses /\ account[v] \in Accounts \cup {NoAccount}
    BY <1>1, ClientsAssumption DEF TypeOK
  <1>. QED  BY <1>2 DEF BanRows, Bans

LEMMA SomeOrdered ==
    ASSUME NEW S \in SUBSET Clients, NEW order \in SetToSeqs(S)
    PROVE  \E n \in Nat : DOMAIN order = 1..n /\ \A i \in 1..n : order[i] \in Clients
  <1>1. IsFiniteSet(S)
    BY ClientsAssumption, FS_Subset
  <1>. QED  BY <1>1, OrderVisitsAll

LEMMA TypeNext == TypeOK /\ [Next]_vars => TypeOK'
  <1>. SUFFICES ASSUME TypeOK, [Next]_vars PROVE TypeOK'
    OBVIOUS
  <1>. USE DEF registry, histories
  <1>1. ASSUME NEW c \in Clients, Connect(c) PROVE TypeOK'
    BY <1>1, NoModesTyped DEF Connect, TypeOK
  <1>2. ASSUME NEW c \in Clients, User(c) PROVE TypeOK'
    <2>1. Join(Lobby, c, Flag) \in Operations /\ Join(ServerChannel, c, Flag) \in Operations
      BY OperationsTyped, ChannelsAssumption, NoModesTyped DEF Keys
    <2>2. AutoJoins(c, GlobalPermission(c)) \in Seq(Operations)
      BY <2>1, EmptySeq, ConcatProperties DEF AutoJoins
    <2>. QED  BY <1>2, <2>2 DEF User, TypeOK
  <1>3. ASSUME NEW c \in Clients, Pass(c) PROVE TypeOK'
    <2>0. Kill(c) \in Operations
      BY OperationsTyped, ChannelsAssumption, NoModesTyped DEF Keys
    <2>1. <<Kill(c)>> \in Seq(Operations)
      BY <2>0
    <2>. QED  BY <1>3, <2>1 DEF Pass, TypeOK
  <1>4. ASSUME NEW c \in Clients, Identify(c) PROVE TypeOK'
    <2>1. Join(ServerChannel, c, Flag) \in Operations /\ PartBanned(c) \in Operations
      BY OperationsTyped, ChannelsAssumption, NoModesTyped DEF Keys
    <2>2. <<Join(ServerChannel, c, Flag)>> \o <<PartBanned(c)>> \in Seq(Operations)
      BY <2>1, ConcatProperties
    <2>3. <<>> \o <<PartBanned(c)>> \in Seq(Operations)
      BY <2>1, ConcatProperties, EmptySeq
    <2>. QED  BY <1>4, <2>2, <2>3 DEF Identify, TypeOK
  <1>5. ASSUME NEW c \in Clients, Quit(c) PROVE TypeOK'
    <2>0. Kill(c) \in Operations
      BY OperationsTyped, ChannelsAssumption, NoModesTyped DEF Keys
    <2>1. <<Kill(c)>> \in Seq(Operations)
      BY <2>0
    <2>. QED  BY <1>5, <2>1 DEF Quit, TypeOK
  <1>6. ASSUME NEW c \in Clients, JoinCommand(c) PROVE TypeOK'
    <2>1. PICK j \in JoinCommands :
             prog' = [prog EXCEPT ![c] = [i \in 1..Len(j.chans) |-> Join(j.chans[i], c, j.key)]]
      BY <1>6 DEF JoinCommand
    <2>2. j.chans \in Seq(Channels) /\ j.key \in Keys
      BY CommandsAssumption
    <2>3. \A i \in 1..Len(j.chans) : Join(j.chans[i], c, j.key) \in Operations
      BY <2>2, OperationsTyped, ElementOfSeq, NoModesTyped
    <2>4. [i \in 1..Len(j.chans) |-> Join(j.chans[i], c, j.key)] \in Seq(Operations)
      BY <2>2, <2>3, LenProperties
    <2>. QED  BY <1>6, <2>1, <2>4 DEF JoinCommand, TypeOK
  <1>7. ASSUME NEW c \in Clients, PartCommand(c) PROVE TypeOK'
    <2>1. PICK p \in PartCommands :
             prog' = [prog EXCEPT ![c] = [i \in 1..Len(p) |-> Part(p[i], c)]]
      BY <1>7 DEF PartCommand
    <2>2. p \in Seq(Channels)
      BY CommandsAssumption
    <2>3. \A i \in 1..Len(p) : Part(p[i], c) \in Operations
      BY <2>2, OperationsTyped, ElementOfSeq, NoModesTyped DEF Keys
    <2>4. [i \in 1..Len(p) |-> Part(p[i], c)] \in Seq(Operations)
      BY <2>2, <2>3, LenProperties
    <2>. QED  BY <1>7, <2>1, <2>4 DEF PartCommand, TypeOK
  <1>8. ASSUME NEW c \in Clients, UserMode(c) PROVE TypeOK'
    <2>1. umode' \in [Clients -> ClientModes]
      <3>1. PICK m \in UserModeCommands : umode' = [umode EXCEPT ![c] = Changed(m, umode[c])]
        BY <1>8 DEF UserMode
      <3>2. Changed(m, umode[c]) \in ClientModes
        BY ChangedTyped DEF TypeOK, ClientModes
      <3>. QED  BY <3>1, <3>2 DEF TypeOK
    <2>2. prog' \in [Clients -> Seq(Operations)]
      <3>1. CASE UNCHANGED prog
        BY <3>1 DEF TypeOK
      <3>2. ASSUME NEW order \in SetToSeqs(ChannelsOf(c)),
                   prog' = [prog EXCEPT ![c] = [i \in DOMAIN order |-> Refresh(order[i], c)]]
            PROVE  prog' \in [Clients -> Seq(Operations)]
        <4>1. IsFiniteSet(ChannelsOf(c)) /\ ChannelsOf(c) \subseteq Channels
          BY ChannelsAssumption, FS_Subset DEF TypeOK, ChannelsOf
        <4>2. PICK n \in Nat : DOMAIN order = 1..n /\ \A i \in 1..n : order[i] \in Channels
          BY <4>1, OrderVisitsAll
        <4>3. \A i \in 1..n : Refresh(order[i], c) \in Operations
          BY <4>2, OperationsTyped, NoModesTyped DEF Keys
        <4>4. [i \in 1..n |-> Refresh(order[i], c)] \in Seq(Operations)
          BY <4>3
        <4>. QED  BY <3>2, <4>2, <4>4 DEF TypeOK
      <3>. QED  BY <1>8, <3>1, <3>2 DEF UserMode
    <2>. QED  BY <1>8, <2>1, <2>2 DEF UserMode, TypeOK
  <1>9. ASSUME NEW c \in Clients, NEW ch \in Channels, Names(c, ch) PROVE TypeOK'
    <2>1. Others(AnonCount(ch, c)) \in SUBSET Nat
      BY AnonCountTyped, OthersTyped DEF AnonCount
    <2>. QED  BY <1>9, <2>1 DEF Names, TypeOK
  <1>10. ASSUME NEW c \in Clients, NEW ch \in Channels, Privmsg(c, ch) PROVE TypeOK'
    <2>1. /\ count' \in [Channels -> [Clients -> Nat]]
          /\ shown' \in [Channels -> [Clients -> SUBSET Nat]]
      BY <1>10, UpdateTyped DEF Privmsg, TypeOK
    <2>2. logs' \in [Channels -> SUBSET [address : Addresses,
                                         account : Accounts \cup {NoAccount}]]
      BY <1>10, LogTyped DEF Privmsg
    <2>. QED  BY <1>10, <2>1, <2>2 DEF Privmsg, TypeOK
  <1>11. ASSUME NEW c \in Clients, NEW ch \in Channels, Topic(c, ch) PROVE TypeOK'
    <2>1. logs' \in [Channels -> SUBSET [address : Addresses,
                                         account : Accounts \cup {NoAccount}]]
      BY <1>11, LogTyped DEF Topic
    <2>. QED  BY <1>11, <2>1 DEF Topic, TypeOK
  <1>12. ASSUME NEW c \in Clients, NEW ch \in Channels, ChannelMode(c, ch) PROVE TypeOK'
    <2>1. PICK m \in ModeCommands : cmode' = [cmode EXCEPT ![ch] = Changed(m, cmode[ch])]
      BY <1>12 DEF ChannelMode
    <2>2. Changed(m, cmode[ch]) \in ChannelModes
      BY ChangedTyped DEF TypeOK, ChannelModes
    <2>3. Enforce(ch, c) \in Operations /\ Announce(ch, c, cmode[ch]) \in Operations
      BY OperationsTyped DEF TypeOK, Keys
    <2>4. <<Enforce(ch, c), Announce(ch, c, cmode[ch])>> \in Seq(Operations)
      BY <2>3
    <2>. QED  BY <1>12, <2>1, <2>2, <2>4 DEF ChannelMode, TypeOK
  <1>13. ASSUME NEW c \in Clients, JoinChannel(c) PROVE TypeOK'
    <2>. DEFINE o == Head(prog[c])
                stored == [count[o.ch] EXCEPT ![o.who] = AnonCount(o.ch, o.who) + 1]
                listed == [shown[o.ch] EXCEPT ![o.who] = Others(AnonCountIn(stored, o.ch, o.who))]
                seen == IF o.who \in terminating THEN shown[o.ch] ELSE listed
    <2>1. /\ prog[c] # <<>>
          /\ UpdateClientCount(stored, seen, o.ch, o.who) /\ Log(o.ch, o.who)
          /\ Continue(c, <<>>)
          /\ late' \in {late, late \cup {<<o.ch, o.who>>}}
          /\ o.who \in SSL => late' = late
          /\ UNCHANGED <<registry, umode, channels, cmode, topic, bans, killed>>
      BY <1>13 DEF JoinChannel, At
    <2>2. o.ch \in Channels /\ o.who \in Clients
      BY <2>1, HeadTyped DEF Operations
    <2>3. stored \in [Clients -> Nat]
      BY <2>2, AnonCountTyped DEF AnonCount, TypeOK
    <2>4. listed \in [Clients -> SUBSET Nat] /\ shown[o.ch] \in [Clients -> SUBSET Nat]
      BY <2>2, AnonCountTyped, OthersTyped DEF TypeOK
    <2>. HIDE DEF o, stored, listed
    <2>5. /\ count' \in [Channels -> [Clients -> Nat]]
          /\ shown' \in [Channels -> [Clients -> SUBSET Nat]]
      BY <2>1, <2>2, <2>3, <2>4, UpdateTyped
    <2>. HIDE DEF seen
    <2>6. logs' \in [Channels -> SUBSET [address : Addresses,
                                         account : Accounts \cup {NoAccount}]]
      BY <2>1, <2>2, LogTyped
    <2>7. prog' \in [Clients -> Seq(Operations)]
      BY <2>1, ContinueTyped, EmptySeq
    <2>8. late' \subseteq Channels \X (Clients \ SSL)
      BY <2>1, <2>2 DEF TypeOK
    <2>. QED  BY <2>1, <2>5, <2>6, <2>7, <2>8 DEF TypeOK
  <1>24. ASSUME NEW c \in Clients, Admit(c) PROVE TypeOK'
    <2>. DEFINE o == Head(prog[c])
    <2>1. /\ prog[c] # <<>> /\ channels' = channels \cup {o.ch}
          /\ Continue(c, <<Enter(o.ch, o.who, cmode[o.ch])>>)
          /\ UNCHANGED <<registry, umode, cmode, count, topic, logs, bans, shown, histories>>
      BY <1>24 DEF Admit, At
    <2>2. o.ch \in Channels /\ o.who \in Clients
      BY <2>1, HeadTyped DEF Operations
    <2>. HIDE DEF o
    <2>3. Enter(o.ch, o.who, cmode[o.ch]) \in Operations
      BY <2>2, OperationsTyped DEF Keys, TypeOK
    <2>4. <<Enter(o.ch, o.who, cmode[o.ch])>> \in Seq(Operations)
      BY <2>3
    <2>5. prog' \in [Clients -> Seq(Operations)]
      BY <2>1, <2>4, ContinueTyped
    <2>. QED  BY <2>1, <2>2, <2>5 DEF TypeOK
  <1>25. ASSUME NEW c \in Clients, NEW ch \in Channels, Kick(c, ch) PROVE TypeOK'
    <2>1. PICK v \in Revealed(ch) : prog' = [prog EXCEPT ![c] = <<Part(ch, v)>>]
      BY <1>25 DEF Kick
    <2>2. v \in Clients
      BY DEF Revealed, TypeOK
    <2>3. Part(ch, v) \in Operations
      BY <2>2, OperationsTyped, NoModesTyped DEF Keys
    <2>4. <<Part(ch, v)>> \in Seq(Operations)
      BY <2>3
    <2>. QED  BY <1>25, <2>1, <2>4 DEF Kick, TypeOK
  <1>26. ASSUME NEW c \in Clients, NEW ch \in Channels, Ban(c, ch) PROVE TypeOK'
    <2>. DEFINE found(v) == {m \in Members(ch) \cap clients :
                                  SameUser(m, Address[v], account[v])}
    <2>0. PICK v \in Revealed(ch) :
             /\ bans' = bans \cup BanRows(ch, v)
             /\ \E order \in SetToSeqs(found(v)) :
                   prog' = [prog EXCEPT ![c] = [i \in DOMAIN order |-> Part(ch, order[i])]]
      BY <1>26 DEF Ban
    <2>1. PICK order \in SetToSeqs(found(v)) :
             /\ bans' = bans \cup BanRows(ch, v)
             /\ prog' = [prog EXCEPT ![c] = [i \in DOMAIN order |-> Part(ch, order[i])]]
      BY <2>0
    <2>2. bans' \subseteq Bans
      BY <2>1, BanRowsTyped DEF TypeOK
    <2>3. PICK n \in Nat : DOMAIN order = 1..n /\ \A i \in 1..n : order[i] \in Clients
      <3>1. found(v) \in SUBSET Clients
        BY DEF TypeOK
      <3>. HIDE DEF found
      <3>. QED  BY <3>1, SomeOrdered
    <2>4. \A i \in 1..n : Part(ch, order[i]) \in Operations
      BY <2>3, OperationsTyped, NoModesTyped DEF Keys
    <2>5. [i \in DOMAIN order |-> Part(ch, order[i])] \in Seq(Operations)
      BY <2>3, <2>4
    <2>. QED  BY <1>26, <2>1, <2>2, <2>5 DEF Ban, TypeOK
  <1>27. ASSUME NEW c \in Clients, NEW ch \in Channels, KillCommand(c, ch) PROVE TypeOK'
    <2>. DEFINE found(v) == {m \in clients : SameUser(m, Address[v], account[v])}
    <2>0. PICK v \in Revealed(ch) :
             /\ bans' = bans \cup BanRows(ServerChannel, v)
             /\ \E order \in SetToSeqs(found(v)) :
                   prog' = [prog EXCEPT ![c] = [i \in DOMAIN order |-> Kill(order[i])]]
      BY <1>27 DEF KillCommand
    <2>1. PICK order \in SetToSeqs(found(v)) :
             /\ bans' = bans \cup BanRows(ServerChannel, v)
             /\ prog' = [prog EXCEPT ![c] = [i \in DOMAIN order |-> Kill(order[i])]]
      BY <2>0
    <2>2. bans' \subseteq Bans
      BY <2>1, BanRowsTyped, ChannelsAssumption DEF TypeOK
    <2>3. PICK n \in Nat : DOMAIN order = 1..n /\ \A i \in 1..n : order[i] \in Clients
      <3>1. found(v) \in SUBSET Clients
        BY DEF TypeOK
      <3>. HIDE DEF found
      <3>. QED  BY <3>1, SomeOrdered
    <2>4. \A i \in 1..n : Kill(order[i]) \in Operations
      BY <2>3, OperationsTyped, ChannelsAssumption, NoModesTyped DEF Keys
    <2>5. [i \in DOMAIN order |-> Kill(order[i])] \in Seq(Operations)
      BY <2>3, <2>4
    <2>. QED  BY <1>27, <2>1, <2>2, <2>5 DEF KillCommand, TypeOK
  <1>14. ASSUME NEW c \in Clients, JoinRefused(c) PROVE TypeOK'
    <2>1. prog' \in [Clients -> Seq(Operations)]
      BY <1>14, ContinueTyped, EmptySeq DEF JoinRefused, At
    <2>. QED  BY <1>14, <2>1 DEF JoinRefused, TypeOK
  <1>15. ASSUME NEW c \in Clients, PartChannel(c) PROVE TypeOK'
    <2>. DEFINE o == Head(prog[c])
                stored == [count[o.ch] EXCEPT ![o.who] = 0]
                seen == [shown[o.ch] EXCEPT ![o.who] = {}]
    <2>1. /\ prog[c] # <<>>
          /\ UpdateClientCount(stored, seen, o.ch, o.who) /\ Log(o.ch, o.who)
          /\ Continue(c, <<>>)
          /\ late' \subseteq late
          /\ UNCHANGED <<registry, umode, channels, cmode, topic, bans, killed>>
      BY <1>15 DEF PartChannel, At
    <2>2. o.ch \in Channels /\ o.who \in Clients
      BY <2>1, HeadTyped DEF Operations
    <2>3. stored \in [Clients -> Nat] /\ seen \in [Clients -> SUBSET Nat]
      BY <2>2 DEF TypeOK
    <2>. HIDE DEF o, stored, seen
    <2>5. /\ count' \in [Channels -> [Clients -> Nat]]
          /\ shown' \in [Channels -> [Clients -> SUBSET Nat]]
      BY <2>1, <2>2, <2>3, UpdateTyped
    <2>6. logs' \in [Channels -> SUBSET [address : Addresses,
                                         account : Accounts \cup {NoAccount}]]
      BY <2>1, <2>2, LogTyped
    <2>7. prog' \in [Clients -> Seq(Operations)]
      BY <2>1, ContinueTyped, EmptySeq
    <2>. QED  BY <2>1, <2>5, <2>6, <2>7 DEF TypeOK
  <1>16. ASSUME NEW c \in Clients, PartRefused(c) PROVE TypeOK'
    <2>1. prog' \in [Clients -> Seq(Operations)]
      BY <1>16, ContinueTyped, EmptySeq DEF PartRefused, At
    <2>. QED  BY <1>16, <2>1 DEF PartRefused, TypeOK
  <1>17. ASSUME NEW c \in Clients, RefreshCounts(c) \/ AnnounceMode(c) PROVE TypeOK'
    <2>. DEFINE o == Head(prog[c])
    <2>1. /\ prog[c] # <<>>
          /\ \/ UpdateClientCount(count[o.ch], shown[o.ch], o.ch, o.who)
             \/ UNCHANGED <<count, shown>>
          /\ Continue(c, <<>>)
          /\ UNCHANGED <<registry, umode, channels, cmode, topic, logs, bans, histories>>
      BY <1>17 DEF RefreshCounts, AnnounceMode, At
    <2>2. o.ch \in Channels
      BY <2>1, HeadTyped DEF Operations
    <2>3. count[o.ch] \in [Clients -> Nat] /\ shown[o.ch] \in [Clients -> SUBSET Nat]
      BY <2>2 DEF TypeOK
    <2>. HIDE DEF o
    <2>4. /\ count' \in [Channels -> [Clients -> Nat]]
          /\ shown' \in [Channels -> [Clients -> SUBSET Nat]]
      <3>1. CASE UNCHANGED <<count, shown>>
        BY <3>1 DEF TypeOK
      <3>2. CASE UpdateClientCount(count[o.ch], shown[o.ch], o.ch, o.who)
        BY <3>2, <2>2, <2>3, UpdateTyped
      <3>. QED  BY <2>1, <3>1, <3>2
    <2>5. prog' \in [Clients -> Seq(Operations)]
      BY <2>1, ContinueTyped, EmptySeq
    <2>. QED  BY <2>1, <2>4, <2>5 DEF TypeOK
  <1>18. ASSUME NEW c \in Clients, EnforceModes(c) PROVE TypeOK'
    <2>. DEFINE ch == Head(prog[c]).ch
                plain == IF HasMode(cmode[ch], "z") THEN (Members(ch) \cap clients) \ SSL ELSE {}
    <2>1. ch \in Channels
      BY <1>18, HeadTyped DEF EnforceModes, At, Operations
    <2>2. IsFiniteSet(plain) /\ plain \subseteq Clients
      BY ClientsAssumption, FS_Subset, FS_EmptySet DEF TypeOK
    <2>3. PICK order \in SetToSeqs(plain) :
             Continue(c, [i \in DOMAIN order |-> Part(ch, order[i])])
      BY <1>18 DEF EnforceModes
    <2>4. PICK n \in Nat : DOMAIN order = 1..n /\ \A i \in 1..n : order[i] \in Clients
      BY <2>2, OrderVisitsAll
    <2>. HIDE DEF ch
    <2>5. \A i \in 1..n : Part(ch, order[i]) \in Operations
      BY <2>1, <2>4, OperationsTyped, NoModesTyped DEF Keys
    <2>6. [i \in DOMAIN order |-> Part(ch, order[i])] \in Seq(Operations)
      BY <2>4, <2>5
    <2>7. prog' \in [Clients -> Seq(Operations)]
      BY <1>18, <2>3, <2>6, ContinueTyped DEF EnforceModes, At
    <2>8. late' \subseteq late
      BY <1>18 DEF EnforceModes
    <2>. QED  BY <1>18, <2>7, <2>8 DEF EnforceModes, TypeOK
  <1>19. ASSUME NEW c \in Clients, PartIfBanned(c) PROVE TypeOK'
    <2>1. prog' \in [Clients -> Seq(Operations)]
      <3>1. PICK first : Continue(c, first) /\
                (first = <<>> \/ \E ch \in ChannelsOf(c) : first = <<Part(ch, c)>>)
        BY <1>19 DEF PartIfBanned
      <3>2. \A ch \in ChannelsOf(c) : Part(ch, c) \in Operations
        BY OperationsTyped, NoModesTyped DEF ChannelsOf, TypeOK, Keys
      <3>3. first \in Seq(Operations)
        <4>1. CASE first = <<>>
          BY <4>1, EmptySeq
        <4>2. ASSUME NEW ch \in ChannelsOf(c), first = <<Part(ch, c)>>
              PROVE  first \in Seq(Operations)
          <5>1. Part(ch, c) \in Operations
            BY <3>2
          <5>. HIDE DEF Part
          <5>. QED  BY <5>1, <4>2
        <4>. QED  BY <3>1, <4>1, <4>2
      <3>. QED  BY <1>19, <3>1, <3>3, ContinueTyped DEF PartIfBanned, At
    <2>. QED  BY <1>19, <2>1 DEF PartIfBanned, TypeOK
  <1>20. ASSUME NEW c \in Clients, KillClient(c) PROVE TypeOK'
    <2>. DEFINE who == Head(prog[c]).who
                from == IF who \in clients \ terminating THEN ChannelsOf(who) ELSE {}
    <2>1. who \in Clients
      BY <1>20, HeadTyped DEF KillClient, At, Operations
    <2>2. IsFiniteSet(from) /\ from \subseteq Channels
      BY ChannelsAssumption, FS_Subset, FS_EmptySet DEF TypeOK, ChannelsOf
    <2>3. PICK order \in SetToSeqs(from) :
             Continue(c, [i \in DOMAIN order |-> Part(order[i], who)])
      BY <1>20 DEF KillClient
    <2>. HIDE DEF from
    <2>4. PICK n \in Nat : DOMAIN order = 1..n /\ \A i \in 1..n : order[i] \in Channels
      BY <2>2, OrderVisitsAll
    <2>. HIDE DEF who
    <2>5. \A i \in 1..n : Part(order[i], who) \in Operations
      BY <2>1, <2>4, OperationsTyped, NoModesTyped DEF Keys
    <2>6. [i \in DOMAIN order |-> Part(order[i], who)] \in Seq(Operations)
      BY <2>4, <2>5
    <2>7. prog' \in [Clients -> Seq(Operations)]
      BY <1>20, <2>3, <2>6, ContinueTyped DEF KillClient, At
    <2>8. terminating' \subseteq Clients
      BY <1>20, <2>1 DEF KillClient, TypeOK, who
    <2>9. killed' \subseteq killed \cup clients
      BY <1>20 DEF KillClient
    <2>. QED  BY <1>20, <2>7, <2>8, <2>9 DEF KillClient, TypeOK
  <1>21. ASSUME NEW c \in Clients, Exit(c) PROVE TypeOK'
    BY <1>21 DEF Exit, TypeOK
  <1>22. ASSUME NEW b \in bans, BanExpires(b) PROVE TypeOK'
    BY <1>22 DEF BanExpires, TypeOK
  <1>23. CASE UNCHANGED vars
    BY <1>23 DEF vars, TypeOK
  <1>. QED
    BY <1>1, <1>2, <1>3, <1>4, <1>5, <1>6, <1>7, <1>8, <1>9, <1>10, <1>11, <1>12, <1>13,
       <1>14, <1>15, <1>16, <1>17, <1>18, <1>19, <1>20, <1>21, <1>22, <1>23, <1>24,
       <1>25, <1>26, <1>27
       DEF Next, Handle, Step

(***************************************************************************)
(* The tables of the server, the programs of the goroutines and what the   *)
(* clients see always have their types, whatever the clients do.           *)
(***************************************************************************)
THEOREM TypeCorrect == Spec => []TypeOK
  BY TypeInit, TypeNext, PTL DEF Spec

=============================================================================
