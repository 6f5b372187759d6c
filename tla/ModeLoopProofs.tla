--------------------------- MODULE ModeLoopProofs ---------------------------
(***************************************************************************)
(* Theorems about module ModeLoop, for any letters and arguments, however  *)
(* many, and any modes that were set before.                               *)
(***************************************************************************)
EXTENDS ModeLoop, FiniteSetTheorems, SequenceTheorems, TLAPS

(***************************************************************************)
(* The letters that take an argument, counted one letter further.          *)
(***************************************************************************)
WithArgs(l, i) == {j \in 1..i : l[j] \in CHANNEL_MODES_ARG}

LEMMA CountType ==
    ASSUME NEW l, NEW i \in Nat
    PROVE  IsFiniteSet(WithArgs(l, i)) /\ ArgIndex(l, i) \in Nat
<1>1. IsFiniteSet(1..i)
  BY FS_Interval
<1>2. WithArgs(l, i) \subseteq 1..i
  BY DEF WithArgs
<1>3. IsFiniteSet(WithArgs(l, i))
  BY <1>1, <1>2, FS_Subset
<1> QED
  BY <1>3, FS_CardinalityType DEF ArgIndex, WithArgs

LEMMA CountNone == ASSUME NEW l PROVE ArgIndex(l, 0) = 0
<1>1. {j \in 1..0 : l[j] \in CHANNEL_MODES_ARG} = {}
  OBVIOUS
<1> QED
  BY <1>1, FS_EmptySet DEF ArgIndex

LEMMA CountNext ==
    ASSUME NEW l, NEW n \in Nat
    PROVE  ArgIndex(l, n + 1) =
              IF l[n + 1] \in CHANNEL_MODES_ARG THEN ArgIndex(l, n) + 1 ELSE ArgIndex(l, n)
<1>1. CASE l[n + 1] \in CHANNEL_MODES_ARG
  <2>1. WithArgs(l, n + 1) = WithArgs(l, n) \cup {n + 1} /\ n + 1 \notin WithArgs(l, n)
    BY <1>1 DEF WithArgs
  <2>2. Cardinality(WithArgs(l, n + 1)) = Cardinality(WithArgs(l, n)) + 1
    BY <2>1, CountType, FS_AddElement
  <2> QED
    BY <1>1, <2>2 DEF ArgIndex, WithArgs
<1>2. CASE l[n + 1] \notin CHANNEL_MODES_ARG
  <2>1. WithArgs(l, n + 1) = WithArgs(l, n)
    BY <1>2 DEF WithArgs
  <2> QED
    BY <1>2, <2>1 DEF ArgIndex, WithArgs
<1> QED
  BY <1>1, <1>2

(***************************************************************************)
(* What AddModes says of the letters read so far it says of all letters.   *)
(***************************************************************************)
Prefix(n) == SubSeq(letters, 1, n)

LEMMA PrefixType ==
    ASSUME letters \in Seq(Letters), NEW n \in 0..Len(letters)
    PROVE  /\ DOMAIN Prefix(n) = 1..n
           /\ \A i \in 1..n : Prefix(n)[i] = letters[i]
  BY DEF Prefix

LEMMA PrefixCounts ==
    ASSUME letters \in Seq(Letters), NEW n \in 0..Len(letters), NEW i \in 1..n
    PROVE  /\ Applies(Prefix(n), args, i) = Applies(letters, args, i)
           /\ ValueAt(Prefix(n), args, i) = ValueAt(letters, args, i)
<1>1. \A j \in 1..i : Prefix(n)[j] = letters[j]
  BY PrefixType
<1>2. {j \in 1..i : Prefix(n)[j] \in CHANNEL_MODES_ARG} =
         {j \in 1..i : letters[j] \in CHANNEL_MODES_ARG}
  BY <1>1
<1>3. ArgIndex(Prefix(n), i) = ArgIndex(letters, i)
  BY <1>2 DEF ArgIndex
<1>4. Prefix(n)[i] = letters[i]
  BY PrefixType
<1> QED
  BY <1>3, <1>4 DEF Applies, ValueAt


(***************************************************************************)
(* The first of the letters read that sets a mode, and what it sets.       *)
(***************************************************************************)
Sets(m, i) == letters[i] = m /\ Applies(letters, args, i)

First(n, m) == {i \in 1..n : Sets(m, i) /\ \A j \in 1..(i - 1) : ~Sets(m, j)}

Read(n) ==
    [m \in DOMAIN before |->
        IF HasMode(before, m) \/ First(n, m) = {}
        THEN before[m]
        ELSE ValueAt(letters, args, CHOOSE i \in First(n, m) : TRUE)]

LEMMA ReadIsAddModes ==
    ASSUME letters \in Seq(Letters), NEW n \in 0..Len(letters)
    PROVE  AddModes(before, Prefix(n), args) = Read(n)
<1>1. ASSUME NEW m PROVE FirstOf(Prefix(n), args, m) = First(n, m)
  <2>1. \A i \in 1..n : Prefix(n)[i] = letters[i]
                        /\ Applies(Prefix(n), args, i) = Applies(letters, args, i)
    BY PrefixType, PrefixCounts
  <2>2. DOMAIN Prefix(n) = 1..n
    BY PrefixType
  <2>3. \A i \in 1..n : \A j \in 1..(i - 1) : j \in 1..n
    OBVIOUS
  <2> QED
    BY <2>1, <2>2, <2>3 DEF FirstOf, First, Sets
<1>2. ASSUME NEW m \in DOMAIN before
      PROVE  AddModes(before, Prefix(n), args)[m] = Read(n)[m]
  <2>1. CASE HasMode(before, m) \/ First(n, m) = {}
    BY <1>1, <2>1 DEF AddModes, Read
  <2>2. CASE ~(HasMode(before, m) \/ First(n, m) = {})
    <3> DEFINE i == CHOOSE i \in First(n, m) : TRUE
    <3>1. i \in 1..n
      BY <2>2 DEF First
    <3>2. FirstOf(Prefix(n), args, m) = First(n, m)
      BY <1>1
    <3>3. AddModes(before, Prefix(n), args)[m] = ValueAt(Prefix(n), args, i)
      BY <2>2, <3>2 DEF AddModes
    <3>4. Read(n)[m] = ValueAt(letters, args, i)
      BY <2>2 DEF Read
    <3>5. ValueAt(Prefix(n), args, i) = ValueAt(letters, args, i)
      BY <3>1, PrefixCounts
    <3> QED
      BY <3>3, <3>4, <3>5
  <2> QED
    BY <2>1, <2>2
<1>3. /\ AddModes(before, Prefix(n), args) =
            [m \in DOMAIN before |-> AddModes(before, Prefix(n), args)[m]]
      /\ Read(n) = [m \in DOMAIN before |-> Read(n)[m]]
  BY DEF AddModes, Read
<1> QED
  BY <1>2, <1>3

(***************************************************************************)
(* The inductive invariant: p counts the letters that take an argument     *)
(* until there are no arguments left, and a mode that no letter sets first *)
(* no letter sets.                                                         *)
(***************************************************************************)
Parameters ==
    /\ letters \in Seq(Letters) /\ args \in Seq(Args)
    /\ next \in 1..(Len(letters) + 1)
    /\ before = [m \in DOMAIN before |-> before[m]]
    /\ \A m \in DOMAIN before : before[m] \in ModeValues

Counting ==
    p = IF ArgIndex(letters, next - 1) <= Len(args)
        THEN ArgIndex(letters, next - 1) + 1 ELSE Len(args) + 1

FirstFound ==
    \A m \in DOMAIN before :
        First(next - 1, m) = {} => \A j \in 1..(next - 1) : ~Sets(m, j)

LInv == Parameters /\ Counting /\ FirstFound /\ modes = Read(next - 1)

LEMMA SetsType ==
    ASSUME args \in Seq(Args), NEW i, Applies(letters, args, i)
    PROVE  ValueAt(letters, args, i) \in Args \cup {Flag}
  BY DEF Applies, ValueAt

LEMMA FirstNext ==
    ASSUME Parameters, FirstFound, next <= Len(letters), NEW m \in DOMAIN before
    PROVE  First(next, m) = IF First(next - 1, m) = {} /\ Sets(m, next) THEN {next}
                            ELSE First(next - 1, m)
<1>1. next \in Nat /\ 1..next = (1..(next - 1)) \cup {next} /\ next \notin 1..(next - 1)
  BY DEF Parameters
<1>2. CASE First(next - 1, m) = {}
  BY <1>1, <1>2 DEF First, FirstFound
<1>3. CASE First(next - 1, m) # {}
  BY <1>1, <1>3 DEF First
<1> QED
  BY <1>2, <1>3

LEMMA ReadNext ==
    ASSUME Parameters, FirstFound, next <= Len(letters)
    PROVE  Read(next) = IF Applies(letters, args, next)
                        THEN AddMode(Read(next - 1), letters[next], ValueAt(letters, args, next))
                        ELSE Read(next - 1)
<1> DEFINE V == ValueAt(letters, args, next)
<1>1. ASSUME NEW m \in DOMAIN before
      PROVE  Read(next)[m] =
                IF Applies(letters, args, next) /\ m = letters[next]
                                                /\ ~HasMode(Read(next - 1), m)
                THEN V ELSE Read(next - 1)[m]
  <2>1. CASE HasMode(before, m)
    BY <2>1 DEF Read, HasMode
  <2>2. CASE ~HasMode(before, m) /\ First(next - 1, m) # {}
    <3>1. First(next, m) = First(next - 1, m)
      BY <2>2, FirstNext
    <3>2. Applies(letters, args, CHOOSE i \in First(next - 1, m) : TRUE)
      BY <2>2 DEF First, Sets
    <3>3. HasMode(Read(next - 1), m)
      BY <2>2, <3>2, SetsType, EntityAssumption DEF Read, HasMode, Parameters
    <3> QED
      BY <2>2, <3>1, <3>3 DEF Read
  <2>3. CASE ~HasMode(before, m) /\ First(next - 1, m) = {}
    <3>1. ~HasMode(Read(next - 1), m)
      BY <2>3 DEF Read, HasMode
    <3>2. CASE Sets(m, next)
      <4>1. First(next, m) = {next}
        BY <2>3, <3>2, FirstNext
      <4>2. (CHOOSE i \in {next} : TRUE) = next
        OBVIOUS
      <4>3. Read(next)[m] = V
        BY <2>3, <4>1, <4>2 DEF Read
      <4> QED
        BY <3>1, <3>2, <4>3 DEF Sets
    <3>3. CASE ~Sets(m, next)
      <4>1. First(next, m) = {}
        BY <2>3, <3>3, FirstNext
      <4> QED
        BY <2>3, <3>3, <4>1 DEF Sets, Read
    <3> QED
      BY <3>2, <3>3
  <2> QED
    BY <2>1, <2>2, <2>3
<1>2. CASE Applies(letters, args, next)
  <2>1. DOMAIN Read(next - 1) = DOMAIN before /\ DOMAIN Read(next) = DOMAIN before
    BY DEF Read
  <2>2. Read(next) = [m \in DOMAIN before |-> Read(next)[m]]
    BY DEF Read
  <2> QED
    BY <1>1, <1>2, <2>1, <2>2 DEF AddMode
<1>3. CASE ~Applies(letters, args, next)
  <2>1. Read(next) = [m \in DOMAIN before |-> Read(next)[m]]
        /\ Read(next - 1) = [m \in DOMAIN before |-> Read(next - 1)[m]]
    BY DEF Read
  <2> QED
    BY <1>1, <1>3, <2>1
<1> QED
  BY <1>2, <1>3


(***************************************************************************)
(* The loop starts with the modes that were set ...                        *)
(***************************************************************************)
LEMMA UptoType == ASSUME NEW S, NEW n \in Nat, NEW s \in Upto(S, n) PROVE s \in Seq(S)
<1>1. PICK k \in 0..n : s \in [1..k -> S]
  BY DEF Upto
<1> QED
  BY <1>1, SeqDef

LEMMA InitLInv == Init => LInv
<1> SUFFICES ASSUME Init PROVE LInv
  OBVIOUS
<1>1. letters \in Seq(Letters) /\ args \in Seq(Args)
  BY UptoType, BoundsAssumption DEF Init
<1>2. next = 1 /\ p = 1 /\ modes = before /\ Len(args) \in Nat /\ Len(letters) \in Nat
  BY <1>1 DEF Init
<1>3. /\ before = [m \in DOMAIN before |-> before[m]]
      /\ \A m \in DOMAIN before : before[m] \in ModeValues
  <2>1. PICK set \in SUBSET {"c", "k"}, allowed \in {CLIENT_MODES, CHANNEL_MODES} :
           \E v \in Args :
              before = [m \in allowed |-> IF m \notin set THEN Unset
                                          ELSE IF m = "k" THEN v ELSE Flag]
    BY DEF Init
  <2>2. PICK v \in Args :
           before = [m \in allowed |-> IF m \notin set THEN Unset
                                       ELSE IF m = "k" THEN v ELSE Flag]
    BY <2>1
  <2> QED
    BY <2>2 DEF ModeValues
<1>4. Counting
  <2>1. ArgIndex(letters, next - 1) = 0
    BY <1>2, CountNone
  <2> QED
    BY <1>2, <2>1 DEF Counting
<1>5. \A m : First(next - 1, m) = {} /\ 1..(next - 1) = {}
  BY <1>2 DEF First
<1>6. modes = Read(next - 1)
  BY <1>2, <1>3, <1>5 DEF Read
<1> QED
  BY <1>1, <1>2, <1>3, <1>4, <1>5, <1>6 DEF LInv, Parameters, FirstFound

(***************************************************************************)
(* ... and every iteration reads one letter further.                       *)
(***************************************************************************)
LEMMA Iteration ==
    ASSUME LInv, Next
    PROVE  /\ next <= Len(letters) /\ next' = next + 1
           /\ UNCHANGED <<letters, args, before>>
           /\ modes' = Read(next)
           /\ p' = IF ArgIndex(letters, next) <= Len(args)
                   THEN ArgIndex(letters, next) + 1 ELSE Len(args) + 1
<1>1. next \in Nat /\ next - 1 \in Nat /\ next - 1 + 1 = next
      /\ Len(args) \in Nat /\ Len(letters) \in Nat
  BY DEF LInv, Parameters
<1>2. ArgIndex(letters, next - 1) \in Nat
  BY <1>1, CountType
<1>3. ArgIndex(letters, next) =
        IF letters[next] \in CHANNEL_MODES_ARG THEN ArgIndex(letters, next - 1) + 1
        ELSE ArgIndex(letters, next - 1)
  BY <1>1, CountNext
<1>4. DOMAIN args = 1..Len(args)
  BY DEF LInv, Parameters
<1>5. CASE WithArgument
  <2>1. ArgIndex(letters, next) = p /\ p \in 1..Len(args)
    BY <1>1, <1>2, <1>3, <1>5 DEF WithArgument, LInv, Counting
  <2>2. Applies(letters, args, next) /\ ValueAt(letters, args, next) = args[p]
    BY <1>4, <1>5, <2>1 DEF WithArgument, Applies, ValueAt
  <2> QED
    BY <1>5, <2>1, <2>2, ReadNext DEF WithArgument, LInv
<1>6. CASE MissingArgument
  <2>1. ArgIndex(letters, next) > Len(args) /\ p = Len(args) + 1
    BY <1>1, <1>2, <1>3, <1>6 DEF MissingArgument, LInv, Counting
  <2>2. ~Applies(letters, args, next)
    BY <1>1, <1>2, <1>3, <1>4, <1>6, <2>1 DEF MissingArgument, Applies
  <2>3. ~(ArgIndex(letters, next) <= Len(args))
    BY <1>1, <1>2, <1>3, <2>1
  <2> QED
    BY <1>6, <2>1, <2>2, <2>3, ReadNext DEF MissingArgument, LInv
<1>7. CASE WithoutArgument
  <2>1. Applies(letters, args, next) /\ ValueAt(letters, args, next) = Flag
    BY <1>7 DEF WithoutArgument, Applies, ValueAt
  <2> QED
    BY <1>3, <1>7, <2>1, ReadNext DEF WithoutArgument, LInv, Counting
<1> QED
  BY <1>5, <1>6, <1>7 DEF Next

LEMMA NextLInv == ASSUME LInv, [Next]_vars PROVE LInv'
<1>1. CASE Next
  <2>1. /\ next <= Len(letters) /\ next' = next + 1 /\ next' - 1 = next
        /\ letters' = letters /\ args' = args /\ before' = before
        /\ modes' = Read(next)
        /\ p' = IF ArgIndex(letters, next) <= Len(args)
                THEN ArgIndex(letters, next) + 1 ELSE Len(args) + 1
    BY <1>1, Iteration DEF LInv, Parameters
  <2>2. Parameters'
    BY <2>1 DEF LInv, Parameters
  <2>3. Counting'
    BY <2>1 DEF Counting
  <2>4. FirstFound'
    <3>1. ASSUME NEW m \in DOMAIN before, First(next, m) = {}, NEW j \in 1..next
          PROVE  ~Sets(m, j)
      <4>1. First(next - 1, m) = {} /\ ~Sets(m, next)
        BY <2>1, <3>1, FirstNext DEF LInv
      <4>2. j \in 1..(next - 1) \/ j = next
        BY DEF LInv, Parameters
      <4> QED
        BY <4>1, <4>2 DEF LInv, FirstFound
    <3> QED
      BY <2>1, <3>1 DEF FirstFound, First, Sets
  <2>5. (modes = Read(next - 1))'
    BY <2>1 DEF Read, First, Sets
  <2> QED
    BY <2>2, <2>3, <2>4, <2>5 DEF LInv
<1>2. CASE UNCHANGED vars
  <2>1. /\ letters' = letters /\ args' = args /\ before' = before
        /\ modes' = modes /\ next' = next /\ p' = p
    BY <1>2 DEF vars
  <2>2. (modes = Read(next - 1))'
    BY <2>1 DEF LInv, Read, First, Sets
  <2>3. Parameters' /\ Counting'
    BY <2>1 DEF LInv, Parameters, Counting
  <2>4. FirstFound'
    BY <2>1 DEF LInv, FirstFound, First, Sets
  <2> QED
    BY <2>2, <2>3, <2>4 DEF LInv
<1> QED
  BY <1>1, <1>2

LEMMA LInvCorrect == Spec => []LInv
  BY InitLInv, NextLInv, PTL DEF Spec

(***************************************************************************)
(* Both indices stay within what they index, whatever letters and          *)
(* arguments a client sends (entity.go:78-88).                             *)
(***************************************************************************)
THEOREM ModeLoopTypeCorrect == Spec => []TypeOK
<1>1. LInv => TypeOK
  <2> SUFFICES ASSUME LInv PROVE TypeOK
    OBVIOUS
  <2>1. p \in 1..(Len(args) + 1)
    <3>1. next - 1 \in Nat /\ Len(args) \in Nat
      BY DEF LInv, Parameters
    <3>2. ArgIndex(letters, next - 1) \in Nat
      BY <3>1, CountType
    <3> QED
      BY <3>1, <3>2 DEF LInv, Counting
  <2>2. ASSUME NEW m \in DOMAIN before PROVE Read(next - 1)[m] \in ModeValues
    <3>1. CASE HasMode(before, m) \/ First(next - 1, m) = {}
      BY <3>1 DEF LInv, Parameters, Read
    <3>2. CASE ~(HasMode(before, m) \/ First(next - 1, m) = {})
      <4>1. Applies(letters, args, CHOOSE i \in First(next - 1, m) : TRUE)
        BY <3>2 DEF First, Sets
      <4> QED
        BY <3>2, <4>1, SetsType DEF LInv, Parameters, Read, ModeValues
    <3> QED
      BY <3>1, <3>2
  <2>3. DOMAIN Read(next - 1) = DOMAIN before
    BY DEF Read
  <2> QED
    BY <2>1, <2>2, <2>3 DEF LInv, Parameters, TypeOK
<1> QED
  BY <1>1, LInvCorrect, PTL

(***************************************************************************)
(* After any number of letters the modes are what AddModes gives for them: *)
(* the closed form the rest of the project uses is the loop of the code    *)
(* (entity.go:78-88).                                                      *)
(***************************************************************************)
THEOREM LoopComputesAddModesCorrect == Spec => []LoopComputesAddModes
<1>1. LInv => LoopComputesAddModes
  <2> SUFFICES ASSUME LInv PROVE LoopComputesAddModes
    OBVIOUS
  <2>1. next - 1 \in 0..Len(letters)
    BY DEF LInv, Parameters
  <2> QED
    BY <2>1, ReadIsAddModes DEF LInv, Parameters, LoopComputesAddModes, Prefix
<1> QED
  BY <1>1, LInvCorrect, PTL

=============================================================================
