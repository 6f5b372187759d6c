-------------------------- MODULE ConnectionProofs --------------------------
(***************************************************************************)
(* Proofs about a connection, for every number of goroutines that write to *)
(* it or kill it, and every size of the buffer.                            *)
(***************************************************************************)
EXTENDS Connection, FiniteSetTheorems, SequenceTheorems, TLAPS

(***************************************************************************)
(* The inductive invariant.  A goroutine that is in a call knows where to  *)
(* go on, and never goes on in the middle of a call: so the goroutines     *)
(* that are about to put a message into the buffer are exactly those that  *)
(* have counted one.                                                       *)
(***************************************************************************)
Writing == {"test", "add", "send"}
Killing == {"kill", "mark", "wait", "asleep", "awake", "close", "hangup"}

Calls ==
    \A p \in Procs :
        /\ at[p] \in Writing =>
              back[p] \in {<<"final">>, <<"loop">>, <<"kill", "loop">>, <<"idle">>,
                           <<"kill", "done">>}
        /\ at[p] \in Killing =>
              back[p] \in {<<"loop">>, <<"final">>, <<"delete">>, <<"done">>}

IInv == TypeOK /\ Calls /\ WaitGroupCounts

(***************************************************************************)
(* How many goroutines are sending.                                        *)
(***************************************************************************)
LEMMA SendingFinite == IsFiniteSet(Sending) /\ Cardinality(Sending) \in Nat
  <1>1. IsFiniteSet({self} \cup Writers \cup Killers)
    BY ProcsAssumption, FS_Singleton, FS_Union
  <1>. QED  BY <1>1, FS_Subset, FS_CardinalityType DEF Sending, Procs

LEMMA SendingMoves ==
    ASSUME TypeOK, NEW p \in Procs, NEW l, at' = [at EXCEPT ![p] = l]
    PROVE  /\ at[p] # "send" /\ l # "send" => Cardinality(Sending') = Cardinality(Sending)
           /\ at[p] # "send" /\ l = "send" => Cardinality(Sending') = Cardinality(Sending) + 1
           /\ at[p] = "send" /\ l # "send" => Cardinality(Sending') = Cardinality(Sending) - 1
  <1>1. CASE at[p] # "send" /\ l # "send"
    <2>1. Sending' = Sending
      BY <1>1 DEF Sending, TypeOK
    <2>. QED  BY <1>1, <2>1
  <1>2. CASE at[p] # "send" /\ l = "send"
    <2>1. Sending' = Sending \cup {p} /\ p \notin Sending
      BY <1>2 DEF Sending, TypeOK
    <2>. QED  BY <1>2, <2>1, SendingFinite, FS_AddElement
  <1>3. CASE at[p] = "send" /\ l # "send"
    <2>1. Sending' = Sending \ {p} /\ p \in Sending
      BY <1>3 DEF Sending, TypeOK
    <2>. QED  BY <1>3, <2>1, SendingFinite, FS_RemoveElement
  <1>. QED  BY <1>1, <1>2, <1>3

LEMMA SendingStays ==
    ASSUME TypeOK, Done
    PROVE  Cardinality(Sending') = Cardinality(Sending)
  <1>1. Sending' = Sending
    BY DEF Sending, Done, TypeOK
  <1>. QED  BY <1>1

\* a message that is in the buffer, or being sent, is counted
LEMMA Counted ==
    ASSUME TypeOK, WaitGroupCounts, buffer > 0 \/ writer = "encode"
    PROVE  wg > 0
  BY SendingFinite DEF TypeOK, WaitGroupCounts

LEMMA IInvInit == Init => IInv
  <1>. SUFFICES ASSUME Init PROVE IInv
    OBVIOUS
  <1>1. Sending = {}
    BY DEF Init, Sending
  <1>2. TypeOK
    <2>1. at \in [Procs -> Locations]
      BY DEF Init, Locations
    <2>2. back \in [Procs -> Seq(Locations)]
      BY EmptySeq DEF Init
    <2>3. wg \in Nat /\ buffer \in 0..Cap
      BY CapAssumption DEF Init
    <2>. QED  BY <2>1, <2>2, <2>3 DEF Init, TypeOK
  <1>. QED
    BY <1>1, <1>2, FS_EmptySet DEF Init, IInv, Calls, Writing, Killing, WaitGroupCounts

(***************************************************************************)
(* Control: calling, returning and going on keep Calls and the types.      *)
(***************************************************************************)
LEMMA Stack ==
    \A a, b \in Locations :
        /\ <<a>> \in Seq(Locations) /\ <<a, b>> \in Seq(Locations)
        /\ Head(<<a>>) = a /\ Head(<<a, b>>) = a
        /\ Tail(<<a>>) = <<>> /\ Tail(<<a, b>>) = <<b>>
  <1>1. \A S : \A a, b \in S :
        /\ <<a>> \in Seq(S) /\ <<a, b>> \in Seq(S)
        /\ Head(<<a>>) = a /\ Head(<<a, b>>) = a
        /\ Tail(<<a>>) = <<>> /\ Tail(<<a, b>>) = <<b>>
    OBVIOUS
  <1>. QED  BY <1>1

LEMMA Returns ==
    /\ \A l \in {"final", "loop", "kill", "idle", "done", "delete"} :
          /\ l \in Locations \ Writing
          /\ <<l>> \in Seq(Locations) /\ Head(<<l>>) = l /\ Tail(<<l>>) = <<>>
    /\ \A l \in {"loop", "done"} :
          /\ <<"kill", l>> \in Seq(Locations)
          /\ Head(<<"kill", l>>) = "kill" /\ Tail(<<"kill", l>>) = <<l>>
  <1>1. \A l \in {"final", "loop", "kill", "idle", "done", "delete"} : l \in Locations \ Writing
    BY DEF Locations, Writing
  <1>2. "kill" \in Locations /\ "loop" \in Locations /\ "done" \in Locations
    BY <1>1
  <1>3. \A l \in {"final", "loop", "kill", "idle", "done", "delete"} :
            <<l>> \in Seq(Locations) /\ Head(<<l>>) = l /\ Tail(<<l>>) = <<>>
    <2>1. \A l \in Locations :
            <<l>> \in Seq(Locations) /\ Head(<<l>>) = l /\ Tail(<<l>>) = <<>>
      BY Stack
    <2>. QED  BY <1>1, <2>1
  <1>4. \A l \in {"loop", "done"} :
          /\ <<"kill", l>> \in Seq(Locations)
          /\ Head(<<"kill", l>>) = "kill" /\ Tail(<<"kill", l>>) = <<l>>
    BY <1>2, Stack
  <1>. QED  BY <1>1, <1>3, <1>4

LEMMA CallKeeps ==
    ASSUME TypeOK, Calls, NEW p \in Procs, NEW l \in Locations, NEW rest, Call(p, l, rest),
           \/ /\ l \in Writing
              /\ rest \in {<<"final">>, <<"loop">>, <<"kill", "loop">>, <<"idle">>,
                           <<"kill", "done">>}
           \/ /\ l = "kill"
              /\ rest \in {<<"loop">>, <<"final">>, <<"delete">>, <<"done">>}
    PROVE  /\ at' \in [Procs -> Locations] /\ back' \in [Procs -> Seq(Locations)]
           /\ Calls'
  <1>1. rest \in Seq(Locations)
    BY Returns
  <1>2. at' \in [Procs -> Locations] /\ back' \in [Procs -> Seq(Locations)]
    BY <1>1 DEF Call, TypeOK
  <1>3. \A q \in Procs : q # p => at'[q] = at[q] /\ back'[q] = back[q]
    BY DEF Call, TypeOK
  <1>4. at'[p] = l /\ back'[p] = rest
    BY DEF Call, TypeOK
  <1>. QED  BY <1>2, <1>3, <1>4 DEF Calls, Writing, Killing

LEMMA GotoKeeps ==
    ASSUME TypeOK, Calls, NEW p \in Procs, NEW l \in Locations, Goto(p, l),
           \/ l \notin Writing \cup Killing
           \/ l \in Writing /\ at[p] \in Writing
           \/ l \in Killing /\ at[p] \in Killing
    PROVE  /\ at' \in [Procs -> Locations] /\ back' \in [Procs -> Seq(Locations)]
           /\ Calls'
  <1>1. at' \in [Procs -> Locations] /\ back' = back
    BY DEF Goto, TypeOK
  <1>2. \A q \in Procs : q # p => at'[q] = at[q]
    BY DEF Goto, TypeOK
  <1>3. at'[p] = l
    BY DEF Goto, TypeOK
  <1>4. Writing \cap Killing = {}
    BY DEF Writing, Killing
  <1>5. Calls'
    <2>. SUFFICES ASSUME NEW q \in Procs
                  PROVE  Calls!(q)'
      BY DEF Calls
    <2>. QED  BY <1>1, <1>2, <1>3, <1>4 DEF Calls
  <1>. QED  BY <1>1, <1>5 DEF TypeOK

LEMMA ReturnKeeps ==
    ASSUME TypeOK, Calls, NEW p \in Procs, Return(p), at[p] \in Writing \cup Killing
    PROVE  /\ at' \in [Procs -> Locations] /\ back' \in [Procs -> Seq(Locations)]
           /\ Calls'
           /\ Head(back[p]) \notin Writing /\ Head(back[p]) \in Locations
           /\ at' = [at EXCEPT ![p] = Head(back[p])]
  <1>. DEFINE l == Head(back[p])
              rest == Tail(back[p])
  <1>1. CASE back[p] \in {<<"final">>, <<"loop">>, <<"idle">>, <<"delete">>, <<"done">>}
    <2>1. l \in {"final", "loop", "idle", "delete", "done"} /\ rest = <<>>
      BY <1>1, Returns
    <2>. QED  BY <2>1, EmptySeq DEF Return, Call, Calls, TypeOK, Locations, Writing, Killing
  <1>2. CASE back[p] \in {<<"kill", "loop">>, <<"kill", "done">>}
    <2>1. l = "kill" /\ rest \in {<<"loop">>, <<"done">>}
      BY <1>2, Returns
    <2>2. Call(p, l, rest)
      BY DEF Return
    <2>. HIDE DEF l, rest
    <2>3. l \in Locations /\ l \notin Writing
      BY <2>1 DEF Locations, Writing
    <2>4. /\ at' \in [Procs -> Locations] /\ back' \in [Procs -> Seq(Locations)]
          /\ Calls'
      BY <2>1, <2>2, <2>3, CallKeeps
    <2>. QED  BY <2>2, <2>3, <2>4 DEF Call, l
  <1>. QED  BY <1>1, <1>2 DEF Calls

(***************************************************************************)
(* Steps of a goroutine that leave the messages alone.                     *)
(***************************************************************************)
Control == /\ at' \in [Procs -> Locations] /\ back' \in [Procs -> Seq(Locations)]
           /\ Calls' /\ WaitGroupCounts'

LEMMA CalmGoto ==
    ASSUME IInv, NEW p \in Procs, NEW l \in Locations, Goto(p, l),
           at[p] # "send", l # "send", UNCHANGED <<wg, buffer, writer>>,
           \/ l \notin Writing \cup Killing
           \/ l \in Writing /\ at[p] \in Writing
           \/ l \in Killing /\ at[p] \in Killing
    PROVE  Control
  <1>1. Cardinality(Sending') = Cardinality(Sending)
    BY SendingMoves DEF Goto, IInv
  <1>. QED  BY <1>1, GotoKeeps DEF IInv, WaitGroupCounts, Control

LEMMA CalmCall ==
    ASSUME IInv, NEW p \in Procs, NEW l \in Locations, NEW rest, Call(p, l, rest),
           at[p] # "send", l # "send", UNCHANGED <<wg, buffer, writer>>,
           \/ /\ l \in Writing
              /\ rest \in {<<"final">>, <<"loop">>, <<"kill", "loop">>, <<"idle">>,
                           <<"kill", "done">>}
           \/ /\ l = "kill"
              /\ rest \in {<<"loop">>, <<"final">>, <<"delete">>, <<"done">>}
    PROVE  Control
  <1>1. Cardinality(Sending') = Cardinality(Sending)
    BY SendingMoves DEF Call, IInv
  <1>. QED  BY <1>1, CallKeeps DEF IInv, WaitGroupCounts, Control

LEMMA CalmReturn ==
    ASSUME IInv, NEW p \in Procs, Return(p), at[p] \in Writing \cup Killing,
           at[p] # "send", UNCHANGED <<wg, buffer, writer>>
    PROVE  Control
  <1>1. /\ at' = [at EXCEPT ![p] = Head(back[p])] /\ Head(back[p]) # "send"
        /\ at' \in [Procs -> Locations] /\ back' \in [Procs -> Seq(Locations)]
        /\ Calls'
    BY ReturnKeeps DEF IInv, Writing
  <1>2. Cardinality(Sending') = Cardinality(Sending)
    BY <1>1, SendingMoves DEF IInv
  <1>. QED  BY <1>1, <1>2 DEF IInv, WaitGroupCounts, Control

LEMMA CalmStay ==
    ASSUME IInv, UNCHANGED <<at, back, wg, buffer, writer>>
    PROVE  Control
  BY DEF IInv, Control, TypeOK, Calls, WaitGroupCounts, Sending

(***************************************************************************)
(* Every action keeps the invariant.                                       *)
(***************************************************************************)
LEMMA WriteKeeps ==
    ASSUME IInv, NEW p \in Procs, Write(p)
    PROVE  IInv'
  <1>. USE DEF Locations, Writing, Killing
  <1>1. CASE Test(p)
    <2>1. CASE terminating
      BY <1>1, <2>1, CalmReturn DEF Test, Control, IInv, TypeOK
    <2>2. CASE ~terminating
      BY <1>1, <2>2, CalmGoto DEF Test, Control, IInv, TypeOK
    <2>. QED  BY <2>1, <2>2
  <1>2. CASE Add(p)
    <2>1. /\ at[p] = "add" /\ Goto(p, "send") /\ wg' = wg + 1
          /\ UNCHANGED <<terminating, table, buffer, closed, conn, peer, writer, werror>>
      BY <1>2 DEF Add
    <2>2. Cardinality(Sending') = Cardinality(Sending) + 1
      BY <2>1, SendingMoves DEF Goto, IInv
    <2>3. /\ at' \in [Procs -> Locations] /\ back' \in [Procs -> Seq(Locations)] /\ Calls'
      BY <2>1, GotoKeeps DEF IInv
    <2>4. WaitGroupCounts'
      BY <2>1, <2>2, SendingFinite DEF IInv, TypeOK, WaitGroupCounts
    <2>. QED  BY <2>1, <2>3, <2>4 DEF IInv, TypeOK
  <1>3. CASE Send(p)
    <2>1. CASE UNCHANGED <<at, back, buffer>>
      BY <1>3, <2>1, CalmStay DEF Send, Control, IInv, TypeOK
    <2>2. CASE Return(p) /\ ~closed /\ buffer < Cap /\ buffer' = buffer + 1
      <3>1. /\ at[p] = "send"
            /\ UNCHANGED <<terminating, table, wg, closed, conn, peer, writer, werror>>
        BY <1>3 DEF Send
      <3>2. /\ at' = [at EXCEPT ![p] = Head(back[p])] /\ Head(back[p]) # "send"
            /\ at' \in [Procs -> Locations] /\ back' \in [Procs -> Seq(Locations)]
            /\ Calls'
        BY <2>2, <3>1, ReturnKeeps DEF IInv
      <3>3. Cardinality(Sending') = Cardinality(Sending) - 1
        BY <3>1, <3>2, SendingMoves DEF IInv
      <3>4. WaitGroupCounts'
        BY <2>2, <3>1, <3>3, SendingFinite DEF IInv, TypeOK, WaitGroupCounts
      <3>5. buffer' \in 0..Cap
        BY <2>2, CapAssumption DEF IInv, TypeOK
      <3>. QED  BY <3>1, <3>2, <3>4, <3>5 DEF IInv, TypeOK
    <2>. QED  BY <1>3, <2>1, <2>2 DEF Send, Panic
  <1>. QED  BY <1>1, <1>2, <1>3 DEF Write

LEMMA KillKeeps ==
    ASSUME IInv, NEW p \in Procs, Kill(p)
    PROVE  IInv'
  <1>. USE DEF Locations, Writing, Killing
  <1>1. CASE KillTest(p)
    <2>1. CASE terminating
      BY <1>1, <2>1, CalmReturn DEF KillTest, Control, IInv, TypeOK
    <2>2. CASE ~terminating
      BY <1>1, <2>2, CalmGoto DEF KillTest, Control, IInv, TypeOK
    <2>. QED  BY <2>1, <2>2
  <1>2. CASE Mark(p)
    BY <1>2, CalmGoto DEF Mark, Control, IInv, TypeOK
  <1>3. CASE Wait(p)
    <2>1. CASE wg = 0
      BY <1>3, <2>1, CalmGoto DEF Wait, Control, IInv, TypeOK
    <2>2. CASE wg # 0
      BY <1>3, <2>2, CalmGoto DEF Wait, Control, IInv, TypeOK
    <2>. QED  BY <2>1, <2>2
  <1>4. CASE Wake(p)
    <2>1. CASE Goto(p, "close")
      BY <1>4, <2>1, CalmGoto DEF Wake, Control, IInv, TypeOK
    <2>2. CASE UNCHANGED <<at, back>>
      BY <1>4, <2>2, CalmStay DEF Wake, Control, IInv, TypeOK
    <2>. QED  BY <1>4, <2>1, <2>2 DEF Wake, Panic
  <1>5. CASE Close(p)
    <2>1. CASE Goto(p, "hangup") /\ closed' = TRUE
      BY <1>5, <2>1, CalmGoto DEF Close, Control, IInv, TypeOK
    <2>2. CASE UNCHANGED <<at, back, closed>>
      BY <1>5, <2>2, CalmStay DEF Close, Control, IInv, TypeOK
    <2>. QED  BY <1>5, <2>1, <2>2 DEF Close, Panic
  <1>6. CASE HangUp(p)
    BY <1>6, CalmReturn DEF HangUp, Control, IInv, TypeOK
  <1>. QED  BY <1>1, <1>2, <1>3, <1>4, <1>5, <1>6 DEF Kill

LEMMA HandleConnectionKeeps ==
    ASSUME IInv, HandleConnection
    PROVE  IInv'
  <1>. USE DEF Locations, Writing, Killing
  <1>. self \in Procs
    BY DEF Procs
  <1>1. CASE Accept
    <2>1. CASE Goto(self, "loop") /\ table' = TRUE
      BY <1>1, <2>1, CalmGoto DEF Accept, Control, IInv, TypeOK
    <2>2. CASE Call(self, "test", <<"final">>) /\ UNCHANGED table
      BY <1>1, <2>2, CalmCall DEF Accept, Control, IInv, TypeOK
    <2>. QED  BY <1>1, <2>1, <2>2 DEF Accept
  <1>2. CASE Loop
    <2>1. CASE terminating
      BY <1>2, <2>1, CalmGoto DEF Loop, Control, IInv, TypeOK
    <2>2. CASE ~terminating
      BY <1>2, <2>2, CalmGoto DEF Loop, Control, IInv, TypeOK
    <2>. QED  BY <2>1, <2>2
  <1>3. CASE Decode
    <2>1. CASE Goto(self, "got")
      BY <1>3, <2>1, CalmGoto DEF Decode, Control, IInv, TypeOK
    <2>2. CASE Goto(self, "lost")
      BY <1>3, <2>2, CalmGoto DEF Decode, Control, IInv, TypeOK
    <2>. QED  BY <1>3, <2>1, <2>2 DEF Decode
  <1>4. CASE Got
    <2>1. Control
      <3>1. CASE Goto(self, "final")
        BY <1>4, <3>1, CalmGoto DEF Got
      <3>2. CASE Goto(self, "loop")
        BY <1>4, <3>2, CalmGoto DEF Got
      <3>3. CASE Call(self, "test", <<"loop">>)
        BY <1>4, <3>3, CalmCall DEF Got
      <3>4. CASE Call(self, "test", <<"kill", "loop">>)
        BY <1>4, <3>4, CalmCall DEF Got
      <3>5. CASE Call(self, "kill", <<"loop">>)
        BY <1>4, <3>5, CalmCall DEF Got
      <3>. QED  BY <1>4, <3>1, <3>2, <3>3, <3>4, <3>5 DEF Got
    <2>. QED  BY <1>4, <2>1 DEF Got, Control, IInv, TypeOK
  <1>5. CASE Lost
    <2>1. CASE terminating
      BY <1>5, <2>1, CalmGoto DEF Lost, Control, IInv, TypeOK
    <2>2. CASE ~terminating
      BY <1>5, <2>2, CalmCall DEF Lost, Control, IInv, TypeOK
    <2>. QED  BY <2>1, <2>2
  <1>6. CASE Final
    BY <1>6, CalmCall DEF Final, Control, IInv, TypeOK
  <1>7. CASE Delete
    BY <1>7, CalmGoto DEF Delete, Control, IInv, TypeOK
  <1>. QED  BY <1>1, <1>2, <1>3, <1>4, <1>5, <1>6, <1>7 DEF HandleConnection

LEMMA OthersKeep ==
    ASSUME IInv,
           \/ \E w \in Writers : Broadcast(w)
           \/ \E k \in Killers : Ban(k)
    PROVE  IInv'
  <1>. USE DEF Locations, Writing, Killing, Procs
  <1>1. ASSUME NEW w \in Writers, Broadcast(w) PROVE IInv'
    BY <1>1, CalmCall DEF Broadcast, Control, IInv, TypeOK
  <1>2. ASSUME NEW k \in Killers, Ban(k) PROVE IInv'
    BY <1>2, CalmCall DEF Ban, Control, IInv, TypeOK
  <1>. QED  BY <1>1, <1>2

LEMMA DoneKeeps ==
    ASSUME IInv, Done, wg > 0
    PROVE  /\ at' \in [Procs -> Locations] /\ back' \in [Procs -> Seq(Locations)]
           /\ Calls' /\ wg' \in Nat
           /\ Cardinality(Sending') = Cardinality(Sending)
  <1>1. \A p \in Procs : at'[p] = at[p] \/ (at[p] = "asleep" /\ at'[p] = "awake")
    BY DEF Done
  <1>2. at' \in [Procs -> Locations]
    BY DEF Done, IInv, TypeOK, Locations
  <1>3. Calls'
    BY <1>1 DEF Done, IInv, Calls, Writing, Killing
  <1>4. Cardinality(Sending') = Cardinality(Sending)
    BY SendingStays DEF IInv
  <1>. QED  BY <1>2, <1>3, <1>4 DEF Done, IInv, TypeOK

LEMMA HandleWriteKeeps ==
    ASSUME IInv, HandleWrite
    PROVE  IInv'
  <1>1. CASE Take
    <2>1. Cardinality(Sending') = Cardinality(Sending)
      BY <1>1 DEF Take, Sending
    <2>2. WaitGroupCounts'
      BY <1>1, <2>1, SendingFinite DEF Take, IInv, TypeOK, WaitGroupCounts
    <2>. QED  BY <1>1, <2>2, CapAssumption DEF Take, IInv, TypeOK, Calls
  <1>2. CASE Drop
    <2>1. wg > 0 /\ Done
      BY <1>2, Counted DEF Drop, IInv
    <2>2. WaitGroupCounts'
      BY <1>2, <2>1, DoneKeeps, SendingFinite DEF Drop, Done, IInv, TypeOK, WaitGroupCounts
    <2>. QED  BY <1>2, <2>1, <2>2, DoneKeeps, CapAssumption DEF Drop, IInv, TypeOK
  <1>3. CASE Encode
    <2>1. wg > 0 /\ Done
      BY <1>3, Counted DEF Encode, IInv
    <2>2. WaitGroupCounts'
      BY <1>3, <2>1, DoneKeeps, SendingFinite DEF Encode, Done, IInv, TypeOK, WaitGroupCounts
    <2>. QED  BY <1>3, <2>1, <2>2, DoneKeeps DEF Encode, IInv, TypeOK
  <1>4. CASE EndOfRange
    <2>1. Cardinality(Sending') = Cardinality(Sending)
      BY <1>4 DEF EndOfRange, Sending
    <2>. QED  BY <1>4, <2>1 DEF EndOfRange, IInv, TypeOK, Calls, WaitGroupCounts
  <1>. QED  BY <1>1, <1>2, <1>3, <1>4 DEF HandleWrite

LEMMA PeerKeeps ==
    ASSUME IInv, PeerStalls \/ PeerResumes \/ PeerLeaves
    PROVE  IInv'
  BY CalmStay DEF PeerStalls, PeerResumes, PeerLeaves, PeerMoves, Control, IInv, TypeOK

LEMMA IInvNext == IInv /\ [Next]_vars => IInv'
  <1>. SUFFICES ASSUME IInv, [Next]_vars PROVE IInv'
    OBVIOUS
  <1>1. CASE Next
    BY <1>1, WriteKeeps, KillKeeps, HandleConnectionKeeps, OthersKeep, HandleWriteKeeps,
       PeerKeeps DEF Next
  <1>2. CASE UNCHANGED vars
    BY <1>2, CalmStay DEF vars, Control, IInv, TypeOK
  <1>. QED  BY <1>1, <1>2

LEMMA IInvHolds == Spec => []IInv
  BY IInvInit, IInvNext, PTL DEF Spec

(***************************************************************************)
(* The variables have their types: the buffer never holds more than Cap    *)
(* messages and the WaitGroup's counter, which panics when it is negative, *)
(* never is (server.go:1380, 1403).                                        *)
(***************************************************************************)
THEOREM ConnectionTypeCorrect == Spec => []TypeOK
  BY IInvHolds, PTL DEF IInv

(***************************************************************************)
(* The WaitGroup counts the messages on their way, through errors, kills   *)
(* and panics (client.go:84, server.go:1380, 1403).                        *)
(***************************************************************************)
THEOREM WaitGroupCorrect == Spec => []WaitGroupCounts
  BY IInvHolds, PTL DEF IInv

(***************************************************************************)
(* What each goroutine is there for: one that only writes never gets into  *)
(* killClient, and one that kills the client does so once.                 *)
(***************************************************************************)
Roles ==
    /\ \A w \in Writers :
          /\ at[w] \in {"idle"} \cup Writing
          /\ at[w] \in Writing => back[w] = <<"idle">>
    /\ \A k \in Killers :
          /\ at[k] \in {"idle", "done"} \cup Writing \cup Killing
          /\ at[k] \in Writing => back[k] = <<"kill", "done">>
          /\ at[k] \in Killing => back[k] = <<"done">>

(***************************************************************************)
(* While nobody else has killed the client, its own goroutine is the only  *)
(* one that can have set its state, and closes the buffer once.            *)
(***************************************************************************)
Closers == {"wait", "asleep", "awake", "close", "hangup"}

Killed == \E k \in Killers : at[k] \in Closers \cup {"done"}

Closing ==
    /\ closed => terminating
    /\ \A p \in Procs : at[p] \in Closers => terminating
    /\ ~Killed =>
          /\ at[self] = "mark" => ~terminating
          /\ closed => at[self] \notin {"mark", "wait", "asleep", "awake", "close"}
          /\ panic # "close of closed channel"

RInv == IInv /\ Roles

CInv == RInv /\ Closing

LEMMA CInvInit == Init => CInv
  <1>. SUFFICES ASSUME Init PROVE CInv
    OBVIOUS
  <1>1. IInv
    BY IInvInit
  <1>2. Roles
    BY ProcsAssumption DEF Init, Roles, Writing, Killing, Procs
  <1>3. Closing
    BY DEF Init, Closing, Closers, Procs
  <1>. QED  BY <1>1, <1>2, <1>3 DEF CInv, RInv

\* a step of one goroutine
Alone(p) == \A q \in Procs \ {p} : at'[q] = at[q] /\ back'[q] = back[q]

LEMMA GotoAlone ==
    ASSUME TypeOK, NEW p \in Procs, NEW l, Goto(p, l)
    PROVE  Alone(p) /\ at'[p] = l /\ back'[p] = back[p]
  BY DEF Goto, Alone, TypeOK

LEMMA CallAlone ==
    ASSUME TypeOK, NEW p \in Procs, NEW l, NEW rest, Call(p, l, rest)
    PROVE  Alone(p) /\ at'[p] = l /\ back'[p] = rest
  BY DEF Call, Alone, TypeOK

LEMMA ReturnAlone ==
    ASSUME TypeOK, NEW p \in Procs, Return(p)
    PROVE  Alone(p) /\ at'[p] = Head(back[p]) /\ back'[p] = Tail(back[p])
  BY CallAlone DEF Return

\* a step that keeps the role of the goroutine that takes it keeps the roles
LEMMA RolesAlone ==
    ASSUME Roles, NEW p \in Procs, Alone(p),
           p \in Writers => /\ at'[p] \in {"idle"} \cup Writing
                            /\ at'[p] \in Writing => back'[p] = <<"idle">>,
           p \in Killers => /\ at'[p] \in {"idle", "done"} \cup Writing \cup Killing
                            /\ at'[p] \in Writing => back'[p] = <<"kill", "done">>
                            /\ at'[p] \in Killing => back'[p] = <<"done">>
    PROVE  Roles'
  <1>1. \A q \in Writers \cup Killers : q # p => at'[q] = at[q] /\ back'[q] = back[q]
    BY DEF Alone, Procs
  <1>. QED  BY <1>1 DEF Roles

LEMMA WriteRoles ==
    ASSUME RInv, NEW p \in Procs, Write(p)
    PROVE  Roles'
  <1>. USE DEF Writing, Killing
  <1>1. CASE UNCHANGED <<at, back>>
    BY <1>1 DEF Roles, RInv
  <1>2. CASE Return(p) /\ at[p] \in Writing
    <2>1. Alone(p) /\ at'[p] = Head(back[p]) /\ back'[p] = Tail(back[p])
      BY <1>2, ReturnAlone DEF RInv, IInv
    <2>2. p \in Writers => at'[p] = "idle"
      BY <1>2, <2>1, Returns DEF RInv, Roles
    <2>3. p \in Killers => at'[p] = "kill" /\ back'[p] = <<"done">>
      BY <1>2, <2>1, Returns DEF RInv, Roles
    <2>. QED  BY <2>1, <2>2, <2>3, RolesAlone DEF RInv
  <1>3. CASE \E l \in {"add", "send"} : at[p] \in Writing /\ Goto(p, l)
    <2>1. Alone(p) /\ at'[p] \in Writing /\ back'[p] = back[p] /\ at[p] \in Writing
      BY <1>3, GotoAlone DEF RInv, IInv
    <2>. QED  BY <2>1, RolesAlone DEF RInv, Roles
  <1>. QED  BY <1>1, <1>2, <1>3 DEF Write, Test, Add, Send, Panic

LEMMA KillRoles ==
    ASSUME RInv, NEW p \in Procs, Kill(p)
    PROVE  Roles'
  <1>. USE DEF Writing, Killing
  <1>1. CASE UNCHANGED <<at, back>>
    BY <1>1 DEF Roles, RInv
  <1>2. CASE Return(p) /\ at[p] \in Killing
    <2>1. Alone(p) /\ at'[p] = Head(back[p]) /\ p \notin Writers
      BY <1>2, ReturnAlone DEF RInv, IInv, Roles
    <2>2. p \in Killers => at'[p] = "done"
      BY <1>2, <2>1, Returns DEF RInv, Roles
    <2>. QED  BY <2>1, <2>2, RolesAlone DEF RInv
  <1>3. CASE \E l \in Killing : at[p] \in Killing /\ Goto(p, l)
    <2>1. /\ Alone(p) /\ at'[p] \in Killing /\ back'[p] = back[p] /\ at[p] \in Killing
          /\ p \notin Writers
      BY <1>3, GotoAlone DEF RInv, IInv, Roles
    <2>. QED  BY <2>1, RolesAlone DEF RInv, Roles
  <1>. QED
    BY <1>1, <1>2, <1>3 DEF Kill, KillTest, Mark, Wait, Wake, Close, HangUp, Panic

\* the connection's own goroutine has no role to keep
LEMMA SelfAlone ==
    ASSUME TypeOK, HandleConnection
    PROVE  Alone(self)
  <1>1. self \in Procs
    BY DEF Procs
  <1>2. \/ \E l \in {"loop", "final", "decode", "got", "lost", "ended"} : Goto(self, l)
        \/ \E l \in {"test", "kill"} :
              \E rest \in {<<"final">>, <<"loop">>, <<"kill", "loop">>, <<"delete">>} :
                  Call(self, l, rest)
    BY DEF HandleConnection, Accept, Loop, Decode, Got, Lost, Final, Delete
  <1>. QED  BY <1>1, <1>2, GotoAlone, CallAlone

LEMMA RolesNext == RInv /\ [Next]_vars => Roles'
  <1>. SUFFICES ASSUME RInv, [Next]_vars PROVE Roles'
    OBVIOUS
  <1>. USE DEF Writing, Killing
  <1>1. CASE HandleConnection
    <2>1. self \in Procs /\ self \notin Writers /\ self \notin Killers
      BY ProcsAssumption DEF Procs
    <2>. QED  BY <1>1, <2>1, SelfAlone, RolesAlone DEF RInv, IInv
  <1>2. CASE \E w \in Writers : Broadcast(w)
    <2>1. PICK w \in Writers : Broadcast(w)
      BY <1>2
    <2>2. w \in Procs /\ w \notin Killers
      BY ProcsAssumption DEF Procs
    <2>3. Alone(w) /\ at'[w] = "test" /\ back'[w] = <<"idle">>
      BY <2>1, <2>2, CallAlone DEF Broadcast, RInv, IInv
    <2>. QED  BY <2>2, <2>3, RolesAlone DEF RInv
  <1>3. CASE \E k \in Killers : Ban(k)
    <2>1. PICK k \in Killers : Ban(k)
      BY <1>3
    <2>2. k \in Procs /\ k \notin Writers
      BY ProcsAssumption DEF Procs
    <2>3. Alone(k) /\ at'[k] = "test" /\ back'[k] = <<"kill", "done">>
      BY <2>1, <2>2, CallAlone DEF Ban, RInv, IInv
    <2>. QED  BY <2>2, <2>3, RolesAlone DEF RInv
  <1>4. CASE UNCHANGED <<at, back>>
    BY <1>4 DEF RInv, Roles
  <1>5. CASE Done
    <2>1. \A p \in Procs : /\ at'[p] = at[p] \/ (at[p] = "asleep" /\ at'[p] = "awake")
                           /\ back'[p] = back[p]
      BY <1>5 DEF Done
    <2>2. Writers \subseteq Procs /\ Killers \subseteq Procs
      BY DEF Procs
    <2>. QED  BY <2>1, <2>2 DEF RInv, Roles
  <1>. QED
    BY <1>1, <1>2, <1>3, <1>4, <1>5, WriteRoles, KillRoles
       DEF Next, vars, HandleWrite, Take, Drop, Encode, EndOfRange, PeerStalls,
           PeerResumes, PeerLeaves, PeerMoves

\* whoever kills the client stays what it is: Killed, once true, stays true
LEMMA KilledStays ==
    ASSUME RInv, Roles', [Next]_vars, Killed
    PROVE  Killed'
  <1>. USE DEF Writing, Killing, Closers
  <1>1. PICK k \in Killers : at[k] \in Closers \cup {"done"}
    BY DEF Killed
  <1>2. k \in Procs /\ k # self /\ k \notin Writers
    BY ProcsAssumption DEF Procs
  <1>3. CASE at'[k] = at[k]
    BY <1>1, <1>3 DEF Killed
  <1>4. CASE HandleConnection
    BY <1>2, <1>3, <1>4, SelfAlone DEF Alone, RInv, IInv
  <1>5. CASE \E p \in Procs : Write(p) \/ Kill(p)
    <2>1. PICK p \in Procs : Write(p) \/ Kill(p)
      BY <1>5
    <2>2. CASE p = k
      <3>1. Kill(k) /\ at[k] # "kill" /\ at[k] # "mark"
        BY <1>1, <2>1, <2>2 DEF Write, Test, Add, Send
      <3>2. CASE \E l \in {"close", "asleep", "hangup"} : Goto(k, l)
        BY <1>2, <3>2, GotoAlone DEF Killed, RInv, IInv
      <3>3. CASE Return(k) /\ at[k] = "hangup"
        <4>1. at'[k] = Head(back[k]) /\ back[k] = <<"done">>
          BY <1>2, <3>3, ReturnAlone DEF RInv, IInv, Roles
        <4>. QED  BY <4>1, Returns DEF Killed
      <3>4. CASE UNCHANGED at
        BY <1>3, <3>4
      <3>. QED  BY <3>1, <3>2, <3>3, <3>4
                DEF Kill, KillTest, Mark, Wait, Wake, Close, HangUp, Panic
    <2>3. CASE p # k
      <3>1. Alone(p) \/ UNCHANGED at
        BY <2>1, GotoAlone, ReturnAlone
           DEF Write, Test, Add, Send, Kill, KillTest, Mark, Wait, Wake, Close, HangUp,
               Panic, RInv, IInv
      <3>. QED  BY <1>2, <1>3, <2>3, <3>1 DEF Alone
    <2>. QED  BY <2>2, <2>3
  <1>6. CASE \E w \in Writers : Broadcast(w)
    <2>1. PICK w \in Writers : Broadcast(w)
      BY <1>6
    <2>2. Alone(w) /\ w # k
      BY <1>2, <2>1, CallAlone DEF Broadcast, Procs, RInv, IInv
    <2>. QED  BY <1>2, <1>3, <2>2 DEF Alone
  <1>7. CASE \E q \in Killers : Ban(q)
    <2>1. PICK q \in Killers : Ban(q)
      BY <1>7
    <2>2. Alone(q) /\ q # k
      BY <1>1, <2>1, CallAlone DEF Ban, Procs, RInv, IInv
    <2>. QED  BY <1>2, <1>3, <2>2 DEF Alone
  <1>8. CASE Done
    <2>1. at'[k] = at[k] \/ at'[k] = "awake"
      BY <1>2, <1>8 DEF Done
    <2>. QED  BY <1>3, <2>1 DEF Killed
  <1>. QED
    BY <1>3, <1>4, <1>5, <1>6, <1>7, <1>8
       DEF Next, vars, HandleWrite, Take, Drop, Encode, EndOfRange, PeerStalls,
           PeerResumes, PeerLeaves, PeerMoves

\* the steps of killClient, whoever calls it
LEMMA ClosingKill ==
    ASSUME CInv, NEW p \in Procs, Kill(p), Killed => Killed'
    PROVE  Closing'
  <1>. USE DEF Closers
  <1>1. Alone(p) \/ UNCHANGED at
    BY GotoAlone, ReturnAlone
       DEF Kill, KillTest, Mark, Wait, Wake, Close, HangUp, Panic, CInv, RInv, IInv
  <1>2. p = self \/ p \in Killers
    BY DEF Procs, Kill, KillTest, Mark, Wait, Wake, Close, HangUp, CInv, RInv, Roles, Writing
  <1>3. self \in Procs /\ self \notin Killers
    BY ProcsAssumption DEF Procs
  <1>4. CASE KillTest(p)
    <2>1. /\ UNCHANGED <<terminating, closed, panic>>
          /\ at'[p] \notin Closers
          /\ at'[p] = "mark" => ~terminating
      <3>1. CASE terminating
        <4>1. at'[p] = Head(back[p]) /\ at[p] = "kill"
          BY <1>4, <3>1, ReturnAlone DEF KillTest, CInv, RInv, IInv
        <4>2. Head(back[p]) \in {"loop", "final", "delete", "done"}
          BY <4>1, Returns DEF CInv, RInv, IInv, Calls, Killing
        <4>. QED  BY <1>4, <3>1, <4>1, <4>2 DEF KillTest
      <3>2. CASE ~terminating
        BY <1>4, <3>2, GotoAlone DEF KillTest, CInv, RInv, IInv
      <3>. QED  BY <3>1, <3>2
    <2>. QED  BY <1>1, <1>3, <2>1 DEF Alone, Closing, CInv
  <1>5. CASE Mark(p)
    <2>1. at'[p] = "wait" /\ terminating' /\ UNCHANGED <<closed, panic>> /\ at[p] = "mark"
      BY <1>5, GotoAlone DEF Mark, CInv, RInv, IInv
    <2>2. p \in Killers => Killed'
      BY <2>1 DEF Killed
    <2>3. p = self /\ ~Killed' => ~closed /\ panic # "close of closed channel"
      BY <2>1 DEF Closing, CInv
    <2>. QED  BY <1>1, <1>2, <1>3, <2>1, <2>2, <2>3 DEF Alone, Closing, CInv
  <1>6. CASE Wait(p)
    <2>1. /\ at'[p] \in {"close", "asleep"} /\ UNCHANGED <<terminating, closed, panic>>
          /\ at[p] = "wait"
      BY <1>6, GotoAlone DEF Wait, CInv, RInv, IInv
    <2>. QED  BY <1>1, <1>3, <2>1 DEF Alone, Closing, CInv
  <1>7. CASE Wake(p)
    <2>1. /\ UNCHANGED <<terminating, closed>> /\ at[p] = "awake"
          /\ \/ at'[p] = "close" /\ UNCHANGED panic
             \/ at'[p] = "awake" /\ panic' # "close of closed channel"
      BY <1>7, GotoAlone DEF Wake, Panic, CInv, RInv, IInv
    <2>. QED  BY <1>1, <1>3, <2>1 DEF Alone, Closing, CInv
  <1>8. CASE Close(p)
    <2>1. terminating /\ UNCHANGED terminating /\ at[p] = "close"
      BY <1>8 DEF Close, Closing, CInv
    <2>2. \/ closed /\ UNCHANGED <<at, closed>>
          \/ ~closed /\ closed' = TRUE /\ at'[p] = "hangup" /\ UNCHANGED panic
      BY <1>8, GotoAlone DEF Close, Panic, CInv, RInv, IInv
    <2>3. p \in Killers => Killed
      BY <2>1 DEF Killed
    <2>. QED  BY <1>1, <1>2, <1>3, <2>1, <2>2, <2>3 DEF Alone, Closing, CInv
  <1>9. CASE HangUp(p)
    <2>1. /\ at'[p] = Head(back[p]) /\ at[p] = "hangup"
          /\ UNCHANGED <<terminating, closed, panic>>
      BY <1>9, ReturnAlone DEF HangUp, CInv, RInv, IInv
    <2>2. Head(back[p]) \in {"loop", "final", "delete", "done"}
      BY <2>1, Returns DEF CInv, RInv, IInv, Calls, Killing
    <2>. QED  BY <1>1, <1>3, <2>1, <2>2 DEF Alone, Closing, CInv
  <1>. QED  BY <1>4, <1>5, <1>6, <1>7, <1>8, <1>9 DEF Kill

\* a step that brings nobody nearer to closing the buffer
LEMMA ClosingCalm ==
    ASSUME CInv, UNCHANGED <<terminating, closed>>, panic' # "close of closed channel",
           Killed => Killed',
           \A p \in Procs : at'[p] = at[p] \/ at'[p] \notin Closers \cup {"mark"}
                                        \/ (at[p] = "asleep" /\ at'[p] = "awake")
    PROVE  Closing'
  <1>. self \in Procs
    BY DEF Procs
  <1>. QED  BY DEF Closing, CInv, Closers

LEMMA NoPanic == CInv /\ Next => panic # "close of closed channel"
  BY DEF Next

LEMMA ClosingWrite ==
    ASSUME CInv, Next, NEW p \in Procs, Write(p), Killed => Killed'
    PROVE  Closing'
  <1>. USE DEF Closers
  <1>1. UNCHANGED <<terminating, closed>> /\ panic' # "close of closed channel"
    BY NoPanic DEF Write, Test, Add, Send, Panic
  <1>2. CASE UNCHANGED at
    BY <1>1, <1>2, ClosingCalm
  <1>3. CASE \E l \in {"add", "send"} : Goto(p, l)
    BY <1>1, <1>3, GotoAlone, ClosingCalm DEF Alone, CInv, RInv, IInv
  <1>4. CASE Return(p) /\ at[p] \in Writing
    <2>1. Alone(p) /\ at'[p] = Head(back[p])
      BY <1>4, ReturnAlone DEF CInv, RInv, IInv
    <2>2. Head(back[p]) \in {"final", "loop", "kill", "idle"}
      BY <1>4, Returns DEF CInv, RInv, IInv, Calls
    <2>. QED  BY <1>1, <2>1, <2>2, ClosingCalm DEF Alone
  <1>. QED  BY <1>2, <1>3, <1>4 DEF Write, Test, Add, Send, Panic, Writing

LEMMA CInvNext == CInv /\ [Next]_vars => CInv'
  <1>. SUFFICES ASSUME CInv, [Next]_vars PROVE CInv'
    OBVIOUS
  <1>. USE DEF Closers
  <1>1. IInv' /\ Roles'
    BY IInvNext, RolesNext DEF CInv, RInv
  <1>. SUFFICES Closing'
    BY <1>1 DEF CInv, RInv
  <1>2. Killed => Killed'
    BY <1>1, KilledStays DEF CInv, RInv
  <1>3. ASSUME Next, NEW p \in Procs, Write(p) PROVE Closing'
    BY <1>2, <1>3, ClosingWrite
  <1>4. ASSUME NEW p \in Procs, Kill(p) PROVE Closing'
    BY <1>2, <1>4, ClosingKill
  <1>5. CASE HandleConnection /\ Next
    <2>1. UNCHANGED <<terminating, closed, panic>>
      BY <1>5 DEF HandleConnection, Accept, Loop, Decode, Got, Lost, Final, Delete
    <2>2. self \in Procs
      BY DEF Procs
    <2>3. \/ \E l \in {"loop", "final", "decode", "got", "lost", "ended"} : Goto(self, l)
          \/ \E l \in {"test", "kill"} :
                \E rest \in {<<"final">>, <<"loop">>, <<"kill", "loop">>, <<"delete">>} :
                    Call(self, l, rest)
      BY <1>5 DEF HandleConnection, Accept, Loop, Decode, Got, Lost, Final, Delete
    <2>4. at'[self] \notin Closers \cup {"mark"}
      BY <2>2, <2>3, GotoAlone, CallAlone DEF CInv, RInv, IInv
    <2>. QED
      BY <1>2, <1>5, <2>1, <2>4, NoPanic, SelfAlone, ClosingCalm DEF Alone, CInv, RInv, IInv
  <1>6. CASE Next /\ \E p \in Writers \cup Killers : \E rest :
                        Call(p, "test", rest) /\ UNCHANGED <<terminating, closed, panic>>
    <2>1. PICK p \in Writers \cup Killers :
              \E rest : Call(p, "test", rest) /\ UNCHANGED <<terminating, closed, panic>>
      BY <1>6
    <2>2. p \in Procs /\ Alone(p) /\ at'[p] = "test"
      BY <2>1, CallAlone DEF Procs, CInv, RInv, IInv
    <2>. QED  BY <1>2, <1>6, <2>1, <2>2, NoPanic, ClosingCalm DEF Alone
  <1>7. CASE Next /\ (HandleWrite \/ PeerStalls \/ PeerResumes \/ PeerLeaves)
    <2>1. UNCHANGED <<terminating, closed, panic>>
      BY <1>7 DEF HandleWrite, Take, Drop, Encode, EndOfRange, PeerStalls, PeerResumes,
                  PeerLeaves, PeerMoves
    <2>2. \A p \in Procs : at'[p] = at[p] \/ (at[p] = "asleep" /\ at'[p] = "awake")
      BY <1>7 DEF HandleWrite, Take, Drop, Encode, EndOfRange, Done, PeerStalls,
                  PeerResumes, PeerLeaves, PeerMoves
    <2>. QED  BY <1>2, <1>7, <2>1, <2>2, NoPanic, ClosingCalm
  <1>8. CASE UNCHANGED vars
    BY <1>8 DEF vars, Closing, Killed, CInv
  <1>. QED  BY <1>3, <1>4, <1>5, <1>6, <1>7, <1>8 DEF Next, Broadcast, Ban

(***************************************************************************)
(* The buffer is closed twice only when somebody kills the client, however *)
(* often and from where the connection's own goroutine calls killClient    *)
(* (server.go:1193-1248, 1433, 1438-1441).                                 *)
(***************************************************************************)
THEOREM ClosedOnceCorrect == Spec => []ClosedOnce
  <1>1. CInv => ClosedOnce
    BY DEF CInv, Closing, Killed, Closers, ClosedOnce
  <1>. QED  BY <1>1, CInvInit, CInvNext, PTL DEF Spec


(***************************************************************************)
(* Where a goroutine goes on after write or killClient.                    *)
(***************************************************************************)
LEMMA ReturnPlace ==
    ASSUME TypeOK, Calls, NEW p \in Procs, Return(p), at[p] \in Writing \cup Killing
    PROVE  /\ Alone(p)
           /\ at'[p] \in {"final", "loop", "kill", "idle", "delete", "done"}
           /\ at[p] \in Writing => at'[p] # "delete"
  <1>1. Alone(p) /\ at'[p] = Head(back[p])
    BY ReturnAlone
  <1>2. CASE at[p] \in Writing
    BY <1>1, <1>2, Returns DEF Calls
  <1>3. CASE at[p] \in Killing
    BY <1>1, <1>3, Returns DEF Calls, Writing, Killing
  <1>. QED  BY <1>1, <1>2, <1>3

(***************************************************************************)
(* Nobody sleeps in killClient for messages that have all been handled,    *)
(* and the goroutine of handleWrite leaves no message in the buffer.       *)
(***************************************************************************)
Sleepers == \A p \in Procs : at[p] = "asleep" => wg > 0

Finished == writer = "ended" => closed /\ buffer = 0

WInv == IInv /\ Sleepers /\ Finished

\* nobody has gone to sleep
LEMMA SleepersStay ==
    ASSUME WInv, wg' \in {wg, wg + 1},
           \A p \in Procs : at'[p] = "asleep" => at[p] = "asleep" \/ wg' > 0
    PROVE  Sleepers'
  BY DEF WInv, IInv, TypeOK, Sleepers

LEMMA SleepersNext == WInv /\ [Next]_vars => Sleepers'
  <1>. SUFFICES ASSUME WInv, [Next]_vars PROVE Sleepers'
    OBVIOUS
  <1>. TypeOK /\ Calls
    BY DEF WInv, IInv
  <1>1. ASSUME NEW p \in Procs, Write(p) PROVE Sleepers'
    <2>1. wg' \in {wg, wg + 1}
      BY <1>1 DEF Write, Test, Add, Send
    <2>2. \/ UNCHANGED at
          \/ Return(p) /\ at[p] \in Writing \cup Killing
          \/ \E l \in {"add", "send"} : Goto(p, l)
      BY <1>1 DEF Write, Test, Add, Send, Panic, Writing
    <2>3. CASE UNCHANGED at
      BY <2>1, <2>3, SleepersStay
    <2>4. CASE ~UNCHANGED at
      <3>1. Alone(p) /\ at'[p] # "asleep"
        BY <2>2, <2>4, GotoAlone, ReturnPlace
      <3>. QED  BY <2>1, <3>1, SleepersStay DEF Alone
    <2>. QED  BY <2>3, <2>4
  <1>2. ASSUME NEW p \in Procs, Kill(p) PROVE Sleepers'
    <2>1. wg' = wg /\ wg \in Nat
      BY <1>2 DEF Kill, KillTest, Mark, Wait, Wake, Close, HangUp, TypeOK
    <2>2. \/ UNCHANGED at
          \/ Return(p) /\ at[p] \in Writing \cup Killing
          \/ \E l \in {"mark", "wait", "close", "hangup"} : Goto(p, l)
          \/ Goto(p, "asleep") /\ wg # 0
      BY <1>2 DEF Kill, KillTest, Mark, Wait, Wake, Close, HangUp, Panic, Killing
    <2>3. CASE UNCHANGED at
      BY <2>1, <2>3, SleepersStay
    <2>4. CASE ~UNCHANGED at
      <3>1. Alone(p) /\ (at'[p] = "asleep" => wg # 0)
        BY <2>2, <2>4, GotoAlone, ReturnPlace
      <3>. QED  BY <2>1, <3>1, SleepersStay DEF Alone
    <2>. QED  BY <2>3, <2>4
  <1>3. CASE HandleConnection
    <2>1. wg' = wg /\ self \in Procs
      BY <1>3 DEF HandleConnection, Accept, Loop, Decode, Got, Lost, Final, Delete, Procs
    <2>2. \/ \E l \in {"loop", "final", "decode", "got", "lost", "ended"} : Goto(self, l)
          \/ \E l \in {"test", "kill"} : \E rest : Call(self, l, rest)
      BY <1>3 DEF HandleConnection, Accept, Loop, Decode, Got, Lost, Final, Delete
    <2>3. Alone(self) /\ at'[self] # "asleep"
      BY <2>1, <2>2, GotoAlone, CallAlone
    <2>. QED  BY <2>1, <2>3, SleepersStay DEF Alone
  <1>4. ASSUME NEW p \in Writers \cup Killers, Broadcast(p) \/ Ban(p) PROVE Sleepers'
    <2>1. p \in Procs /\ wg' = wg
      BY <1>4 DEF Procs, Broadcast, Ban
    <2>2. Alone(p) /\ at'[p] = "test"
      BY <1>4, <2>1, CallAlone DEF Broadcast, Ban
    <2>. QED  BY <2>1, <2>2, SleepersStay DEF Alone
  <1>5. CASE Done
    <2>1. wg \in Nat
      BY DEF TypeOK
    <2>2. \A p \in Procs : at'[p] = "asleep" => at[p] = "asleep" /\ wg # 1
      BY <1>5 DEF Done
    <2>3. \A p \in Procs : at'[p] = "asleep" => wg > 0
      BY <2>2 DEF WInv, Sleepers
    <2>4. wg' = wg - 1
      BY <1>5 DEF Done
    <2>. QED  BY <2>1, <2>2, <2>3, <2>4 DEF Sleepers
  <1>6. CASE UNCHANGED <<at, wg>>
    BY <1>6 DEF WInv, Sleepers
  <1>. QED
    BY <1>1, <1>2, <1>3, <1>4, <1>5, <1>6
       DEF Next, vars, HandleWrite, Take, Drop, Encode, EndOfRange, PeerStalls,
           PeerResumes, PeerLeaves, PeerMoves

LEMMA FinishedNext == WInv /\ [Next]_vars => Finished'
  <1>. SUFFICES ASSUME WInv, [Next]_vars PROVE Finished'
    OBVIOUS
  <1>. USE DEF WInv, Finished
  <1>1. ASSUME NEW p \in Procs, Write(p) PROVE Finished'
    BY <1>1 DEF Write, Test, Add, Send
  <1>2. ASSUME NEW p \in Procs, Kill(p) PROVE Finished'
    BY <1>2 DEF Kill, KillTest, Mark, Wait, Wake, Close, HangUp
  <1>3. CASE HandleConnection
    BY <1>3 DEF HandleConnection, Accept, Loop, Decode, Got, Lost, Final, Delete
  <1>4. CASE HandleWrite
    BY <1>4 DEF HandleWrite, Take, Drop, Encode, EndOfRange
  <1>5. CASE UNCHANGED <<writer, closed, buffer>>
    BY <1>5
  <1>. QED
    BY <1>1, <1>2, <1>3, <1>4, <1>5
       DEF Next, vars, Broadcast, Ban, PeerStalls, PeerResumes, PeerLeaves, PeerMoves

LEMMA WInvHolds == Spec => []WInv
  <1>1. Init => WInv
    BY IInvInit DEF Init, WInv, Sleepers, Finished
  <1>2. WInv /\ [Next]_vars => WInv'
    BY IInvNext, SleepersNext, FinishedNext DEF WInv
  <1>. QED  BY <1>1, <1>2, PTL DEF Spec

(***************************************************************************)
(* For any number of writers and killers and any size of the buffer:       *)
(* whoever waits for room, or in killClient for the messages, waits for    *)
(* handleWrite or for somebody who can go on, so that the goroutines of a  *)
(* connection never all wait for each other (server.go:1376-1403, 1446).   *)
(***************************************************************************)
THEOREM WaitersAreServedCorrect == Spec => []WaitersAreServed
  <1>1. WInv => WaitersAreServed
    <2>. SUFFICES ASSUME WInv, NEW p \in Procs, at[p] \in {"send", "asleep"},
                         ~ \E q \in Procs : CanSend(q)
                  PROVE  writer = "encode" \/ (writer = "range" /\ buffer > 0)
      BY DEF WaitersAreServed
    <2>. TypeOK /\ WaitGroupCounts /\ Cap \in Nat \ {0}
      BY CapAssumption DEF WInv, IInv
    <2>1. CASE \E q \in Procs : at[q] = "send"
      <3>1. ~closed /\ ~(buffer < Cap)
        BY <2>1 DEF CanSend
      <3>2. buffer > 0 /\ writer # "ended"
        BY <3>1 DEF TypeOK, WInv, Finished
      <3>. QED  BY <3>2 DEF TypeOK
    <2>2. CASE ~ \E q \in Procs : at[q] = "send"
      <3>1. Cardinality(Sending) = 0
        BY <2>2, FS_EmptySet DEF Sending
      <3>2. wg > 0
        BY <2>2 DEF WInv, Sleepers
      <3>3. buffer > 0 \/ writer = "encode"
        BY <3>1, <3>2 DEF WaitGroupCounts, TypeOK
      <3>. QED  BY <3>3 DEF TypeOK, WInv, Finished
    <2>. QED  BY <2>1, <2>2
  <1>. QED  BY <1>1, WInvHolds, PTL


(***************************************************************************)
(* Whoever has set the state goes on to close the buffer, and handle-      *)
(* Connection gives the client up after a killClient only.                 *)
(***************************************************************************)
Ahead == {"wait", "asleep", "awake", "close"}

Ending ==
    /\ terminating => closed \/ \E p \in Procs : at[p] \in Ahead
    /\ at[self] \in {"delete", "ended"} => terminating

EInv == CInv /\ Ending

\* a step in which nobody who is to close the buffer turns away
LEMMA EndingCalm ==
    ASSUME EInv, closed => closed', terminating' = terminating,
           \A p \in Procs : at[p] \in Ahead => closed' \/ at'[p] \in Ahead,
           at'[self] \in {"delete", "ended"} => terminating
    PROVE  Ending'
  BY DEF EInv, Ending

LEMMA EndingWrite ==
    ASSUME EInv, NEW p \in Procs, Write(p)
    PROVE  Ending'
  <1>. TypeOK /\ Calls /\ self \in Procs
    BY DEF EInv, CInv, RInv, IInv, Procs
  <1>1. closed' = closed /\ terminating' = terminating /\ at[p] \in Writing
    BY DEF Write, Test, Add, Send, Writing
  <1>2. \/ UNCHANGED at
        \/ Return(p)
        \/ \E l \in {"add", "send"} : Goto(p, l)
    BY DEF Write, Test, Add, Send, Panic
  <1>3. CASE UNCHANGED at
    BY <1>1, <1>3, EndingCalm DEF EInv, Ending
  <1>4. CASE ~UNCHANGED at
    <2>1. Alone(p) /\ at'[p] \notin {"delete", "ended"} /\ at[p] \notin Ahead
      BY <1>1, <1>2, <1>4, GotoAlone, ReturnPlace DEF Writing, Ahead
    <2>. QED  BY <1>1, <2>1, EndingCalm DEF Alone, EInv, Ending
  <1>. QED  BY <1>3, <1>4

LEMMA EndingKill ==
    ASSUME EInv, NEW p \in Procs, Kill(p)
    PROVE  Ending'
  <1>. TypeOK /\ Calls /\ self \in Procs /\ Closing
    BY DEF EInv, CInv, RInv, IInv, Procs
  <1>1. CASE UNCHANGED <<at, closed, terminating>>
    BY <1>1 DEF EInv, Ending
  <1>2. CASE Return(p) /\ at[p] \in {"kill", "hangup"} /\ UNCHANGED <<closed, terminating>>
    <2>1. /\ Alone(p) /\ at[p] \notin Ahead
          /\ at'[p] \in {"final", "loop", "kill", "idle", "delete", "done"}
      BY <1>2, ReturnPlace DEF Killing, Ahead
    <2>2. CASE at[p] = "hangup"
      BY <1>2, <2>1, <2>2, EndingCalm DEF Alone, Closing, Closers
    <2>3. CASE KillTest(p)
      <3>1. terminating
        BY <2>1, <2>3, GotoAlone DEF KillTest
      <3>. QED  BY <1>2, <2>1, <3>1, EndingCalm DEF Alone
    <2>. QED
      BY <1>2, <2>2, <2>3 DEF Kill, KillTest, Mark, Wait, Wake, Close, HangUp
  <1>3. CASE KillTest(p) /\ ~terminating
    <2>1. Alone(p) /\ at'[p] = "mark" /\ UNCHANGED <<closed, terminating>> /\ at[p] = "kill"
      BY <1>3, GotoAlone DEF KillTest
    <2>. QED  BY <2>1, EndingCalm DEF Alone, Ahead, EInv, Ending
  <1>4. CASE Mark(p)
    <2>1. at'[p] = "wait" /\ terminating'
      BY <1>4, GotoAlone DEF Mark
    <2>. QED  BY <2>1 DEF Ending, Ahead
  <1>5. CASE \E l \in Ahead : Goto(p, l) /\ UNCHANGED <<closed, terminating>>
    <2>1. Alone(p) /\ at'[p] \in Ahead
      BY <1>5, GotoAlone
    <2>. QED  BY <1>5, <2>1, EndingCalm DEF Alone, Ahead, EInv, Ending
  <1>6. CASE Close(p) /\ closed'
    <2>1. Alone(p) \/ UNCHANGED at
      BY <1>6, GotoAlone DEF Close, Panic
    <2>2. terminating' = terminating /\ (at'[p] = at[p] \/ at'[p] = "hangup")
      BY <1>6, GotoAlone DEF Close, Panic
    <2>. QED  BY <1>6, <2>1, <2>2, EndingCalm DEF Alone, EInv, Ending
  <1>. QED
    BY <1>1, <1>2, <1>3, <1>4, <1>5, <1>6
       DEF Kill, KillTest, Wait, Wake, Close, HangUp, Panic, Ahead

LEMMA EndingConnection ==
    ASSUME EInv, HandleConnection
    PROVE  Ending'
  <1>. TypeOK /\ self \in Procs
    BY DEF EInv, CInv, RInv, IInv, Procs
  <1>1. closed' = closed /\ terminating' = terminating /\ at[self] \notin Ahead
    BY DEF HandleConnection, Accept, Loop, Decode, Got, Lost, Final, Delete, Ahead
  <1>2. \/ \E l \in {"loop", "final", "decode", "got", "lost"} : Goto(self, l)
        \/ \E l \in {"test", "kill"} : \E rest : Call(self, l, rest)
        \/ at[self] = "delete" /\ Goto(self, "ended")
    BY DEF HandleConnection, Accept, Loop, Decode, Got, Lost, Final, Delete
  <1>3. Alone(self) /\ (at'[self] \in {"delete", "ended"} => at[self] = "delete")
    BY <1>2, GotoAlone, CallAlone
  <1>. QED  BY <1>1, <1>3, EndingCalm DEF Alone, EInv, Ending

LEMMA EInvNext == EInv /\ [Next]_vars => EInv'
  <1>. SUFFICES ASSUME EInv, [Next]_vars PROVE Ending'
    BY CInvNext DEF EInv
  <1>. TypeOK /\ self \in Procs
    BY DEF EInv, CInv, RInv, IInv, Procs
  <1>1. CASE \E p \in Procs : Write(p) \/ Kill(p)
    BY <1>1, EndingWrite, EndingKill
  <1>2. CASE HandleConnection
    BY <1>2, EndingConnection
  <1>3. ASSUME NEW p \in Writers \cup Killers, Broadcast(p) \/ Ban(p) PROVE Ending'
    <2>1. /\ p \in Procs /\ p # self /\ at[p] = "idle"
          /\ UNCHANGED <<closed, terminating>>
      BY <1>3, ProcsAssumption DEF Procs, Broadcast, Ban
    <2>2. Alone(p)
      BY <1>3, <2>1, CallAlone DEF Broadcast, Ban
    <2>. QED  BY <2>1, <2>2, EndingCalm DEF Alone, Ahead, EInv, Ending
  <1>4. CASE HandleWrite \/ PeerStalls \/ PeerResumes \/ PeerLeaves
    <2>1. UNCHANGED <<terminating, closed>>
      BY <1>4 DEF HandleWrite, Take, Drop, Encode, EndOfRange, PeerStalls, PeerResumes,
                  PeerLeaves, PeerMoves
    <2>2. \A p \in Procs : at'[p] = at[p] \/ (at[p] = "asleep" /\ at'[p] = "awake")
      BY <1>4 DEF HandleWrite, Take, Drop, Encode, EndOfRange, Done, PeerStalls,
                  PeerResumes, PeerLeaves, PeerMoves
    <2>. QED  BY <2>1, <2>2, EndingCalm DEF Ahead, EInv, Ending
  <1>5. CASE UNCHANGED vars
    BY <1>5 DEF vars, EInv, Ending
  <1>. QED  BY <1>1, <1>2, <1>3, <1>4, <1>5 DEF Next

(***************************************************************************)
(* For any number of writers and killers: a client that is terminating, or *)
(* whose connection has been given up, has its buffer closed or somebody   *)
(* on the way to closing it, so that handleWrite is not left behind        *)
(* (server.go:1377, 1433-1434, 1438-1447).                                 *)
(***************************************************************************)
THEOREM BufferGetsClosedCorrect == Spec => []BufferGetsClosed
  <1>1. Init => EInv
    BY CInvInit DEF Init, EInv, Ending, Procs
  <1>2. EInv => BufferGetsClosed
    BY DEF EInv, Ending, Ahead, BufferGetsClosed
  <1>. QED  BY <1>1, <1>2, EInvNext, PTL DEF Spec

=============================================================================
