----------------------------- MODULE Connection -----------------------------
(***************************************************************************)
(* One connection and the goroutines that use it (src/server.go,           *)
(* src/client.go).                                                         *)
(*                                                                         *)
(* The connection's own goroutine accepts it, handles its messages and     *)
(* ends it.  A second one takes messages from a bounded buffer and sends   *)
(* them to the peer.  Goroutines of other connections, and pingClients,    *)
(* find the client in the table of clients and write to it; a moderator's  *)
(* may kill it.  A WaitGroup counts the messages that are written and not  *)
(* handled yet: killClient waits for it before it closes the buffer.       *)
(*                                                                         *)
(* Every read and write of what the goroutines share is a step.  What the  *)
(* messages say, and what they do to channels, is the subject of module    *)
(* Server; partAllChannels writes to other clients only, since the client  *)
(* itself is terminating.                                                  *)
(***************************************************************************)
EXTENDS Naturals, Sequences, FiniteSets

CONSTANTS
    self,     \* the goroutine of handleConnection
    Writers,  \* the goroutines of other clients, and pingClients
    Killers,  \* the goroutines of moderators
    Cap       \* writebuffersize

Procs == {self} \cup Writers \cup Killers

ASSUME ProcsAssumption ==
    /\ IsFiniteSet(Writers) /\ IsFiniteSet(Killers)
    /\ self \notin Writers \cup Killers /\ Writers \cap Killers = {}

ASSUME CapAssumption == Cap \in Nat \ {0}

VARIABLES
    terminating,  \* c.state = ENTITY_STATE_TERMINATING
    table,        \* the client is in s.clients
    wg,           \* the counter of c.wg
    buffer,       \* how many messages c.writebuffer holds
    closed,       \* c.writebuffer is closed
    conn,         \* the connection is open on this side
    peer,         \* what the other side does: it reads, stalls, or is gone
    at,           \* where each goroutine is
    back,         \* where it goes on after the calls it is in
    writer,       \* where the goroutine of handleWrite is
    werror,       \* handleWrite has failed to send a message
    panic         \* what ended the program, if anything did

vars == <<terminating, table, wg, buffer, closed, conn, peer, at, back, writer,
          werror, panic>>

Init ==
    /\ terminating = FALSE /\ table = FALSE
    /\ wg = 0 /\ buffer = 0 /\ closed = FALSE
    /\ conn = TRUE /\ peer = "reads"
    /\ at = [p \in Procs |-> IF p = self THEN "accept" ELSE "idle"]
    /\ back = [p \in Procs |-> <<>>]
    /\ writer = "range" /\ werror = FALSE
    /\ panic = "none"

(***************************************************************************)
(* Control.                                                                *)
(***************************************************************************)
Goto(p, l) == at' = [at EXCEPT ![p] = l] /\ UNCHANGED back

Call(p, l, rest) ==
    /\ at' = [at EXCEPT ![p] = l]
    /\ back' = [back EXCEPT ![p] = rest]

Return(p) == Call(p, Head(back[p]), Tail(back[p]))

\* a panic in any goroutine ends the program
Panic(why) == panic' = why /\ UNCHANGED <<at, back>>

(***************************************************************************)
(* Client.write: the state is tested, the message counted, and then put    *)
(* into the buffer, when there is room.                                    *)
(***************************************************************************)
Test(p) ==
    /\ at[p] = "test"
    /\ IF terminating THEN Return(p) ELSE Goto(p, "add")
    /\ UNCHANGED <<terminating, table, wg, buffer, closed, conn, peer, writer,
                   werror, panic>>

Add(p) ==
    /\ at[p] = "add"
    /\ wg' = wg + 1
    /\ Goto(p, "send")
    /\ UNCHANGED <<terminating, table, buffer, closed, conn, peer, writer, werror, panic>>

Send(p) ==
    /\ at[p] = "send"
    /\ \/ /\ closed
          /\ Panic("send on closed channel")
          /\ UNCHANGED buffer
       \/ /\ ~closed /\ buffer < Cap
          /\ buffer' = buffer + 1
          /\ Return(p)
          /\ UNCHANGED panic
    /\ UNCHANGED <<terminating, table, wg, closed, conn, peer, writer, werror>>

(***************************************************************************)
(* killClient: the state is tested and then set, the messages are waited   *)
(* for, and the buffer and the connection are closed.                      *)
(***************************************************************************)
KillTest(p) ==
    /\ at[p] = "kill"
    /\ IF terminating THEN Return(p) ELSE Goto(p, "mark")
    /\ UNCHANGED <<terminating, table, wg, buffer, closed, conn, peer, writer,
                   werror, panic>>

\* Mutant: the state is not set
MarkForgotten(p) ==
    /\ at[p] = "mark"
    /\ Goto(p, "wait")
    /\ UNCHANGED <<terminating, table, wg, buffer, closed, conn, peer, writer,
                   werror, panic>>

Mark(p) ==
    /\ at[p] = "mark"
    /\ terminating' = TRUE
    /\ Goto(p, "wait")
    /\ UNCHANGED <<table, wg, buffer, closed, conn, peer, writer, werror, panic>>

\* sync.WaitGroup: Wait sleeps unless the counter is zero ...
Wait(p) ==
    /\ at[p] = "wait"
    /\ Goto(p, IF wg = 0 THEN "close" ELSE "asleep")
    /\ UNCHANGED <<terminating, table, wg, buffer, closed, conn, peer, writer,
                   werror, panic>>

\* ... and panics when it is not zero any more by the time the sleeper runs
Wake(p) ==
    /\ at[p] = "awake"
    /\ \/ wg = 0 /\ Goto(p, "close") /\ UNCHANGED panic
       \/ wg # 0 /\ Panic("WaitGroup is reused before previous Wait has returned")
    /\ UNCHANGED <<terminating, table, wg, buffer, closed, conn, peer, writer, werror>>

\* Mutant: the buffer is not closed
CloseForgotten(p) ==
    /\ at[p] = "close"
    /\ Goto(p, "hangup")
    /\ UNCHANGED <<terminating, table, wg, buffer, closed, conn, peer, writer,
                   werror, panic>>

Close(p) ==
    /\ at[p] = "close"
    /\ \/ closed /\ Panic("close of closed channel") /\ UNCHANGED closed
       \/ ~closed /\ closed' = TRUE /\ Goto(p, "hangup") /\ UNCHANGED panic
    /\ UNCHANGED <<terminating, table, wg, buffer, conn, peer, writer, werror>>

HangUp(p) ==
    /\ at[p] = "hangup"
    /\ conn' = FALSE
    /\ Return(p)
    /\ UNCHANGED <<terminating, table, wg, buffer, closed, peer, writer, werror, panic>>

(***************************************************************************)
(* handleConnection and handleRead.  A client that is banned from the      *)
(* server is told so, and never gets into the table.                       *)
(***************************************************************************)
Accept ==
    /\ at[self] = "accept"
    /\ \/ table' = TRUE /\ Goto(self, "loop")
       \/ Call(self, "test", <<"final">>) /\ UNCHANGED table
    /\ UNCHANGED <<terminating, wg, buffer, closed, conn, peer, writer, werror, panic>>

Loop ==
    /\ at[self] = "loop"
    /\ Goto(self, IF terminating THEN "final" ELSE "decode")
    /\ UNCHANGED <<terminating, table, wg, buffer, closed, conn, peer, writer,
                   werror, panic>>

\* a message; or none for 300 seconds, one that is malformed, or no connection
Decode ==
    /\ at[self] = "decode"
    /\ \/ conn /\ peer # "gone" /\ Goto(self, "got")
       \/ Goto(self, "lost")
    /\ UNCHANGED <<terminating, table, wg, buffer, closed, conn, peer, writer,
                   werror, panic>>

\* the handler replies or does not; PASS may fail, QUIT, or a command before USER
Got ==
    /\ at[self] = "got"
    /\ \/ terminating /\ Goto(self, "final")
       \/ /\ ~terminating
          /\ \/ Goto(self, "loop")
             \/ Call(self, "test", <<"loop">>)
             \/ Call(self, "test", <<"kill", "loop">>)
             \/ Call(self, "kill", <<"loop">>)
             \/ Goto(self, "final")
    /\ UNCHANGED <<terminating, table, wg, buffer, closed, conn, peer, writer,
                   werror, panic>>

Lost ==
    /\ at[self] = "lost"
    /\ IF terminating THEN Goto(self, "final") ELSE Call(self, "kill", <<"final">>)
    /\ UNCHANGED <<terminating, table, wg, buffer, closed, conn, peer, writer,
                   werror, panic>>

Final ==
    /\ at[self] = "final"
    /\ Call(self, "kill", <<"delete">>)
    /\ UNCHANGED <<terminating, table, wg, buffer, closed, conn, peer, writer,
                   werror, panic>>

Delete ==
    /\ at[self] = "delete"
    /\ table' = FALSE
    /\ conn' = FALSE
    /\ Goto(self, "ended")
    /\ UNCHANGED <<terminating, wg, buffer, closed, peer, writer, werror, panic>>

(***************************************************************************)
(* Other goroutines get hold of the client while it is in the table; what  *)
(* they then do may come much later.                                       *)
(***************************************************************************)
Broadcast(w) ==
    /\ at[w] = "idle" /\ table
    /\ Call(w, "test", <<"idle">>)
    /\ UNCHANGED <<terminating, table, wg, buffer, closed, conn, peer, writer,
                   werror, panic>>

\* ban: a KILL message is written, and the client killed
Ban(k) ==
    /\ at[k] = "idle" /\ table
    /\ Call(k, "test", <<"kill", "done">>)
    /\ UNCHANGED <<terminating, table, wg, buffer, closed, conn, peer, writer,
                   werror, panic>>

(***************************************************************************)
(* handleWrite.  Done wakes whoever waits when the counter becomes zero.   *)
(***************************************************************************)
Done ==
    /\ wg' = wg - 1
    /\ at' = [p \in Procs |-> IF at[p] = "asleep" /\ wg = 1 THEN "awake" ELSE at[p]]
    /\ UNCHANGED back

Take ==
    /\ writer = "range" /\ buffer > 0 /\ ~werror
    /\ buffer' = buffer - 1
    /\ writer' = "encode"
    /\ UNCHANGED <<terminating, table, wg, closed, conn, peer, at, back, werror, panic>>

\* after an error messages are taken and dropped
\* Mutant: they are not counted as done
DropUncounted ==
    /\ writer = "range" /\ buffer > 0 /\ werror
    /\ buffer' = buffer - 1
    /\ UNCHANGED <<terminating, table, wg, closed, conn, peer, at, back, writer,
                   werror, panic>>

Drop ==
    /\ writer = "range" /\ buffer > 0 /\ werror
    /\ buffer' = buffer - 1
    /\ Done
    /\ UNCHANGED <<terminating, table, closed, conn, peer, writer, werror, panic>>

\* a message is sent to a peer that reads, and fails when there is no connection
\* Mutants: an error ends the loop, or the message is not counted as done, or twice
EncodeStops ==
    /\ writer = "encode"
    /\ \/ conn /\ peer = "reads" /\ writer' = "range" /\ UNCHANGED werror
       \/ (~conn \/ peer = "gone") /\ writer' = "ended" /\ werror' = TRUE
    /\ Done
    /\ UNCHANGED <<terminating, table, buffer, closed, conn, peer, panic>>

EncodeUncounted ==
    /\ writer = "encode"
    /\ writer' = "range"
    /\ \/ conn /\ peer = "reads" /\ Done /\ UNCHANGED werror
       \/ (~conn \/ peer = "gone") /\ werror' = TRUE /\ UNCHANGED <<wg, at, back>>
    /\ UNCHANGED <<terminating, table, buffer, closed, conn, peer, panic>>

EncodeTwice ==
    /\ writer = "encode"
    /\ writer' = "range"
    /\ \/ conn /\ peer = "reads" /\ Done /\ UNCHANGED werror
       \/ (~conn \/ peer = "gone") /\ werror' = TRUE /\ wg' = wg - 2 /\ UNCHANGED <<at, back>>
    /\ UNCHANGED <<terminating, table, buffer, closed, conn, peer, panic>>

Encode ==
    /\ writer = "encode"
    /\ writer' = "range"
    /\ \/ conn /\ peer = "reads" /\ UNCHANGED werror
       \/ (~conn \/ peer = "gone") /\ werror' = TRUE
    /\ Done
    /\ UNCHANGED <<terminating, table, buffer, closed, conn, peer, panic>>

EndOfRange ==
    /\ writer = "range" /\ buffer = 0 /\ closed
    /\ writer' = "ended"
    /\ UNCHANGED <<terminating, table, wg, buffer, closed, conn, peer, at, back,
                   werror, panic>>

(***************************************************************************)
(* The other side of the connection.                                       *)
(***************************************************************************)
PeerMoves(from, to) ==
    /\ conn /\ peer = from
    /\ peer' = to
    /\ UNCHANGED <<terminating, table, wg, buffer, closed, conn, at, back, writer,
                   werror, panic>>

PeerStalls  == PeerMoves("reads", "stalls")
PeerResumes == PeerMoves("stalls", "reads")
PeerLeaves  == PeerMoves("reads", "gone") \/ PeerMoves("stalls", "gone")

Write(p) == Test(p) \/ Add(p) \/ Send(p)
Kill(p)  == KillTest(p) \/ Mark(p) \/ Wait(p) \/ Wake(p) \/ Close(p) \/ HangUp(p)
HandleConnection == Accept \/ Loop \/ Decode \/ Got \/ Lost \/ Final \/ Delete
HandleWrite == Take \/ Drop \/ Encode \/ EndOfRange

Next ==
    /\ panic = "none"
    /\ \/ \E p \in Procs : Write(p) \/ Kill(p)
       \/ HandleConnection \/ HandleWrite
       \/ \E w \in Writers : Broadcast(w)
       \/ \E k \in Killers : Ban(k)
       \/ PeerStalls \/ PeerResumes \/ PeerLeaves

(***************************************************************************)
(* Goroutines that can go on do.  The senders that wait for room in the    *)
(* buffer are served in turn (a channel keeps them in a queue), so none    *)
(* waits while others send again and again; and a message is sent if the   *)
(* peer reads again and again.  Nobody is made to send a message, and no   *)
(* peer to read one.                                                       *)
(***************************************************************************)
Running(A) == panic = "none" /\ A

Fairness ==
    /\ \A p \in Procs : /\ WF_vars(Running(Test(p) \/ Add(p) \/ Kill(p)))
                        /\ SF_vars(Running(Send(p)))
    /\ WF_vars(Running(HandleConnection))
    /\ WF_vars(Running(Take \/ Drop \/ EndOfRange))
    /\ SF_vars(Running(Encode))

Spec == Init /\ [][Next]_vars /\ Fairness

(***************************************************************************)
(* Properties.                                                             *)
(***************************************************************************)
Locations ==
    {"accept", "loop", "decode", "got", "lost", "final", "delete", "ended", "idle",
     "done", "test", "add", "send", "kill", "mark", "wait", "asleep", "awake",
     "close", "hangup"}

(***************************************************************************)
(* What the goroutines share has its type: the buffer holds at most Cap    *)
(* messages and the counter is never negative.                             *)
(***************************************************************************)
TypeOK ==
    /\ terminating \in BOOLEAN /\ table \in BOOLEAN /\ closed \in BOOLEAN
    /\ conn \in BOOLEAN /\ werror \in BOOLEAN
    /\ wg \in Nat /\ buffer \in 0..Cap
    /\ peer \in {"reads", "stalls", "gone"}
    /\ at \in [Procs -> Locations]
    /\ back \in [Procs -> Seq(Locations)]
    /\ writer \in {"range", "encode", "ended"}

(***************************************************************************)
(* The WaitGroup counts exactly the messages that are about to be put into *)
(* the buffer, in it, or being sent: through errors, the end of the        *)
(* connection and even a panic, no message is counted twice or for ever    *)
(* (client.go:84, server.go:1380, 1403).                                   *)
(***************************************************************************)
Sending == {p \in Procs : at[p] = "send"}

WaitGroupCounts ==
    wg = buffer + Cardinality(Sending) + (IF writer = "encode" THEN 1 ELSE 0)

(***************************************************************************)
(* A client's buffer is closed twice only when somebody kills it: the test *)
(* and the setting of the state protect the goroutine of the connection,   *)
(* which calls killClient several times, from itself (server.go:1193-1248, *)
(* 1433, 1438-1441).                                                       *)
(***************************************************************************)
ClosedOnce ==
    panic = "close of closed channel" =>
        \E k \in Killers : at[k] \in {"wait", "asleep", "awake", "close", "hangup", "done"}

(***************************************************************************)
(* Goroutines that wait never wait for each other alone.  While one has no *)
(* room in the buffer, or waits in killClient for the messages to be       *)
(* handled, handleWrite has a message to handle, or somebody else can put  *)
(* one into the buffer (or panic over it): the only one that can keep all  *)
(* of them waiting is the peer (server.go:1376-1403, 1446).                *)
(***************************************************************************)
CanSend(p) == at[p] = "send" /\ (closed \/ buffer < Cap)

WaitersAreServed ==
    (\E p \in Procs : at[p] \in {"send", "asleep"}) =>
        \/ writer = "encode"
        \/ writer = "range" /\ buffer > 0
        \/ \E p \in Procs : CanSend(p)

(***************************************************************************)
(* Once a client is terminating, or its connection has been given up, the  *)
(* buffer is closed, or somebody who has seen that nobody else was on it   *)
(* is on the way to closing it: every later killClient returns at once, so *)
(* that otherwise handleWrite would range over the buffer for ever         *)
(* (server.go:1377, 1433-1434, 1438-1447).                                 *)
(***************************************************************************)
BufferGetsClosed ==
    terminating \/ at[self] = "ended" =>
        closed \/ \E p \in Procs : at[p] \in {"wait", "asleep", "awake", "close"}

(***************************************************************************)
(* Nothing in the code ends the wait for a peer that reads nothing and     *)
(* keeps the connection: there is a deadline for reading (server.go:1196), *)
(* and none for writing.  So what follows is about peers that read again   *)
(* and again, or leave, and about a program that nothing has ended.        *)
(***************************************************************************)
PeerAnswers == []<>(peer # "stalls" \/ ~conn)

Alive(P) == P \/ panic # "none"

(***************************************************************************)
(* Whoever writes to a client goes on some day, even when the connection   *)
(* of that client fails: handleWrite takes the messages it cannot send     *)
(* (server.go:1378-1382).                                                  *)
(***************************************************************************)
WriteReturns ==
    PeerAnswers => \A p \in Procs : at[p] = "send" ~> Alive(at[p] # "send")

(***************************************************************************)
(* Whoever kills a client goes on some day (server.go:1446).               *)
(***************************************************************************)
KillReturns ==
    PeerAnswers => \A p \in Procs : at[p] = "mark" ~> Alive(at[p] \notin
        {"mark", "wait", "asleep", "awake", "close", "hangup"})

(***************************************************************************)
(* A connection that ends leaves no goroutine behind: handleConnection     *)
(* returns, and so does handleWrite (server.go:1377, 1433-1434, 1447).     *)
(***************************************************************************)
EndsForGood ==
    PeerAnswers => at[self] = "final" ~> Alive(at[self] = "ended" /\ writer = "ended")

(***************************************************************************)
(* server.go:130 says that KILL will "Disconnect and ban a user from the   *)
(* server": the user, and nobody else.  But a client that is being written *)
(* to, or is just ending, when it is killed takes the server down: a panic *)
(* in any goroutine ends the program.                                      *)
(***************************************************************************)
ServerSurvives == panic = "none"

=============================================================================
