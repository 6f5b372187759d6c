-------------------------- MODULE ListenersProofs ---------------------------
(***************************************************************************)
(* Theorems about module Listeners, for any number of goroutines that      *)
(* reload, any certificates and any capacity of the channels.              *)
(***************************************************************************)
EXTENDS Listeners, TLAPS

LEMMA InitTypeOK == Init => TypeOK
<1> SUFFICES ASSUME Init PROVE TypeOK
  OBVIOUS
<1>1. file \in Files
  BY DEF Init
<1>2. config \in Certs \cup {None}
  BY <1>1 DEF Init, Files, Decoded
<1>3. restartplain \in 0..Capacity /\ restartssl \in 0..Capacity
  BY ListenersAssumption DEF Init
<1>4. at \in [Callers -> {"idle", "plain", "ssl"}]
  BY DEF Init
<1> QED
  BY <1>1, <1>2, <1>3, <1>4 DEF Init, TypeOK

LEMMA NextTypeOK == TypeOK /\ [Next]_vars => TypeOK'
<1> SUFFICES ASSUME TypeOK, [Next]_vars PROVE TypeOK'
  OBVIOUS
<1> USE ListenersAssumption DEF TypeOK
<1>1. CASE \E f \in Files : Edit(f)
  BY <1>1 DEF Edit
<1>2. CASE \E g \in Callers : Reload(g) \/ ReloadFails(g)
  <2> PICK g \in Callers : Reload(g) \/ ReloadFails(g)
    BY <1>2
  <2> Decoded(config) \in Certs \cup {None}
    BY DEF Decoded, Files
  <2> QED
    BY DEF Reload, ReloadFails
<1>3. CASE \E g \in Callers : SendPlain(g) \/ SendSSL(g)
  BY <1>3 DEF SendPlain, SendSSL
<1>4. CASE Listen
  BY <1>4 DEF Listen, PlainListen, PlainSelect, SSLDisabled, SSLEnds, SSLLoad, SSLListen,
              SSLListenFails, SSLSelect
<1>5. CASE PlainAccept \/ SSLAccept
  BY <1>5 DEF PlainAccept, SSLAccept
<1>6. CASE UNCHANGED vars
  BY <1>6 DEF vars
<1> QED
  BY <1>1, <1>2, <1>3, <1>4, <1>5, <1>6 DEF Next

(***************************************************************************)
(* The state has its type, and the channels never hold more tokens than    *)
(* they have room for, however many goroutines reload (server.go:173-174). *)
(***************************************************************************)
THEOREM ListenersTypeCorrect == Spec => []TypeOK
  BY InitTypeOK, NextTypeOK, PTL DEF Spec

(***************************************************************************)
(* NoReloadLost is inductive relative to TypeOK.  The configuration        *)
(* changes in two ways: by a reload that goes on to send its tokens, and   *)
(* by one that failed.  A certificate is loaded anew after every token.    *)
(***************************************************************************)
LEMMA NextNoReloadLost == TypeOK /\ NoReloadLost /\ [Next]_vars => NoReloadLost'
<1> SUFFICES ASSUME TypeOK, NoReloadLost, [Next]_vars PROVE NoReloadLost'
  OBVIOUS
<1> USE ListenersAssumption DEF TypeOK, NoReloadLost, RestartPending
<1>1. CASE \E f \in Files : Edit(f)
  BY <1>1 DEF Edit
<1>2. ASSUME NEW g \in Callers, Reload(g) PROVE NoReloadLost'
  BY <1>2 DEF Reload
<1>3. ASSUME NEW g \in Callers, ReloadFails(g) PROVE NoReloadLost'
  BY <1>3 DEF ReloadFails
<1>4. ASSUME NEW g \in Callers, SendPlain(g) PROVE NoReloadLost'
  BY <1>4 DEF SendPlain
<1>5. ASSUME NEW g \in Callers, SendSSL(g) PROVE NoReloadLost'
  BY <1>5 DEF SendSSL
<1>6. CASE PlainListen \/ PlainSelect \/ PlainAccept
  BY <1>6 DEF PlainListen, PlainSelect, PlainAccept
<1>7. CASE SSLDisabled \/ SSLEnds \/ SSLLoad \/ SSLListen \/ SSLListenFails \/ SSLAccept
  BY <1>7 DEF SSLDisabled, SSLEnds, SSLLoad, SSLListen, SSLListenFails, SSLAccept
<1>8. CASE SSLSelect
  BY <1>8 DEF SSLSelect
<1>9. CASE UNCHANGED vars
  BY <1>9 DEF vars
<1> QED
  BY <1>1, <1>2, <1>3, <1>4, <1>5, <1>6, <1>7, <1>8, <1>9 DEF Next, Listen

(***************************************************************************)
(* No reload is lost on the SSL listener: while it uses a certificate that *)
(* is not the configured one, it is still to find a token, or a reload     *)
(* that failed has left the certificate behind (server.go:1479-1516,       *)
(* 1556-1563, 1593-1594).                                                  *)
(***************************************************************************)
THEOREM NoReloadLostCorrect == Spec => []NoReloadLost
<1>1. Init => NoReloadLost
  BY DEF Init, NoReloadLost
<1> QED
  BY <1>1, InitTypeOK, NextTypeOK, NextNoReloadLost, PTL DEF Spec

\* Where a reload has found nobody to read restartssl, it stays (server.go:1481-1485, 1594).
UnreadForGood == [][\A g \in Callers : Unread(g) => Unread(g)']_vars

(***************************************************************************)
(* When listenSSL has returned for want of a certificate and a reload      *)
(* finds restartssl full, it waits for ever: nobody reads the channel, and *)
(* no other reload, edit or connection changes that (server.go:1481-1485,  *)
(* 1594).                                                                  *)
(***************************************************************************)
THEOREM UnreadForGoodCorrect == Spec => UnreadForGood
<1>1. ASSUME TypeOK, [Next]_vars, NEW g \in Callers, Unread(g) PROVE Unread(g)'
  <2> USE <1>1, ListenersAssumption DEF Unread, TypeOK
  <2>1. ASSUME NEW f \in Files, Edit(f) PROVE Unread(g)'
    BY <2>1 DEF Edit
  <2>2. ASSUME NEW h \in Callers, Reload(h) \/ ReloadFails(h) PROVE Unread(g)'
    BY <2>2 DEF Reload, ReloadFails
  <2>3. ASSUME NEW h \in Callers, SendPlain(h) \/ SendSSL(h) PROVE Unread(g)'
    BY <2>3 DEF SendPlain, SendSSL
  <2>4. CASE PlainListen \/ PlainSelect \/ PlainAccept
    BY <2>4 DEF PlainListen, PlainSelect, PlainAccept
  <2>5. CASE \/ SSLDisabled \/ SSLEnds \/ SSLLoad \/ SSLListen \/ SSLListenFails
             \/ SSLSelect \/ SSLAccept
    BY <2>5 DEF SSLDisabled, SSLEnds, SSLLoad, SSLListen, SSLListenFails, SSLSelect, SSLAccept
  <2>6. CASE UNCHANGED vars
    BY <2>6 DEF vars
  <2> QED
    BY <2>1, <2>2, <2>3, <2>4, <2>5, <2>6 DEF Next, Listen
<1>2. TypeOK /\ [Next]_vars => [\A g \in Callers : Unread(g) => Unread(g)']_vars
  BY <1>1
<1> QED
  BY <1>2, ListenersTypeCorrect, PTL DEF Spec, UnreadForGood

=============================================================================
