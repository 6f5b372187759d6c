---------------------------- MODULE MCMembership ----------------------------
(***************************************************************************)
(* A channel of three clients.  Carol is in the channel when the behaviour *)
(* begins and sends nothing.                                               *)
(***************************************************************************)
EXTENDS Membership

CONSTANTS alice, bob, carol

(***************************************************************************)
(* Alice, a moderator, joins, speaks, changes modes and kills bob; bob     *)
(* joins, parts, quits and asks for the names.                             *)
(***************************************************************************)
TwoActive ==
    \/ Join(alice) \/ ModeRead(alice) \/ Speak(alice) \/ Kill(alice, bob)
    \/ Join(bob) \/ Part(bob, bob) \/ Kill(bob, bob) \/ Names(bob)
    \/ \E g \in Clients : Step(g)

TwoSpec == Init /\ [][TwoActive]_vars /\ Fairness
=============================================================================
