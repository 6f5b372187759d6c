----------------------------- MODULE MCDatabase -----------------------------
(***************************************************************************)
(* Two sessions, the administrator's account and one that an operator has  *)
(* added.                                                                  *)
(***************************************************************************)
EXTENDS Database, TLC

CONSTANTS alice, bob, admin, root, user, password, secret

\* the sessions do the same
Symmetry == Permutations(Sessions)

(***************************************************************************)
(* Sessions run on a database that has been initialised in one go; on one  *)
(* that was cut short, or that lacks a channel, they would do the same, as *)
(* the commands of accounts read neither channels nor permissions.         *)
(***************************************************************************)
WholeNext ==
    \/ Connect \/ Initialize \/ Crash
    \/ Insert(2, user, password)
    \/ \E s \in Sessions : ~cut /\ failed = {} /\ Handle(s)

WholeSpec == Init /\ [][WholeNext]_vars
=============================================================================
