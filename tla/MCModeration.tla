---------------------------- MODULE MCModeration ----------------------------
(***************************************************************************)
(* Three connections: alice and carol share an address, bob and carol may  *)
(* share an account.                                                       *)
(***************************************************************************)
EXTENDS Moderation

CONSTANTS alice, bob, carol, admin, user, home, cafe

MCAddress == [c \in Clients |-> IF c = bob THEN cafe ELSE home]

(***************************************************************************)
(* For ever, a second, and two that are too long: the time wraps, or the   *)
(* product does.                                                           *)
(***************************************************************************)
MCDurations == {[value |-> 0, unit |-> 1], [value |-> 1, unit |-> 1],
                [value |-> 7, unit |-> 1], [value |-> 7, unit |-> 2]}

(***************************************************************************)
(* Alice is there first and moderates, and does not come back when there   *)
(* are rows.  Bob speaks, leaves and joins again; carol comes back to the  *)
(* channel when somebody is banned, and identifies, perhaps once more when *)
(* alice has found somebody.  The clock ticks when a row can expire.       *)
(***************************************************************************)
Arrive(c) ==
    /\ Accept(c)
    /\ c \notin terminating
    /\ IF c = alice THEN bans = {} ELSE at[alice] # "offline" \/ bans # {}

Active ==
    \/ Pass(alice) /\ account'[alice] = admin
    \/ JoinCommand(alice) /\ account[alice] = admin
    \/ Kick(alice) \/ Ban(alice) \/ (Quit(alice) /\ at[alice] = "login")
    \/ Pass(bob) /\ account'[bob] = user
    \/ (JoinCommand(bob) /\ account[bob] = user) \/ Privmsg(bob) \/ Part(bob)
    \/ JoinCommand(carol) /\ at[carol] = "login"
    \/ JoinCommand(carol) /\ bans # {} /\ account[carol] = NoAccount
    \/ Identify(carol) /\ account'[carol] = user /\ account[carol] = NoAccount
    \/ Identify(carol) /\ account'[carol] = admin /\ at[alice] = "found"
    \/ (\E c \in Clients : Arrive(c) \/ Step(c))
    \/ (Tick /\ \E b \in bans : b.expires # 0) \/ Restart

ActiveSpec == Init /\ [][Active]_vars
=============================================================================
