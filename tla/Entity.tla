------------------------------- MODULE Entity -------------------------------
(***************************************************************************)
(* Modes of a client or of a channel (src/entity.go).                      *)
(*                                                                         *)
(* An entity keeps its modes in a map from a mode letter to the value of   *)
(* the mode.  Here a map of modes is a total function on the letters its   *)
(* kind of entity allows; a letter that is not a key of the map has the    *)
(* value Unset.  A mode without an argument is stored with the value Flag. *)
(***************************************************************************)
EXTENDS Naturals, Sequences, FiniteSets

CONSTANTS
    Args,   \* what a client may give as the argument of a mode (keys, limits)
    Flag,   \* the empty string, the value of a mode that takes no argument
    Unset   \* the letter is not a key of the map

ASSUME EntityAssumption == Unset \notin Args \cup {Flag}

CLIENT_MODES      == {"c", "D"}
CHANNEL_MODES     == {"c", "D", "i", "k", "l", "m", "p", "r", "s", "t", "z"}
CHANNEL_MODES_ARG == {"k", "l"}

ModeValues  == Args \cup {Flag, Unset}
ClientModes  == [CLIENT_MODES -> ModeValues]
ChannelModes == [CHANNEL_MODES -> ModeValues]

NoModes(allowed) == [m \in allowed |-> Unset]

HasMode(modes, m) == modes[m] # Unset

(***************************************************************************)
(* addMode: a letter that is not allowed is ignored, and so is one that is *)
(* already set: its value is not replaced.                                 *)
(***************************************************************************)
AddMode(modes, m, v) ==
    [l \in DOMAIN modes |-> IF l = m /\ ~HasMode(modes, m) THEN v ELSE modes[l]]

(***************************************************************************)
(* addModes, as a function of its parameters: the letters of "+letters"    *)
(* and the arguments that follow.  The n-th letter that takes an argument  *)
(* takes the n-th argument, whether or not it can be set, and is skipped   *)
(* when there are fewer arguments.  The first letter that can be set wins. *)
(* The loop of the code is in module ModeLoop, and is shown to end with    *)
(* this result.                                                            *)
(***************************************************************************)
ArgIndex(letters, i) ==
    Cardinality({j \in 1..i : letters[j] \in CHANNEL_MODES_ARG})

Applies(letters, args, i) ==
    letters[i] \in CHANNEL_MODES_ARG => ArgIndex(letters, i) \in DOMAIN args

ValueAt(letters, args, i) ==
    IF letters[i] \in CHANNEL_MODES_ARG THEN args[ArgIndex(letters, i)] ELSE Flag

FirstOf(letters, args, m) ==
    {i \in DOMAIN letters :
        /\ letters[i] = m /\ Applies(letters, args, i)
        /\ \A j \in 1..(i - 1) : ~(letters[j] = m /\ Applies(letters, args, j))}

\* Mutant: letters that are no modes are stored, too
AddModesUnchecked(modes, letters, args) ==
    [m \in DOMAIN modes \cup {letters[i] : i \in DOMAIN letters} |->
        IF m \in DOMAIN modes /\ HasMode(modes, m) THEN modes[m] ELSE Flag]

AddModes(modes, letters, args) ==
    [m \in DOMAIN modes |->
        IF HasMode(modes, m) \/ FirstOf(letters, args, m) = {}
        THEN modes[m]
        ELSE ValueAt(letters, args, CHOOSE i \in FirstOf(letters, args, m) : TRUE)]

RemoveModes(modes, letters) ==
    [m \in DOMAIN modes |->
        IF \E i \in DOMAIN letters : letters[i] = m THEN Unset ELSE modes[m]]

(***************************************************************************)
(* diffModes: the letters set since last, and the letters unset since.  A  *)
(* letter whose value alone differs is in neither.                         *)
(***************************************************************************)
Added(modes, last)   == {m \in DOMAIN modes : HasMode(modes, m) /\ ~HasMode(last, m)}
Removed(modes, last) == {m \in DOMAIN modes : ~HasMode(modes, m) /\ HasMode(last, m)}

=============================================================================
