------------------------------ MODULE ModeLoop ------------------------------
(***************************************************************************)
(* One call of Entity.addModes (src/entity.go:73-89), letter by letter:    *)
(* the loop over the letters of the first parameter, with the index p of   *)
(* the next argument.  Any modes may be set before the call, and the       *)
(* letters need not be modes at all.                                       *)
(***************************************************************************)
EXTENDS Entity

CONSTANTS
    Letters,     \* the letters a client may write
    MaxLetters,  \* how many letters of one command are considered
    MaxArgs      \* how many arguments of one command are considered

ASSUME BoundsAssumption == MaxLetters \in Nat /\ MaxArgs \in Nat

VARIABLES
    letters,  \* newmodes[0], split into its letters
    args,     \* newmodes[1:]
    before,   \* the modes when the call starts
    modes,    \* the modes of the entity
    next,     \* the letter the loop looks at
    p         \* the parameter the next letter with an argument takes

vars == <<letters, args, before, modes, next, p>>

Upto(S, n) == UNION {[1..k -> S] : k \in 0..n}

Init ==
    /\ letters \in Upto(Letters, MaxLetters)
    /\ args \in Upto(Args, MaxArgs)
    /\ \E set \in SUBSET {"c", "k"}, allowed \in {CLIENT_MODES, CHANNEL_MODES} :
          \E v \in Args :
             before = [m \in allowed |-> IF m \notin set THEN Unset
                                         ELSE IF m = "k" THEN v ELSE Flag]
    /\ modes = before
    /\ next = 1
    /\ p = 1

(***************************************************************************)
(* A letter that takes an argument and finds one: len(newmodes) > p.       *)
(***************************************************************************)
WithArgument ==
    /\ next <= Len(letters)
    /\ letters[next] \in CHANNEL_MODES_ARG
    /\ Len(args) + 1 > p
    /\ modes' = AddMode(modes, letters[next], args[p])
    /\ p' = p + 1
    /\ next' = next + 1
    /\ UNCHANGED <<letters, args, before>>

\* Mutants: p moves on although there is no argument, or the letter is set
MissingArgumentCounted ==
    /\ next <= Len(letters)
    /\ letters[next] \in CHANNEL_MODES_ARG
    /\ Len(args) + 1 <= p
    /\ p' = p + 1
    /\ next' = next + 1
    /\ UNCHANGED <<letters, args, before, modes>>

MissingArgumentSet ==
    /\ next <= Len(letters)
    /\ letters[next] \in CHANNEL_MODES_ARG
    /\ Len(args) + 1 <= p
    /\ modes' = AddMode(modes, letters[next], Flag)
    /\ next' = next + 1
    /\ UNCHANGED <<letters, args, before, p>>

MissingArgument ==
    /\ next <= Len(letters)
    /\ letters[next] \in CHANNEL_MODES_ARG
    /\ Len(args) + 1 <= p
    /\ next' = next + 1
    /\ UNCHANGED <<letters, args, before, modes, p>>

WithoutArgument ==
    /\ next <= Len(letters)
    /\ letters[next] \notin CHANNEL_MODES_ARG
    /\ modes' = AddMode(modes, letters[next], Flag)
    /\ next' = next + 1
    /\ UNCHANGED <<letters, args, before, p>>

Next == WithArgument \/ MissingArgument \/ WithoutArgument

Spec == Init /\ [][Next]_vars /\ WF_vars(Next)

(***************************************************************************)
(* The parameters are words over their alphabets, and both indices stay    *)
(* within what they index (p may be one past the last argument).           *)
(***************************************************************************)
TypeOK ==
    /\ letters \in Seq(Letters)
    /\ args \in Seq(Args)
    /\ DOMAIN modes = DOMAIN before
    /\ \A m \in DOMAIN modes : modes[m] \in ModeValues
    /\ next \in 1..(Len(letters) + 1)
    /\ p \in 1..(Len(args) + 1)

(***************************************************************************)
(* After every iteration the modes are what AddModes gives for the letters *)
(* read so far: the running index p pairs letters and arguments the way    *)
(* the closed form counts them, and the loop sets neither more nor less    *)
(* (entity.go:78-88).                                                      *)
(***************************************************************************)
LoopComputesAddModes ==
    modes = AddModes(before, SubSeq(letters, 1, next - 1), args)

=============================================================================
