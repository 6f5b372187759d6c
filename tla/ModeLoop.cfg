SPECIFICATION Spec
CONSTANTS
    Args = {"a", "b"}
    Flag = ""
    Unset = Unset
    Letters = {"c", "D", "k", "l", "x"}
    MaxLetters = 4
    MaxArgs = 2
INVARIANTS
    TypeOK
    LoopComputesAddModes
CHECK_DEADLOCK FALSE
