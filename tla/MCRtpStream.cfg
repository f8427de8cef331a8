\* Two callers, a buffer of two frames, sequence numbers that wrap at 3.
CONSTANTS
    Caller = {a, b}
    NoCaller = NoCaller
    Capacity = 2
    SeqModulus = 3
    MaxCommands = 2
    MaxMedia = 1
SYMMETRY Callers
SPECIFICATION Spec
INVARIANTS
    TypeOK
    SendsToTheCaller
    JitterBelongsToCall
