\* In units of 5 ms: periods of 20 ms, turns of 10 to 30 ms, or of 50 ms and more.
CONSTANTS
    Period = 4
    ActiveTurn = 2
    IdleTurn = 10
    Overrun = 4
    Lateness = 5
    MaxQueue = 4
SPECIFICATION CadenceSpec
INVARIANTS
    CadenceTypeOK
    BacklogIsBounded
PROPERTIES
    VoiceIsSteady
