\* A buffer of three frames, sequence numbers modulo 8, frames late by up to two.
CONSTANTS
    Capacity = 3
    SeqModulus = 8
    MaxLate = 2
SPECIFICATION PlayoutSpec
INVARIANTS
    SilenceEnds
PROPERTIES
    SteadyPlayout
