\* One caller; the source's own claim, which the code does not keep.
CONSTANTS
    c1 = c1
    c2 = c2
    c3 = c3
    c4 = c4
    NoCall = NoCall
    CallId <- OneCall
    CSeq = {1}
    Offer <- MediaOffer
    Untagged <- NoCalls
    CompactVia <- NoCalls
    RingTimeout = 2
    MaxTag = 2
    T1 = 1
    T2 = 1
    TimerH = 2
    TimerI = 1
SPECIFICATION Spec
INVARIANTS
    DeadlineMeansRinging
