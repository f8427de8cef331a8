\* Callers that offer media and then hold, nothing, and an SDP that is refused.
CONSTANTS
    c1 = c1
    c2 = c2
    c3 = c3
    c4 = c4
    NoCall = NoCall
    CallId <- ThreeCalls
    CSeq = {1, 2}
    Offer <- MixedOffer
    Untagged <- NoCalls
    CompactVia <- NoCalls
    RingTimeout = 1
    MaxTag = 1
    T1 = 1
    T2 = 1
    TimerH = 2
    TimerI = 1
SPECIFICATION Spec
INVARIANTS
    TypeOK
    AnsweredCallIsConfirmable
    PhoneShowsDialog
PROPERTIES
    ImplementsCallSlot
    InviteIsAnswered
    UnansweredRingEnds
