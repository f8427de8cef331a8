\* Two ordinary callers, one with a compact Via, and one with neither a Via
\* that is found nor a From tag.
CONSTANTS
    c1 = c1
    c2 = c2
    c3 = c3
    c4 = c4
    NoCall = NoCall
    CallId <- FourCalls
    CSeq = {1}
    Offer <- MediaOffer
    Untagged = {c3}
    CompactVia = {c3, c4}
    RingTimeout = 2
    MaxTag = 2
    T1 = 1
    T2 = 1
    TimerH = 2
    TimerI = 1
SPECIFICATION Spec
SYMMETRY Alike
INVARIANTS
    StreamBelongsToDialog
    ContextBelongsToDialog
    TagsIdentifyCalls
PROPERTIES
    StrangersChangeNothing
