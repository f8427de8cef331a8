\* Two transactions that overlap; timer G fires at T1, doubles, and reaches its cap.
CONSTANTS
    c1 = c1
    c2 = c2
    CallId <- TwoCalls
    CSeq = {1}
    Status = {180, 200, 487}
    T1 = 1
    T2 = 4
    TimerH = 12
    TimerI = 3
SPECIFICATION Spec
INVARIANTS
    TypeOK
    UniqueKeys
    TimersArmed
    OnSchedule
PROPERTIES
    AnsweredExpires
