------------------------------ MODULE CallSlot ------------------------------
(***************************************************************************)
(* What the phone promises about its one line, without messages, tags,     *)
(* timers or transactions: one caller holds the line at a time and keeps   *)
(* it until it is released; a call is established only after it rang; a    *)
(* stream flows only while the line is held, and stops when it is released.*)
(***************************************************************************)
CONSTANTS CallId, NoCall

VARIABLES owner, stage, stream

vars == <<owner, stage, stream>>

Init == owner = NoCall /\ stage = "Free" /\ stream = FALSE

Seize(call) ==
    /\ stage = "Free"
    /\ owner' = call
    /\ stage' = "Ringing"
    /\ UNCHANGED stream

Establish ==
    /\ stage = "Ringing"
    /\ stage' = "Established"
    /\ stream' \in BOOLEAN
    /\ UNCHANGED owner

Negotiate ==
    /\ stage # "Free"
    /\ stream' \in BOOLEAN
    /\ UNCHANGED <<owner, stage>>

Release ==
    /\ stage # "Free"
    /\ owner' = NoCall
    /\ stage' = "Free"
    /\ stream' = FALSE

Next ==
    \/ \E call \in CallId : Seize(call)
    \/ Establish
    \/ Negotiate
    \/ Release

Spec == Init /\ [][Next]_vars
=============================================================================
