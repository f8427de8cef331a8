\* Presses of up to 3 turns, a window of 2, 3 turns to the host's answer; two
\* messages in a channel, one failure of the LED.
CONSTANTS
    ShortPressMax = 3
    DoubleTapWindow = 2
    AutoAnswerDelay = 3
    Build = {"device", "host"}
    MaxCommands = 2
    MaxFaults = 1
SPECIFICATION Spec
INVARIANTS
    TypeOK
    LedShowsTheCall
    TalkIsHeld
PROPERTIES
    GesturesPairClicks
    AutoAnswers
