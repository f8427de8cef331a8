\* Three commands in the channel, two failures of the device.
CONSTANTS
    MaxCommands = 3
    MaxFaults = 2
SPECIFICATION Spec
INVARIANTS
    TypeOK
    EngineHasItsDriver
    MicrophoneStops
PROPERTIES
    EngineFollows
