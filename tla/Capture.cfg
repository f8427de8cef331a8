\* A pause, quiet speech and a yell.
CONSTANTS
    Loudness = {20, 200, 12000}
    Magnitude = {60, 900, 32767}
SPECIFICATION Spec
INVARIANT
    YellsAreLimited
