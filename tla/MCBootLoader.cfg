CONSTANTS
    InitialTypes <- MCTypes
    Served <- MCServed
    MaxNoise = 2
    Segments <- MCSegments
    Slack = 8
    MaxAttempts = 3
SPECIFICATION LoaderSpec
INVARIANTS
    InheritedMapTrue
    HandoffProtected
    OnlyEventsRace
    SlackSuffices
PROPERTIES
    KeepsContract
    HandoffEnds
