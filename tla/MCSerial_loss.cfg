CONSTANTS
    Program <- MCProgram
    Report <- MCReport
    IdtLoaded = 4
    Characters <- MCCharacters
    HexDigits = 2
    DecBuffer = 4
    Leftovers <- MCLeftovers
SPECIFICATION Spec
INVARIANT NothingLost
