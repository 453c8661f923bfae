SPECIFICATION FairSpec
CONSTANTS
    Tags = {0, 1}
    Lines = {0, 1}
    LineSize = 4
    Slices = {0, 1}
    Words <- EveryWord
    Requests <- EveryRequest
    Parked <- EitherLine
    Content <- Pattern
INVARIANTS CleanIsCurrent
PROPERTIES MemorySpec Performed
