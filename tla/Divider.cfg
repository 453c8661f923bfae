SPECIFICATION FairSpec
CONSTANTS
    W = 4
    Later <- Extremes
INVARIANTS Correct
PROPERTIES Ends
