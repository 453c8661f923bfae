SPECIFICATION Spec
CONSTANTS
    N = 3
    Words = {"next", "loop"}
    Successor <- Follow
    Program <- Loop
    LargePackets = FALSE
    Packets <- Commands
    Replies = 2
INVARIANTS Patched StoppedIsHalted
PROPERTIES GoesOn Answered Reported
