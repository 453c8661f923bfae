CONSTANTS
    Rd = {r1, r2, r3, r4, r5, r6}
    Junk = Junk
    Misaligned = FALSE
    Mixed = FALSE
SPECIFICATION FairSpec
PROPERTY PortSpec
PROPERTY Completes
