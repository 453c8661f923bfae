SPECIFICATION FairSpec
CONSTANTS
    Bits = 3
    Width = 4
    Payload <- SomeBytes
    Dividers = {5, 8}
    Noise = TRUE
INVARIANTS ReadOnce
PROPERTIES InOrder Arrives
