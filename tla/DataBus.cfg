CONSTANTS
    Rd = {r1, r2}
    Requests <- BusRequests
    Junk = Junk
    MaxOutstanding = 1
    RegisteredReadStage = TRUE
    WriteEarlyTerm = FALSE
    Slaves = {bram, native, wishbone}
    Bram = bram
    Native = native
    Wishbone = wishbone
    Registrations = {{}, {wishbone}}
    Nothing = Nothing
    Xlen = 3
    Program = {{2, 1}, {2}, {2, 0}, {1}, {}}
SPECIFICATION FairSpec
INVARIANT WishboneHeld
INVARIANT OwnData
INVARIANT ErrorIffUnmapped
PROPERTY Answered
