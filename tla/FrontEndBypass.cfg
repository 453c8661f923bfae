CONSTANTS
    N = 6
    ResetAddress = 1
    JumpBypass = TRUE
    FastBus = FALSE
SPECIFICATION FairSpec
INVARIANT TypeOK
INVARIANT PathInv
PROPERTY StreamSpec
PROPERTY AlwaysIssues
