CONSTANTS
    LastReg = 2
    Values = {0, 1}
    Configs <- AllConfigs
    Program <- SmallProgram
SPECIFICATION FairSpec
INVARIANT OperandsCurrent
INVARIANT EmptyIsSettled
PROPERTY Sequential
PROPERTY NeverStuck
