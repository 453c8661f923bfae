CONSTANTS
    N = 3
    ResetAddress = 0
    FastBus = TRUE
    Configs <- BothLengths
    ProgbufSize = 2
    Words = {"ebreak", "insn", "dpc", "dcsr"}
    Programs <- SomePrograms
    Targets = {0, 2}
    Dpcs = {1}
    Accesses <- RunControl
SPECIFICATION Spec
INVARIANTS Transparent StepsOne Quiet
PROPERTIES EntryPc
