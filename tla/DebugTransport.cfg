SPECIFICATION Spec
CONSTANTS
    Adr = {0}
    Data = {0, 1}
    Scanned <- HostScans
    FrontEnds = {"dtm", "ecp5"}
    SettleEdges = 5
INVARIANTS NothingLost AnswerIsOwn
PROPERTIES ChannelSpec
