CONSTANTS
    Requests = {q1, q2, q3}
    Slaves = {bram, native, wishbone}
    Registrations = {{}, {native, wishbone}}
    Nothing = Nothing
    Xlen = 2
    Failing = {}
    Pipelined = FALSE
SPECIFICATION FairSpec
INVARIANT AnswerMatches
INVARIANT OwnersOnly
PROPERTY Answered
