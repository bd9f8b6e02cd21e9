\* A well-behaved sequential server whose replies time out for a few
\* cycles: the backlog fills both pipes and the driver never finishes.
CONSTANTS
    Targets = {t1, t2}
    MaxCycles = 3
    MaxStarts = 2
    StdinCap = 2
    StdoutCap = 1
    ProcCap = 1
    HasValidators = FALSE
    NoReply = NoReply

SPECIFICATION Spec

PROPERTY CycleCompletes

CHECK_DEADLOCK FALSE
