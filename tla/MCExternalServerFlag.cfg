\* A process that exits right after cmd.Start, before cmdRunning is set.
CONSTANTS
    Targets = {t1}
    MaxCycles = 2
    MaxStarts = 2
    StdinCap = 1
    StdoutCap = 1
    ProcCap = 1
    HasValidators = FALSE
    NoReply = NoReply

SPECIFICATION Spec

INVARIANT RunningFlagTracksProcess
