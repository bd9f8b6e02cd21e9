\* Safety of SERVER mode and completion of the receive phase.  Deadlock
\* checking is off: the driver can block forever in a stdin write (see
\* MCExternalServerHang.cfg), which is a real terminal state of the code.
CONSTANTS
    Targets = {t1, t2}
    MaxCycles = 3
    MaxStarts = 2
    StdinCap = 2
    StdoutCap = 1
    ProcCap = 1
    HasValidators = TRUE
    NoReply = NoReply

SPECIFICATION Spec

INVARIANT TypeOK
INVARIANT ResultsAccounted
PROPERTY ImplementsProbeRequests
PROPERTY ReceiveCompletes

CHECK_DEADLOCK FALSE
