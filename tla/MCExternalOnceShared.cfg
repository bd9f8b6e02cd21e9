\* ONCE mode cycles whose two endpoints share one target name.
CONSTANTS
    Endpoints <- MCEndpoints
    NameOf <- SharedName
    MaxCycles = 2
    HasValidators = TRUE
SPECIFICATION Spec
INVARIANT TotalsCountRuns
