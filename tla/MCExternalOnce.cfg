\* ONCE mode cycles with one goroutine per endpoint, distinct target names.
CONSTANTS
    Endpoints <- MCEndpoints
    NameOf <- DistinctNames
    MaxCycles = 2
    HasValidators = TRUE
SPECIFICATION Spec
INVARIANT TotalsCountRuns
PROPERTY ImplementsOnceCycle
