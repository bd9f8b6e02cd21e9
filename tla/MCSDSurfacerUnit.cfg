\* A latency metric with a 10ms latency unit.
CONSTANTS
    EMs <- MCEMsOddUnit
    MetricsPrefix = "PTYPE_PROBE"
    FilteredMetrics = {}
    HasRegex = FALSE
    RegexAllows = {}
    URLLen = 34
    PartLen <- MCPartLen
    BufSize = 1
    BatchSize = 2
    MaxWrites = 1

SPECIFICATION Spec

INVARIANT UnitNeverEmpty
