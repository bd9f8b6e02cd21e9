\* A map value with two keys, and one identity written with its labels in two orders.
CONSTANTS
    EMs <- MCEMsCacheKey
    MetricsPrefix = "PTYPE_PROBE"
    FilteredMetrics = {}
    HasRegex = FALSE
    RegexAllows = {}
    URLLen = 34
    PartLen <- MCPartLen
    BufSize = 1
    BatchSize = 2
    MaxWrites = 2

SPECIFICATION Spec

INVARIANT CacheOnePerIdentity
