\* Batching and descriptor creation of the flush, with Writes interleaving.
CONSTANTS
    EMs <- MCEMs
    MetricsPrefix = "PTYPE_PROBE"
    FilteredMetrics = {}
    HasRegex = FALSE
    RegexAllows = {}
    URLLen = 81
    PartLen <- MCPartLen
    BufSize = 1
    BatchSize = 2
    MaxWrites = 3

SPECIFICATION Spec

INVARIANT TypeOK
INVARIANT BatchesPartitionTs
INVARIANT DescribedBeforeWrite
INVARIANT DescriptorCreatedOnce
INVARIANT NameLimitExact
PROPERTY WritesEventuallyFlushed
