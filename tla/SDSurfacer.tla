----------------------------- MODULE SDSurfacer -----------------------------
(***************************************************************************)
(* The Stackdriver surfacer (src/surfacers/stackdriver/stackdriver.go).   *)
(*                                                                         *)
(* Producers call Write, a non-blocking send on the bounded writeChan.    *)
(* One writeBatch goroutine either records an EventMetrics into the cache *)
(* (recordEventMetrics) or, on a batchTicker tick, flushes the cache:     *)
(* it walks the cache creating missing metric descriptors, sends the      *)
(* series in batches of BatchSize and finally empties the cache.  Each   *)
(* API call is a step of its own, so Writes interleave with a flush.      *)
(*                                                                         *)
(* Data is abstracted: label keys and values, metric names and values    *)
(* are small tokens; a metric name is the sequence of its '/'-separated   *)
(* parts and a cache key is the sequence of k=v pairs it joins.          *)
(***************************************************************************)
EXTENDS Naturals, Sequences, SequencesExt, FiniteSets

CONSTANTS
    EMs,             \* EventMetrics the producers may write
    MetricsPrefix,   \* "NONE" | "PROBE" | "PTYPE_PROBE"
    FilteredMetrics, \* metric keys rejected by opts.AllowMetric
    HasRegex,        \* allowed_metrics_regex is configured
    RegexAllows,     \* the metric names it matches
    URLLen,          \* len(monitoring_url)
    PartLen,         \* the length of each name part (label value or key)
    BufSize,         \* metrics_buffer_size: capacity of writeChan
    BatchSize,       \* batchSize (200 in the code)
    MaxWrites        \* number of Write calls explored

ASSUME /\ MetricsPrefix \in {"NONE", "PROBE", "PTYPE_PROBE"}
       /\ BufSize \in Nat \ {0}
       /\ BatchSize \in Nat \ {0}
       /\ MaxWrites \in Nat
       /\ HasRegex \in BOOLEAN
       /\ URLLen \in Nat

VARIABLES
    writeChan,   \* s.writeChan
    writes,      \* Write calls so far
    dropped,     \* Writes dropped because writeChan was full
    cache,       \* s.cache: cache key -> time series
    known,       \* s.knownMetrics
    failCnt,     \* s.failCnt
    wPhase,      \* writeBatch: "loop" | "describing" | "sending"
    pending,     \* cache keys the descriptor loop has not visited yet
    ts,          \* the flush's ts slice
    idx,         \* the batch loop's i
    \* ghosts
    window,      \* identities of series recorded since the last flush
    offered,     \* metric types recorded since the last flush, before the length check
    batches,     \* the batches sent (or attempted) in this flush
    created      \* metric types whose descriptor was created, in order

vars == <<writeChan, writes, dropped, cache, known, failCnt, wPhase, pending,
          ts, idx, window, offered, batches, created>>

-----------------------------------------------------------------------------
(***************************************************************************)
(* recordEventMetrics and its helpers.                                    *)
(***************************************************************************)

\* sdKind: "" for a kind that is neither GAUGE nor CUMULATIVE.
SdKind(kind) ==
    IF kind \in {"GAUGE", "CUMULATIVE"} THEN kind ELSE ""

UsePType == MetricsPrefix = "PTYPE_PROBE"
UseProbe == MetricsPrefix \in {"PTYPE_PROBE", "PROBE"}

\* em.Label(k): the label's value, "" if absent.
Label(em, k) ==
    IF \E i \in DOMAIN em.labels : em.labels[i][1] = k
    THEN em.labels[CHOOSE i \in DOMAIN em.labels : em.labels[i][1] = k][2]
    ELSE ""

\* processLabels: ptype and probe become the name prefix when configured;
\* every other label, in insertion order, forms the labels and cache key.
Extracted(p) == (p[1] = "ptype" /\ UsePType) \/ (p[1] = "probe" /\ UseProbe)

KeptLabels(em) == SelectSeq(em.labels, LAMBDA p : ~Extracted(p))

MetricPrefix(em) ==
    (IF UsePType /\ Label(em, "ptype") # "" THEN <<Label(em, "ptype")>> ELSE <<>>)
    \o (IF UseProbe /\ Label(em, "probe") # "" THEN <<Label(em, "probe")>> ELSE <<>>)

\* mLabels[k] = v on a label set held as a set of <<key, value>> pairs.
WithLabel(L, k, v) == {p \in L : p[1] # k} \cup {<<k, v>>}

\* The unit of metric k: a fixed table for the latency unit (a missing
\* entry reads as ""), "1" otherwise.
UnitNames == [Second |-> "s", Millisecond |-> "ms", Microsecond |-> "us",
              Nanosecond |-> "ns"]
Unit(em, k) ==
    IF k = "latency"
    THEN IF em.latencyUnit \in DOMAIN UnitNames THEN UnitNames[em.latencyUnit]
                                                 ELSE ""
    ELSE "1"

\* recordTimeSeries: the series and the cache key it is stored under.
TimeSeries(em, k, vtype, labels, value) ==
    [type  |-> MetricPrefix(em) \o <<k>>,
     labels |-> labels,
     kind  |-> SdKind(em.kind),
     vtype |-> vtype,
     unit  |-> Unit(em, k),
     value |-> value,
     key   |-> <<MetricPrefix(em) \o <<k>>, KeptLabels(em)>>]

\* The series one metric value turns into, in the order they are recorded.
SeriesOf(em, k, val) ==
    LET L == ToSet(KeptLabels(em)) IN
    CASE val.type = "num"  -> <<TimeSeries(em, k, "DOUBLE", L, val.v)>>
      [] val.type = "str"  -> <<TimeSeries(em, k, "DOUBLE", WithLabel(L, "val", val.s), 1)>>
      [] val.type = "map"  -> [i \in DOMAIN val.keys |->
                                 TimeSeries(em, k, "DOUBLE",
                                            WithLabel(L, val.mapName, val.keys[i][1]),
                                            val.keys[i][2])]
      [] val.type = "dist" -> <<TimeSeries(em, k, "DISTRIBUTION", L, val.d)>>
      [] OTHER             -> <<>>

\* len(name) of a metric name: its parts joined by '/'.
NameLen(name) == FoldLeft(LAMBDA acc, part : acc + PartLen[part], 0, name) + Len(name) - 1

\* Mutant: names of exactly 100 characters are rejected.
validMetricLengthStrict(name) == NameLen(name) + URLLen < 100

\* validMetricLength: the name and the URL prefix are at most 100 long.
validMetricLength(name) == NameLen(name) + URLLen <= 100

ignoreMetric(name) ==
    \/ HasRegex /\ name \notin RegexAllows
    \/ ~validMetricLength(name)

\* The metrics of em that pass opts.AllowMetric(k) and ignoreMetric(name).
RecordedSeries(em) ==
    IF SdKind(em.kind) = ""
    THEN <<>>
    ELSE FlattenSeq([i \in DOMAIN em.metrics |->
                       LET k == em.metrics[i][1] IN
                       IF k \in FilteredMetrics \/ ignoreMetric(MetricPrefix(em) \o <<k>>)
                       THEN <<>>
                       ELSE SeriesOf(em, k, em.metrics[i][2])])

\* s.cache[metricName+","+cacheKey] = ts
PutSeries(c, s) == [k \in DOMAIN c \cup {s.key} |-> IF k = s.key THEN s ELSE c[k]]

Identity(s) == <<s.type, s.labels>>

\* Ghost: the metric types em offers to the cache, every check of
\* recordEventMetrics applied except the length check.
Offered(em) ==
    IF SdKind(em.kind) = "" THEN {}
    ELSE {MetricPrefix(em) \o <<em.metrics[i][1]>> : i \in
            {j \in DOMAIN em.metrics :
                LET n == MetricPrefix(em) \o <<em.metrics[j][1]>> IN
                /\ em.metrics[j][1] \notin FilteredMetrics
                /\ ~(HasRegex /\ n \notin RegexAllows)}}

EmptyCache == [k \in {} |-> 0]

-----------------------------------------------------------------------------
Init ==
    /\ writeChan = <<>>
    /\ writes = 0
    /\ dropped = 0
    /\ cache = EmptyCache
    /\ known = {}
    /\ failCnt = 0
    /\ wPhase = "loop"
    /\ pending = {}
    /\ ts = <<>>
    /\ idx = 0
    /\ window = {}
    /\ offered = {}
    /\ batches = <<>>
    /\ created = <<>>

\* Mutant: the send on writeChan is made without the full-channel check.
WriteUnbounded(em) ==
    /\ writes < MaxWrites
    /\ writes' = writes + 1
    /\ writeChan' = Append(writeChan, em)
    /\ UNCHANGED <<dropped, cache, known, failCnt, wPhase, pending, ts, idx,
                   window, offered, batches, created>>

\* Write: a non-blocking send; when writeChan is full the data is dropped.
Write(em) ==
    /\ writes < MaxWrites
    /\ writes' = writes + 1
    /\ IF Len(writeChan) < BufSize
       THEN /\ writeChan' = Append(writeChan, em)
            /\ UNCHANGED dropped
       ELSE /\ dropped' = dropped + 1
            /\ UNCHANGED writeChan
    /\ UNCHANGED <<cache, known, failCnt, wPhase, pending, ts, idx, window,
                   offered, batches, created>>

\* case em := <-s.writeChan: s.recordEventMetrics(em)
Record ==
    /\ wPhase = "loop"
    /\ writeChan # <<>>
    /\ LET em == Head(writeChan) IN
       /\ cache' = FoldLeft(PutSeries, cache, RecordedSeries(em))
       /\ window' = window \cup {Identity(s) : s \in ToSet(RecordedSeries(em))}
       /\ offered' = offered \cup Offered(em)
    /\ writeChan' = Tail(writeChan)
    /\ UNCHANGED <<writes, dropped, known, failCnt, wPhase, pending, ts, idx,
                   batches, created>>

\* case <-batchTicker.C with a non-empty cache: start the descriptor loop.
Tick ==
    /\ wPhase = "loop"
    /\ DOMAIN cache # {}
    /\ wPhase' = "describing"
    /\ pending' = DOMAIN cache
    /\ ts' = <<>>
    /\ batches' = <<>>
    /\ UNCHANGED <<writeChan, writes, dropped, cache, known, failCnt, idx,
                   window, offered, created>>

\* Mutant: a failed descriptor creation does not skip the series.
DescribeNoSkip(k) ==
    /\ wPhase = "describing"
    /\ k \in pending
    /\ LET v == cache[k] IN
       IF v.type \in known \/ v.unit = ""
       THEN UNCHANGED <<known, created>>
       ELSE \/ /\ known' = known \cup {v.type}
               /\ created' = Append(created, v.type)
            \/ UNCHANGED <<known, created>>
    /\ ts' = Append(ts, cache[k])
    /\ pending' = pending \ {k}
    /\ UNCHANGED <<writeChan, writes, dropped, cache, failCnt, wPhase, idx,
                   window, offered, batches>>

\* Mutant: knownMetrics is not updated after a successful creation.
DescribeForgetKnown(k) ==
    /\ wPhase = "describing"
    /\ k \in pending
    /\ LET v == cache[k] IN
       IF v.type \in known \/ v.unit = ""
       THEN /\ ts' = Append(ts, v)
            /\ UNCHANGED created
       ELSE \/ /\ created' = Append(created, v.type)
               /\ ts' = Append(ts, v)
            \/ UNCHANGED <<created, ts>>
    /\ pending' = pending \ {k}
    /\ UNCHANGED <<writeChan, writes, dropped, cache, known, failCnt, wPhase,
                   idx, window, offered, batches>>

\* One iteration of `for _, v := range s.cache` (in Go's unspecified map
\* order): a series of an unknown type with a unit first needs a descriptor;
\* if createMetricDescriptor fails the series is skipped.
Describe(k) ==
    /\ wPhase = "describing"
    /\ k \in pending
    /\ LET v == cache[k] IN
       IF v.type \in known \/ v.unit = ""
       THEN /\ ts' = Append(ts, v)
            /\ UNCHANGED <<known, created>>
       ELSE \/ /\ known' = known \cup {v.type}
               /\ created' = Append(created, v.type)
               /\ ts' = Append(ts, v)
            \/ UNCHANGED <<known, created, ts>>
    /\ pending' = pending \ {k}
    /\ UNCHANGED <<writeChan, writes, dropped, cache, failCnt, wPhase, idx,
                   window, offered, batches>>

EndDescribe ==
    /\ wPhase = "describing"
    /\ pending = {}
    /\ wPhase' = "sending"
    /\ idx' = 0
    /\ UNCHANGED <<writeChan, writes, dropped, cache, known, failCnt, pending,
                   ts, window, offered, batches, created>>

MinOf(a, b) == IF a < b THEN a ELSE b

\* Mutant: the slice starts one element late.
SendBatchSkipFirst(ok) ==
    /\ wPhase = "sending"
    /\ idx < Len(ts)
    /\ batches' = Append(batches, SubSeq(ts, idx + 2, MinOf(Len(ts), idx + BatchSize)))
    /\ idx' = idx + BatchSize
    /\ failCnt' = IF ok THEN failCnt ELSE failCnt + 1
    /\ UNCHANGED <<writeChan, writes, dropped, cache, known, wPhase, pending,
                   ts, window, offered, created>>

\* One TimeSeries.Create call for ts[i:min(len(ts), i+batchSize)]; a
\* failure increments failCnt and is not retried.
SendBatch(ok) ==
    /\ wPhase = "sending"
    /\ idx < Len(ts)
    /\ batches' = Append(batches, SubSeq(ts, idx + 1, MinOf(Len(ts), idx + BatchSize)))
    /\ idx' = idx + BatchSize
    /\ failCnt' = IF ok THEN failCnt ELSE failCnt + 1
    /\ UNCHANGED <<writeChan, writes, dropped, cache, known, wPhase, pending,
                   ts, window, offered, created>>

\* Mutant: the delete loop after the batch loop is missing.
ClearCacheKeep ==
    /\ wPhase = "sending"
    /\ idx >= Len(ts)
    /\ wPhase' = "loop"
    /\ UNCHANGED <<writeChan, writes, dropped, cache, known, failCnt, pending,
                   ts, idx, window, offered, batches, created>>

\* After the batch loop the whole cache is deleted.
ClearCache ==
    /\ wPhase = "sending"
    /\ idx >= Len(ts)
    /\ cache' = EmptyCache
    /\ window' = {}
    /\ offered' = {}
    /\ wPhase' = "loop"
    /\ UNCHANGED <<writeChan, writes, dropped, known, failCnt, pending, ts,
                   idx, batches, created>>

-----------------------------------------------------------------------------
\* All Writes are done and the worker has nothing left to record or flush.
Idle ==
    /\ writes = MaxWrites
    /\ writeChan = <<>>
    /\ wPhase = "loop"
    /\ DOMAIN cache = {}
    /\ UNCHANGED vars

Worker ==
    \/ Record
    \/ Tick
    \/ \E k \in pending : Describe(k)
    \/ EndDescribe
    \/ \E ok \in BOOLEAN : SendBatch(ok)
    \/ ClearCache

Next ==
    \/ \E em \in EMs : Write(em)
    \/ Worker
    \/ Idle

\* The writeBatch goroutine is always scheduled and the ticker keeps firing.
Spec == Init /\ [][Next]_vars /\ WF_vars(Worker)

-----------------------------------------------------------------------------
(***************************************************************************)
(* Properties.                                                             *)
(***************************************************************************)
Series == UNION {ToSet(RecordedSeries(em)) : em \in EMs}

TypeOK ==
    /\ writeChan \in Seq(EMs) /\ Len(writeChan) <= BufSize
    /\ writes \in 0..MaxWrites
    /\ dropped \in 0..MaxWrites
    /\ \A k \in DOMAIN cache : cache[k] \in Series /\ cache[k].key = k
    /\ known \subseteq {s.type : s \in Series}
    /\ failCnt \in Nat
    /\ wPhase \in {"loop", "describing", "sending"}
    /\ pending \subseteq DOMAIN cache
    /\ ts \in Seq(Series)
    /\ idx \in Nat

(* The batch loop partitions the flush's ts: the batches sent so far are  *)
(* non-empty, hold at most BatchSize series each, and concatenate to the  *)
(* prefix of ts the loop has passed, so that at ClearCache every series   *)
(* of ts was in exactly one TimeSeries.Create call.                       *)
BatchesPartitionTs ==
    wPhase = "sending" =>
        /\ \A i \in DOMAIN batches : Len(batches[i]) \in 1..BatchSize
        /\ FlattenSeq(batches) = SubSeq(ts, 1, MinOf(idx, Len(ts)))

(* No series with a unit is sent before its metric descriptor exists:    *)
(* createMetricDescriptor must have succeeded for its type, in this or an *)
(* earlier flush, so that the unit is not lost to auto-creation.          *)
DescribedBeforeWrite ==
    \A i \in DOMAIN batches : \A j \in DOMAIN batches[i] :
        batches[i][j].unit # "" => batches[i][j].type \in known

(* The 100-character limit of the backend is applied exactly: a recorded *)
(* metric reaches the cache if and only if its full type, the monitoring  *)
(* URL followed by its '/'-joined name, is at most 100 characters long;  *)
(* the instance offers names of exactly 100 and of 101 characters.       *)
NameLimitExact ==
    {cache[k].type : k \in DOMAIN cache} = {n \in offered : URLLen + NameLen(n) <= 100}

(* A metric descriptor is created at most once per metric type during    *)
(* the surfacer's lifetime (spec scenario S6).                           *)
DescriptorCreatedOnce ==
    \A i, j \in DOMAIN created : created[i] = created[j] => i = j

(* The cache key identifies a time series: s.cache holds exactly one     *)
(* entry per identity (metric type and full label set) recorded since the *)
(* last flush (spec section 3: the latest value per identity).  Neither  *)
(* may a series be lost because another identity shares its key (map     *)
(* keys, stackdriver.go:457), nor may one identity occupy two keys, which *)
(* would send it twice in one TimeSeries.Create call (label order,        *)
(* stackdriver.go:353).                                                   *)
CacheOnePerIdentity ==
    /\ {Identity(cache[k]) : k \in DOMAIN cache} = window
    /\ Cardinality(DOMAIN cache) = Cardinality(window)

(* Every EventMetrics that Write put on writeChan is eventually recorded  *)
(* and flushed: writeBatch, the only reader of writeChan, keeps draining  *)
(* it between flushes, a flush always runs its descriptor loop, batch     *)
(* loop and cache deletion to the end (API failures included), and the   *)
(* cache is then empty until new data arrives.                            *)
WritesEventuallyFlushed ==
    (writeChan # <<>> \/ DOMAIN cache # {})
        ~> (writeChan = <<>> /\ DOMAIN cache = {} /\ wPhase = "loop")

(* Every cached series carries a unit; the latency unit maps to "s",     *)
(* "ms", "us" or "ns" and any other duration to "1" (spec section 4.4).  *)
UnitNeverEmpty ==
    \A k \in DOMAIN cache : cache[k].unit # ""

=============================================================================
