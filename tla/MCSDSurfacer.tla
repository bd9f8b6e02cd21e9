---------------------------- MODULE MCSDSurfacer ----------------------------
(***************************************************************************)
(* Model-checking instance of SDSurfacer.  The EventMetrics are the ones  *)
(* the external probe emits (defaultMetrics): success/total counters,     *)
(* latency, and the validation_failure map, for two targets.             *)
(***************************************************************************)
EXTENDS SDSurfacer

Num(n) == [type |-> "num", v |-> n]

ProbeLabels(dst) == <<<<"ptype", "external">>, <<"probe", "p1">>, <<"dst", dst>>>>

\* defaultMetrics of a cycle for target t1: counters and latency in ms,
\* with a payload counter whose name is one character longer than latency's.
EmT1 ==
    [kind |-> "CUMULATIVE", labels |-> ProbeLabels("t1"), latencyUnit |-> "Millisecond",
     metrics |-> <<<<"total", Num(2)>>, <<"latency", Num(5)>>, <<"timeouts", Num(0)>>>>]

\* defaultMetrics with validators: the validation_failure map has two keys.
EmT1Validated ==
    [kind |-> "CUMULATIVE", labels |-> ProbeLabels("t1"), latencyUnit |-> "Millisecond",
     metrics |-> <<<<"total", Num(3)>>,
                   <<"validation_failure",
                     [type |-> "map", mapName |-> "validator",
                      keys |-> <<<<"v1", 0>>, <<"v2", 1>>>>]>>>>]

\* A payload metric (GAUGE, string value) and latency for target t2.
EmT2 ==
    [kind |-> "GAUGE", labels |-> ProbeLabels("t2"), latencyUnit |-> "Millisecond",
     metrics |-> <<<<"latency", Num(7)>>, <<"version", [type |-> "str", s |-> "v1.2"]>>>>]

\* A latency metric whose unit is 10ms, not in the unit table.
EmTenMillis ==
    [kind |-> "CUMULATIVE", labels |-> ProbeLabels("t2"), latencyUnit |-> "TenMillis",
     metrics |-> <<<<"latency", Num(4)>>>>]

\* Lengths of the name parts.
MCPartLen == [p \in {"external", "p1", "total", "latency", "timeouts",
                   "validation_failure", "version"} |->
                 CASE p = "external" -> 8 [] p = "p1" -> 2 [] p = "total" -> 5
                   [] p = "latency" -> 7 [] p = "version" -> 7 [] p = "timeouts" -> 8
                   [] p = "validation_failure" -> 18]

\* The same target's counters written twice, with an additional label
\* attached in a different order relative to dst.
EmZoneFirst ==
    [kind |-> "CUMULATIVE", latencyUnit |-> "Millisecond",
     labels |-> <<<<"ptype", "external">>, <<"probe", "p1">>, <<"zone", "z1">>, <<"dst", "t1">>>>,
     metrics |-> <<<<"total", Num(2)>>>>]
EmDstFirst ==
    [EmZoneFirst EXCEPT !.labels = <<<<"ptype", "external">>, <<"probe", "p1">>,
                                    <<"dst", "t1">>, <<"zone", "z1">>>>,
                        !.metrics = <<<<"total", Num(3)>>>>]

MCEMs == {EmT1, EmT1Validated, EmT2}
MCEMsMapOnly == {EmT1Validated}
MCEMsOddUnit == {EmTenMillis}
MCEMsLabelOrder == {EmZoneFirst, EmDstFirst}
MCEMsCacheKey == MCEMsMapOnly \cup MCEMsLabelOrder
=============================================================================
