---------------------------- MODULE ExternalOnce ----------------------------
(***************************************************************************)
(* ONCE mode of the external probe (runOnceProbe, processProbeResult and  *)
(* updateTargets in src/probes/external/external.go).                     *)
(*                                                                         *)
(* Every cycle, runOnceProbe starts one goroutine per endpoint and waits   *)
(* for all of them (wg.Wait).  A goroutine increments its result's total, *)
(* runs the command, and processProbeResult increments success and sends  *)
(* the default metrics, a snapshot of the result, on dataChan.  Results   *)
(* are keyed by target.Name, so endpoints that share a name share one     *)
(* result.  The increments are plain ++ on shared memory: each is a load  *)
(* and a store, so that the outcomes of a data race between two          *)
(* goroutines are the interleavings of their loads and stores.           *)
(***************************************************************************)
EXTENDS Naturals, FiniteSets

CONSTANTS
    Endpoints,     \* the endpoints ListEndpoints returns
    NameOf,        \* endpoint -> target.Name
    MaxCycles,     \* probe cycles explored
    HasValidators  \* opts.Validators is configured

ASSUME HasValidators \in BOOLEAN /\ MaxCycles \in Nat \ {0}

Names == {NameOf[e] : e \in Endpoints}

VARIABLES
    phase,     \* driver: "idle" | "waiting" (in wg.Wait)
    cycle,     \* cycles started
    pc,        \* endpoint -> its goroutine's next step, "none" when not running
    tmp,       \* endpoint -> the value its pending ++ loaded
    ok,        \* endpoint -> success of its probe run
    results,   \* p.results: name -> [total, success]
    emitted,   \* snapshots sent on dataChan: [name, total, success]
    runs       \* ghost: goroutines started per name

vars == <<phase, cycle, pc, tmp, ok, results, emitted, runs>>

Init ==
    /\ phase = "idle"
    /\ cycle = 0
    /\ pc = [e \in Endpoints |-> "none"]
    /\ tmp = [e \in Endpoints |-> 0]
    /\ ok = [e \in Endpoints |-> FALSE]
    /\ results = [n \in Names |-> [total |-> 0, success |-> 0]]
    /\ emitted = {}
    /\ runs = [n \in Names |-> 0]

-----------------------------------------------------------------------------
(***************************************************************************)
(* Driver: runProbe -> updateTargets -> runOnceProbe.                     *)
(***************************************************************************)

\* A tick: updateTargets (results exist for every name from the first
\* cycle on) and one goroutine per endpoint (wg.Add(1); go func ...).
StartCycle ==
    /\ phase = "idle"
    /\ cycle < MaxCycles
    /\ cycle' = cycle + 1
    /\ phase' = "waiting"
    /\ pc' = [e \in Endpoints |-> "loadTotal"]
    /\ runs' = [n \in Names |-> runs[n] + Cardinality({e \in Endpoints : NameOf[e] = n})]
    /\ UNCHANGED <<tmp, ok, results, emitted>>

\* Mutant: runOnceProbe returns as soon as one goroutine has finished.
WaitOneDone ==
    /\ phase = "waiting"
    /\ \E e \in Endpoints : pc[e] = "done"
    /\ phase' = "idle"
    /\ pc' = [e \in Endpoints |-> IF pc[e] = "done" THEN "none" ELSE pc[e]]
    /\ UNCHANGED <<cycle, tmp, ok, results, emitted, runs>>

\* wg.Wait returns once every goroutine has called wg.Done.
WaitDone ==
    /\ phase = "waiting"
    /\ \A e \in Endpoints : pc[e] = "done"
    /\ phase' = "idle"
    /\ pc' = [e \in Endpoints |-> "none"]
    /\ UNCHANGED <<cycle, tmp, ok, results, emitted, runs>>

-----------------------------------------------------------------------------
(***************************************************************************)
(* The goroutine of endpoint e.                                           *)
(***************************************************************************)
Step(e, from, to) == pc[e] = from /\ pc' = [pc EXCEPT ![e] = to]

\* result.total++ : load ...
LoadTotal(e) ==
    /\ Step(e, "loadTotal", "storeTotal")
    /\ tmp' = [tmp EXCEPT ![e] = results[NameOf[e]].total]
    /\ UNCHANGED <<phase, cycle, ok, results, emitted, runs>>

\* ... and store.
StoreTotal(e) ==
    /\ Step(e, "storeTotal", "run")
    /\ results' = [results EXCEPT ![NameOf[e]].total = tmp[e] + 1]
    /\ UNCHANGED <<phase, cycle, tmp, ok, emitted, runs>>

\* runCommand returns: exit status 0 is success; a non-zero status, a
\* start error or the probe context's timeout is a failure.  Validators,
\* when configured, may then turn a success into a failure.
RunCommand(e) ==
    /\ Step(e, "run", "loadSuccess")
    /\ \E s \in BOOLEAN, valid \in (IF HasValidators THEN BOOLEAN ELSE {TRUE}) :
           ok' = [ok EXCEPT ![e] = s /\ valid]
    /\ UNCHANGED <<phase, cycle, tmp, results, emitted, runs>>

\* processProbeResult: if ps.success, result.success++ (load ...).
LoadSuccess(e) ==
    /\ pc[e] = "loadSuccess"
    /\ IF ok[e]
       THEN /\ pc' = [pc EXCEPT ![e] = "storeSuccess"]
            /\ tmp' = [tmp EXCEPT ![e] = results[NameOf[e]].success]
       ELSE /\ pc' = [pc EXCEPT ![e] = "emit"]
            /\ UNCHANGED tmp
    /\ UNCHANGED <<phase, cycle, ok, results, emitted, runs>>

\* ... and store.
StoreSuccess(e) ==
    /\ Step(e, "storeSuccess", "emit")
    /\ results' = [results EXCEPT ![NameOf[e]].success = tmp[e] + 1]
    /\ UNCHANGED <<phase, cycle, tmp, ok, emitted, runs>>

\* Mutant: wg.Done is called only on the success path, not deferred.
EmitDoneOnSuccess(e) ==
    /\ pc[e] = "emit"
    /\ pc' = [pc EXCEPT ![e] = IF ok[e] THEN "done" ELSE "emit"]
    /\ emitted' = emitted \cup {[name    |-> NameOf[e],
                                 total   |-> results[NameOf[e]].total,
                                 success |-> results[NameOf[e]].success]}
    /\ UNCHANGED <<phase, cycle, tmp, ok, results, runs>>

\* defaultMetrics snapshots the result and sends it on dataChan; the
\* deferred wg.Done follows.
Emit(e) ==
    /\ Step(e, "emit", "done")
    /\ emitted' = emitted \cup {[name    |-> NameOf[e],
                                 total   |-> results[NameOf[e]].total,
                                 success |-> results[NameOf[e]].success]}
    /\ UNCHANGED <<phase, cycle, tmp, ok, results, runs>>

Goroutine(e) ==
    \/ LoadTotal(e) \/ StoreTotal(e) \/ RunCommand(e)
    \/ LoadSuccess(e) \/ StoreSuccess(e) \/ Emit(e)

\* All cycles have run.
Finished ==
    /\ phase = "idle" /\ cycle = MaxCycles
    /\ UNCHANGED vars

Next ==
    \/ StartCycle
    \/ WaitDone
    \/ \E e \in Endpoints : Goroutine(e)
    \/ Finished

\* The Go scheduler runs every runnable goroutine; runCommand returns by
\* the probe context's deadline at the latest.
Spec == Init /\ [][Next]_vars
        /\ WF_vars(WaitDone)
        /\ \A e \in Endpoints : WF_vars(Goroutine(e))

-----------------------------------------------------------------------------
(* Between cycles, every name's total counts exactly the probe runs      *)
(* started for it, and its success count never exceeds that (spec        *)
(* section 8: every target yields one processed result per cycle).       *)
TotalsCountRuns ==
    phase = "idle" =>
        \A n \in Names : results[n].total = runs[n] /\ results[n].success <= runs[n]

(***************************************************************************)
(* Refinement: a goroutine's run is counted when its store of total++    *)
(* lands, and finished when processProbeResult has decided success (the *)
(* store of success++, or the load that found ps.success false).  Loads  *)
(* and the dataChan send are stuttering steps of OnceCycle.              *)
(***************************************************************************)
Stage(e) ==
    CASE pc[e] = "none"                                 -> "none"
      [] pc[e] \in {"loadTotal", "storeTotal"}          -> "todo"
      [] pc[e] \in {"run", "loadSuccess", "storeSuccess"} -> "counted"
      [] pc[e] \in {"emit", "done"}                     -> "done"

Abstract == INSTANCE OnceCycle WITH stage <- [e \in Endpoints |-> Stage(e)]

(* runOnceProbe implements a ONCE cycle: every run is counted exactly     *)
(* once in its name's total and its success at most once, in that order, *)
(* despite the unsynchronised ++ of concurrent goroutines, and wg.Wait   *)
(* returns, ending the cycle, once every goroutine has called wg.Done    *)
(* (on its failure path too).                                            *)
ImplementsOnceCycle == Abstract!Spec
====
