----------------------------- MODULE OnceCycle -----------------------------
(***************************************************************************)
(* What a ONCE-mode cycle of the external probe promises (spec section 8: *)
(* every target yields one processed result per cycle).  A cycle starts a *)
(* probe run for every endpoint; each run is counted in its name's total  *)
(* in one indivisible step, later finishes with success or failure (a     *)
(* success counted in one step too), and the cycle ends when every run    *)
(* has finished.  ExternalOnce implements this with load/store increments *)
(* and a WaitGroup.                                                        *)
(***************************************************************************)
EXTENDS Naturals

CONSTANTS Endpoints, NameOf, MaxCycles

Names == {NameOf[e] : e \in Endpoints}

VARIABLES
    phase,    \* "idle" | "waiting"
    cycle,    \* cycles started
    stage,    \* endpoint -> "none" | "todo" | "counted" | "done"
    results   \* name -> [total, success]

vars == <<phase, cycle, stage, results>>

Init ==
    /\ phase = "idle"
    /\ cycle = 0
    /\ stage = [e \in Endpoints |-> "none"]
    /\ results = [n \in Names |-> [total |-> 0, success |-> 0]]

Start ==
    /\ phase = "idle" /\ cycle < MaxCycles
    /\ phase' = "waiting" /\ cycle' = cycle + 1
    /\ stage' = [e \in Endpoints |-> "todo"]
    /\ UNCHANGED results

\* The run of e is counted in its name's total.
Count(e) ==
    /\ stage[e] = "todo"
    /\ stage' = [stage EXCEPT ![e] = "counted"]
    /\ results' = [results EXCEPT ![NameOf[e]].total = @ + 1]
    /\ UNCHANGED <<phase, cycle>>

\* The run of e finishes; a success is counted.
Finish(e) ==
    /\ stage[e] = "counted"
    /\ stage' = [stage EXCEPT ![e] = "done"]
    /\ \/ results' = [results EXCEPT ![NameOf[e]].success = @ + 1]
       \/ UNCHANGED results
    /\ UNCHANGED <<phase, cycle>>

End ==
    /\ phase = "waiting" /\ \A e \in Endpoints : stage[e] = "done"
    /\ phase' = "idle"
    /\ stage' = [e \in Endpoints |-> "none"]
    /\ UNCHANGED <<cycle, results>>

Next == Start \/ End \/ \E e \in Endpoints : Count(e) \/ Finish(e)

Spec == Init /\ [][Next]_vars
        /\ WF_vars(End)
        /\ \A e \in Endpoints : WF_vars(Count(e) \/ Finish(e))
====
