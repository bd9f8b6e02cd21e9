--------------------------- MODULE ProbeRequests ---------------------------
(***************************************************************************)
(* What a SERVER-mode probe cycle promises of its requests (spec section  *)
(* 5 and invariant 2).  A cycle issues one request per target, each      *)
(* counted in its target's total.  The server may answer a request, with *)
(* or without an error, and an answer may be lost before it is read.     *)
(* Each request is reported on dataChan exactly once, in its own cycle:  *)
(* as a success (or, with validators, a validation failure) only on an   *)
(* error-free answer to that very request, as a failure on an error      *)
(* answer, or as a failure when the cycle ends with it unreported.  A    *)
(* cycle may end at any time; targets not yet issued are then dropped.   *)
(* ExternalServer implements this with request ids, a reply channel fed  *)
(* by reader goroutines and a leftover loop.                              *)
(***************************************************************************)
EXTENDS Naturals

CONSTANTS Targets, HasValidators

VARIABLES
    active,   \* a cycle is running
    toIssue,  \* targets of this cycle not yet issued
    status,   \* target -> "idle" | "open" | "ok" | "err"
    results,  \* target -> [total, success, vfail]
    emitted   \* target -> results reported

vars == <<active, toIssue, status, results, emitted>>

Init ==
    /\ active = FALSE
    /\ toIssue = {}
    /\ status = [t \in Targets |-> "idle"]
    /\ results = [t \in Targets |-> [total |-> 0, success |-> 0, vfail |-> 0]]
    /\ emitted = [t \in Targets |-> 0]

Begin(T) ==
    /\ ~active
    /\ active' = TRUE
    /\ toIssue' = T
    /\ UNCHANGED <<status, results, emitted>>

\* The request of target t is issued and counted.
Issue(t) ==
    /\ active /\ t \in toIssue /\ status[t] = "idle"
    /\ toIssue' = toIssue \ {t}
    /\ status' = [status EXCEPT ![t] = "open"]
    /\ results' = [results EXCEPT ![t].total = @ + 1]
    /\ UNCHANGED <<active, emitted>>

\* The server answers the open request of t.
Answer(t, ok) ==
    /\ status[t] = "open"
    /\ status' = [status EXCEPT ![t] = IF ok THEN "ok" ELSE "err"]
    /\ UNCHANGED <<active, toIssue, results, emitted>>

\* The answers to the requests of L are lost unread.
Lose(L) ==
    /\ L # {}
    /\ \A t \in L : status[t] \in {"ok", "err"}
    /\ status' = [t \in Targets |-> IF t \in L THEN "open" ELSE status[t]]
    /\ UNCHANGED <<active, toIssue, results, emitted>>

\* The answer to t's request is reported.
Report(t) ==
    /\ active /\ status[t] \in {"ok", "err"}
    /\ status' = [status EXCEPT ![t] = "idle"]
    /\ emitted' = [emitted EXCEPT ![t] = @ + 1]
    /\ \/ status[t] = "err" /\ UNCHANGED results
       \/ status[t] = "ok" /\ results' = [results EXCEPT ![t].success = @ + 1]
       \/ status[t] = "ok" /\ HasValidators
          /\ results' = [results EXCEPT ![t].vfail = @ + 1]
    /\ UNCHANGED <<active, toIssue>>

\* The cycle ends: every unreported request is reported as a failure.
End ==
    /\ active
    /\ active' = FALSE
    /\ toIssue' = {}
    /\ status' = [t \in Targets |-> "idle"]
    /\ emitted' = [t \in Targets |-> emitted[t] + IF status[t] = "idle" THEN 0 ELSE 1]
    /\ UNCHANGED results

Next ==
    \/ \E T \in SUBSET Targets : Begin(T)
    \/ \E t \in Targets : Issue(t) \/ Report(t) \/ \E ok \in BOOLEAN : Answer(t, ok)
    \/ \E L \in SUBSET Targets : Lose(L)
    \/ End

Spec == Init /\ [][Next]_vars
====
