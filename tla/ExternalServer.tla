--------------------------- MODULE ExternalServer ---------------------------
(***************************************************************************)
(* SERVER mode of the external probe (src/probes/external/external.go).   *)
(*                                                                         *)
(* One long-lived subprocess serves every probe cycle.  The goroutines    *)
(* and the subprocess are separate actors:                                *)
(*   - the driver: Start -> runProbe -> runServerProbe (send loop,        *)
(*     close(doneChan), wg.Wait, leftover loop);                          *)
(*   - the receiver goroutine of runServerProbe;                          *)
(*   - one readProbeReplies goroutine per process incarnation, holding at *)
(*     most one reply while blocked on the unbuffered replyChan;         *)
(*   - one monitor goroutine per incarnation (cmd.Wait, close(done),      *)
(*     cmdRunning = false);                                               *)
(*   - the subprocess, reading requests from a bounded stdin pipe and     *)
(*     writing replies, in any order, to a bounded stdout pipe;           *)
(*   - the cycle's context timer (probeCtx of runProbe).                  *)
(* Payloads, latencies, label substitution and logging are abstracted:   *)
(* a reply is its request id, whether error_message is empty, and two    *)
(* ghost fields (the target and cycle of the request it answers).        *)
(***************************************************************************)
EXTENDS Naturals, Sequences, FiniteSets, TLC

CONSTANTS
    Targets,       \* endpoint names the targets collaborator may list
    MaxCycles,     \* number of probe cycles explored
    MaxStarts,     \* number of subprocess incarnations explored
    StdinCap,      \* requests the stdin pipe buffers before a write blocks
    StdoutCap,     \* replies the stdout pipe buffers before a write blocks
    ProcCap,       \* requests the subprocess holds in flight (1 = sequential server)
    HasValidators, \* whether opts.Validators is configured
    NoReply        \* model value: a reader goroutine holding no reply

ASSUME /\ Targets # {}
       /\ MaxCycles \in Nat \ {0}
       /\ MaxStarts \in Nat \ {0}
       /\ {StdinCap, StdoutCap, ProcCap} \subseteq Nat \ {0}
       /\ HasValidators \in BOOLEAN

Gens == 1..MaxStarts

VARIABLES
    \* driver (Probe fields and runServerProbe locals)
    phase,        \* "idle" | "starting" | "spawned" | "sending" | "receiving"
    cycle,        \* number of cycles run so far (ghost: the current cycle)
    toSend,       \* targets of this cycle not yet sent
    ctxDone,      \* probeCtx of this cycle has expired
    rcvDone,      \* the receiver goroutine of this cycle has returned
    requestID,    \* p.requestID
    requests,     \* runServerProbe's requests map: request id -> target
    results,      \* p.results: target -> [total, success, vfail]
    emitted,      \* default EventMetrics sent on dataChan per target
    \* subprocess management
    cmdRunning,   \* p.cmdRunning
    gen,          \* incarnation number of the latest started process (0: none)
    proc,         \* "none" | "running" | "exited": the latest process
    stdin,        \* requests written to the latest process's stdin pipe
    inflight,     \* requests the latest process has read and not answered
    stdout,       \* g -> replies in incarnation g's stdout pipe
    stdoutClosed, \* g -> cmd.Wait has closed incarnation g's stdout pipe
    reader,       \* g -> "none" | "reading" | "holding" | "exited"
    held,         \* g -> reply incarnation g's reader is blocked sending
    done          \* g -> incarnation g's doneChan is closed

driverVars == <<phase, cycle, toSend, ctxDone, rcvDone, requestID, requests,
                results, emitted>>
procVars   == <<cmdRunning, gen, proc, stdin, inflight, stdout, stdoutClosed,
                reader, held, done>>
vars == <<driverVars, procVars>>

Request == [id : Nat, tgt : Targets, cyc : Nat]
Reply   == [id : Nat, ok : BOOLEAN, tgt : Targets, cyc : Nat]
Result  == [total : Nat, success : Nat, vfail : Nat]

\* Ids of outstanding requests for target t in the current cycle.
Outstanding(t) == {id \in DOMAIN requests : requests[id] = t}

\* The requests map without entry id.
RemoveRequest(id) == [i \in DOMAIN requests \ {id} |-> requests[i]]

NoRequests == [i \in {} |-> CHOOSE t \in Targets : TRUE]

-----------------------------------------------------------------------------
Init ==
    /\ phase = "idle"
    /\ cycle = 0
    /\ toSend = {}
    /\ ctxDone = FALSE
    /\ rcvDone = FALSE
    /\ requestID = 0
    /\ requests = NoRequests
    /\ results = [t \in Targets |-> [total |-> 0, success |-> 0, vfail |-> 0]]
    /\ emitted = [t \in Targets |-> 0]
    /\ cmdRunning = FALSE
    /\ gen = 0
    /\ proc = "none"
    /\ stdin = <<>>
    /\ inflight = {}
    /\ stdout = [g \in Gens |-> <<>>]
    /\ stdoutClosed = [g \in Gens |-> FALSE]
    /\ reader = [g \in Gens |-> "none"]
    /\ held = [g \in Gens |-> NoReply]
    /\ done = [g \in Gens |-> FALSE]

-----------------------------------------------------------------------------
(***************************************************************************)
(* processProbeResult: validators may turn a success into a failure and   *)
(* count it in validation_failure; a success increments result.success;   *)
(* the default metrics are sent on dataChan.                              *)
(***************************************************************************)
ProcessProbeResult(t, ok) ==
    \E valid \in (IF ok /\ HasValidators THEN BOOLEAN ELSE {TRUE}) :
        /\ results' = [results EXCEPT
                          ![t].success = @ + (IF ok /\ valid THEN 1 ELSE 0),
                          ![t].vfail   = @ + (IF ok /\ ~valid THEN 1 ELSE 0)]
        /\ emitted' = [emitted EXCEPT ![t] = @ + 1]

(***************************************************************************)
(* Driver.                                                                 *)
(***************************************************************************)

\* Mutant: requestID kept per cycle (reset to 0 on every runProbe).
StartCycleResetRequestID(T) ==
    /\ phase = "idle"
    /\ cycle < MaxCycles
    /\ cycle' = cycle + 1
    /\ toSend' = T
    /\ ctxDone' = FALSE
    /\ rcvDone' = FALSE
    /\ phase' = IF cmdRunning THEN "sending" ELSE "starting"
    /\ requestID' = 0
    /\ UNCHANGED <<requests, results, emitted, procVars>>

\* A ticker tick: runProbe creates probeCtx, updateTargets lists the
\* targets T, and startCmdIfNotRunning returns at once if cmdRunning.
StartCycle(T) ==
    /\ phase = "idle"
    /\ cycle < MaxCycles
    /\ cycle' = cycle + 1
    /\ toSend' = T
    /\ ctxDone' = FALSE
    /\ rcvDone' = FALSE
    /\ phase' = IF cmdRunning THEN "sending" ELSE "starting"
    /\ UNCHANGED <<requestID, requests, results, emitted, procVars>>

\* startCmdIfNotRunning when cmdRunning is false: cmd.Start either spawns a
\* new incarnation with its reader and monitor goroutines, or fails, in which
\* case runServerProbe logs and returns without sending anything.
StartCmd ==
    /\ phase = "starting"
    /\ \/ /\ gen < MaxStarts
          /\ gen' = gen + 1
          /\ proc' = "running"
          /\ stdin' = <<>>
          /\ inflight' = {}
          /\ reader' = [reader EXCEPT ![gen + 1] = "reading"]
          /\ phase' = "spawned"
       \/ /\ phase' = "idle"
          /\ UNCHANGED <<gen, proc, stdin, inflight, reader>>
    /\ UNCHANGED <<cycle, toSend, ctxDone, rcvDone, requestID, requests,
                   results, emitted, cmdRunning, stdout, stdoutClosed, held,
                   done>>

\* The last statement of startCmdIfNotRunning, after the monitor goroutine
\* has been started: p.cmdRunning = true.
SetRunning ==
    /\ phase = "spawned"
    /\ cmdRunning' = TRUE
    /\ phase' = "sending"
    /\ UNCHANGED <<cycle, toSend, ctxDone, rcvDone, requestID, requests,
                   results, emitted, gen, proc, stdin, inflight, stdout,
                   stdoutClosed, reader, held, done>>

\* Mutant: the write never blocks, as if the pipe were unbounded.
WriteRequestUnbounded(req) ==
    \/ /\ proc = "running"
       /\ stdin' = Append(stdin, req)
    \/ /\ proc = "exited"
       /\ UNCHANGED stdin

\* sendRequest: serverutils.WriteMessage to p.cmdStdin.  The write blocks
\* while the pipe is full; to a process that has exited it fails with EPIPE.
WriteRequest(req) ==
    \/ /\ proc = "running"
       /\ Len(stdin) < StdinCap
       /\ stdin' = Append(stdin, req)
    \/ /\ proc = "exited"
       /\ UNCHANGED stdin

\* One iteration of the send loop: requestID++, total++, record the request,
\* write it to stdin (the write's error is ignored).
Send(t) ==
    /\ phase = "sending"
    /\ t \in toSend
    /\ LET id  == requestID + 1
           req == [id |-> id, tgt |-> t, cyc |-> cycle]
       IN /\ WriteRequest(req)
          /\ requestID' = id
          /\ requests' = requests @@ (id :> t)
    /\ results' = [results EXCEPT ![t].total = @ + 1]
    /\ toSend' = toSend \ {t}
    /\ UNCHANGED <<phase, cycle, ctxDone, rcvDone, emitted, cmdRunning, gen,
                   proc, inflight, stdout, stdoutClosed, reader, held, done>>

\* close(doneChan) after the last send; the driver then waits in wg.Wait.
CloseSends ==
    /\ phase = "sending"
    /\ toSend = {}
    /\ phase' = "receiving"
    /\ UNCHANGED <<cycle, toSend, ctxDone, rcvDone, requestID, requests,
                   results, emitted, procVars>>

\* Mutant: the leftover loop is missing; timed-out requests are dropped.
FinishCycleNoLeftovers ==
    /\ phase = "receiving"
    /\ rcvDone
    /\ requests' = NoRequests
    /\ phase' = "idle"
    /\ UNCHANGED <<cycle, toSend, ctxDone, rcvDone, requestID, results,
                   emitted, procVars>>

\* After wg.Wait: every request still in the map is processed as a failure.
FinishCycle ==
    /\ phase = "receiving"
    /\ rcvDone
    /\ emitted' = [t \in Targets |-> emitted[t] + Cardinality(Outstanding(t))]
    /\ requests' = NoRequests
    /\ phase' = "idle"
    /\ UNCHANGED <<cycle, toSend, ctxDone, rcvDone, requestID, results,
                   procVars>>

\* probeCtx's deadline passes.
CtxExpire ==
    /\ phase # "idle"
    /\ ~ctxDone
    /\ ctxDone' = TRUE
    /\ UNCHANGED <<phase, cycle, toSend, rcvDone, requestID, requests, results,
                   emitted, procVars>>

(***************************************************************************)
(* Receiver goroutine.  It blocks on <-doneChan until the send loop has   *)
(* closed it, so it only runs in phase "receiving".                        *)
(***************************************************************************)
RecvEmpty ==
    /\ phase = "receiving"
    /\ ~rcvDone
    /\ DOMAIN requests = {}
    /\ rcvDone' = TRUE
    /\ UNCHANGED <<phase, cycle, toSend, ctxDone, requestID, requests, results,
                   emitted, procVars>>

\* Mutant: the receiver's select has no <-ctx.Done() case.
RecvTimeoutMissing == FALSE

\* case <-ctx.Done(): the receiver returns with requests outstanding.
RecvTimeout ==
    /\ phase = "receiving"
    /\ ~rcvDone
    /\ DOMAIN requests # {}
    /\ ctxDone
    /\ rcvDone' = TRUE
    /\ UNCHANGED <<phase, cycle, toSend, ctxDone, requestID, requests, results,
                   emitted, procVars>>

\* rep := <-p.replyChan, taken from the reader of incarnation g.  A reply
\* whose id is not outstanding is logged and ignored.
RecvReply(g) ==
    /\ phase = "receiving"
    /\ ~rcvDone
    /\ DOMAIN requests # {}
    /\ held[g] # NoReply
    /\ held' = [held EXCEPT ![g] = NoReply]
    /\ reader' = [reader EXCEPT ![g] = "reading"]
    /\ LET rep == held[g] IN
       IF rep.id \in DOMAIN requests
       THEN /\ requests' = RemoveRequest(rep.id)
            /\ ProcessProbeResult(requests[rep.id], rep.ok)
       ELSE UNCHANGED <<requests, results, emitted>>
    /\ UNCHANGED <<phase, cycle, toSend, ctxDone, rcvDone, requestID,
                   cmdRunning, gen, proc, stdin, inflight, stdout,
                   stdoutClosed, done>>

-----------------------------------------------------------------------------
(***************************************************************************)
(* Reader and monitor goroutines.                                         *)
(***************************************************************************)

\* serverutils.ReadProbeReply returns the next reply; the goroutine then
\* blocks on p.replyChan <- rep.
ReaderRead(g) ==
    /\ reader[g] = "reading"
    /\ stdout[g] # <<>>
    /\ held' = [held EXCEPT ![g] = Head(stdout[g])]
    /\ stdout' = [stdout EXCEPT ![g] = Tail(@)]
    /\ reader' = [reader EXCEPT ![g] = "holding"]
    /\ UNCHANGED <<driverVars, cmdRunning, gen, proc, stdin, inflight,
                   stdoutClosed, done>>

\* The pipe is closed (or done is closed): readProbeReplies returns.
ReaderExit(g) ==
    /\ reader[g] = "reading"
    /\ stdoutClosed[g]
    /\ reader' = [reader EXCEPT ![g] = "exited"]
    /\ UNCHANGED <<driverVars, cmdRunning, gen, proc, stdin, inflight, stdout,
                   stdoutClosed, held, done>>

\* cmd.Wait returns after the process exits and closes the stdout pipe
\* (unread replies are lost); the goroutine closes doneChan and sets
\* p.cmdRunning = false.
Monitor ==
    /\ proc = "exited"
    /\ ~done[gen]
    /\ done' = [done EXCEPT ![gen] = TRUE]
    /\ stdoutClosed' = [stdoutClosed EXCEPT ![gen] = TRUE]
    /\ stdout' = [stdout EXCEPT ![gen] = <<>>]
    /\ cmdRunning' = FALSE
    /\ UNCHANGED <<driverVars, gen, proc, stdin, inflight, reader, held>>

-----------------------------------------------------------------------------
(***************************************************************************)
(* The subprocess (environment): reads requests, answers them in any      *)
(* order with or without an error message, and may exit at any time.    *)
(***************************************************************************)
ProcRead ==
    /\ proc = "running"
    /\ stdin # <<>>
    /\ Cardinality(inflight) < ProcCap
    /\ inflight' = inflight \cup {Head(stdin)}
    /\ stdin' = Tail(stdin)
    /\ UNCHANGED <<driverVars, cmdRunning, gen, proc, stdout, stdoutClosed,
                   reader, held, done>>

ProcReply(r, ok) ==
    /\ proc = "running"
    /\ r \in inflight
    /\ Len(stdout[gen]) < StdoutCap
    /\ stdout' = [stdout EXCEPT ![gen] =
                    Append(@, [id |-> r.id, ok |-> ok, tgt |-> r.tgt, cyc |-> r.cyc])]
    /\ inflight' = inflight \ {r}
    /\ UNCHANGED <<driverVars, cmdRunning, gen, proc, stdin, stdoutClosed,
                   reader, held, done>>

\* Bounded so that every exit can be followed by a restart.
ProcExit ==
    /\ proc = "running"
    /\ gen < MaxStarts
    /\ proc' = "exited"
    /\ stdin' = <<>>
    /\ inflight' = {}
    /\ UNCHANGED <<driverVars, cmdRunning, gen, stdout, stdoutClosed, reader,
                   held, done>>

-----------------------------------------------------------------------------
\* The explored cycles are over: the driver idles.
Finished ==
    /\ phase = "idle"
    /\ cycle = MaxCycles
    /\ UNCHANGED vars

Driver ==
    \/ \E T \in SUBSET Targets \ {{}} : StartCycle(T)
    \/ StartCmd
    \/ SetRunning
    \/ \E t \in Targets : Send(t)
    \/ CloseSends
    \/ FinishCycle

Receiver ==
    \/ RecvEmpty
    \/ RecvTimeout
    \/ \E g \in Gens : RecvReply(g)

Goroutines ==
    \/ \E g \in Gens : ReaderRead(g) \/ ReaderExit(g)
    \/ Monitor

Process ==
    \/ ProcRead
    \/ \E r \in inflight, ok \in BOOLEAN : ProcReply(r, ok)
    \/ ProcExit

Next ==
    \/ Driver
    \/ Receiver
    \/ Goroutines
    \/ CtxExpire
    \/ Process
    \/ Finished

(***************************************************************************)
(* Every goroutine is scheduled by the Go runtime and the context timer  *)
(* fires, so their steps are weakly fair.  The subprocess is a server    *)
(* that keeps reading and answering (weakly fair), but nothing obliges it *)
(* to exit.                                                               *)
(***************************************************************************)
Fairness ==
    /\ WF_vars(Driver)
    /\ WF_vars(Receiver)
    /\ \A g \in Gens : WF_vars(ReaderRead(g)) /\ WF_vars(ReaderExit(g))
    /\ WF_vars(Monitor)
    /\ WF_vars(CtxExpire)
    /\ WF_vars(ProcRead)
    /\ WF_vars(\E r \in inflight, ok \in BOOLEAN : ProcReply(r, ok))

Spec == Init /\ [][Next]_vars /\ Fairness

-----------------------------------------------------------------------------
(***************************************************************************)
(* Properties.                                                             *)
(***************************************************************************)
TypeOK ==
    /\ phase \in {"idle", "starting", "spawned", "sending", "receiving"}
    /\ cycle \in 0..MaxCycles
    /\ toSend \subseteq Targets
    /\ ctxDone \in BOOLEAN
    /\ rcvDone \in BOOLEAN
    /\ requestID \in Nat
    /\ DOMAIN requests \subseteq 1..requestID
    /\ \A id \in DOMAIN requests : requests[id] \in Targets
    /\ results \in [Targets -> Result]
    /\ emitted \in [Targets -> Nat]
    /\ cmdRunning \in BOOLEAN
    /\ gen \in 0..MaxStarts
    /\ proc \in {"none", "running", "exited"}
    /\ stdin \in Seq(Request) /\ Len(stdin) <= StdinCap
    /\ inflight \subseteq Request /\ Cardinality(inflight) <= ProcCap
    /\ \A g \in Gens : stdout[g] \in Seq(Reply) /\ Len(stdout[g]) <= StdoutCap
    /\ stdoutClosed \in [Gens -> BOOLEAN]
    /\ reader \in [Gens -> {"none", "reading", "holding", "exited"}]
    /\ \A g \in Gens : held[g] \in Reply \cup {NoReply}
    /\ done \in [Gens -> BOOLEAN]

(* Every request counted in result.total (runServerProbe's total++) is,   *)
(* at every moment, either still outstanding in the requests map or has  *)
(* been reported on dataChan exactly once: by the receiver on its reply, *)
(* or by the leftover loop as a timeout failure.  At the end of a cycle   *)
(* this is spec invariant 2: |targets| = successes + failures reported.  *)
ResultsAccounted ==
    \A t \in Targets :
        results[t].total = emitted[t] + Cardinality(Outstanding(t))

(***************************************************************************)
(* Refinement of ProbeRequests.  The status of target t's request is read *)
(* off the requests map and the replies that are still deliverable (in a *)
(* stdout pipe or held by a reader goroutine); only a reply to the       *)
(* current cycle's request (by its ghost fields, not by its id) counts as *)
(* that request's answer.                                                  *)
(***************************************************************************)
LiveReplies ==
    ({held[g] : g \in Gens} \ {NoReply})
        \cup UNION {{stdout[g][i] : i \in DOMAIN stdout[g]} : g \in Gens}

RequestStatus(t) ==
    LET answers == {r \in LiveReplies : r.tgt = t /\ r.cyc = cycle} IN
    CASE Outstanding(t) = {}     -> "idle"
      [] answers = {}            -> "open"
      [] \E r \in answers : r.ok -> "ok"
      [] OTHER                   -> "err"

Abstract == INSTANCE ProbeRequests WITH
    active  <- phase # "idle",
    toIssue <- IF phase = "idle" THEN {} ELSE toSend,
    status  <- [t \in Targets |-> RequestStatus(t)]

(* runServerProbe implements ProbeRequests: every request is reported    *)
(* exactly once in its own cycle, as a success or validation failure only *)
(* on an error-free reply to that very request.  A late reply to a       *)
(* request that timed out in an earlier cycle, still held by a reader     *)
(* goroutine (possibly of an exited process), must never be credited to   *)
(* a later request: requestID is never reset between cycles.              *)
ImplementsProbeRequests == Abstract!Spec

(* startCmdIfNotRunning trusts cmdRunning: once the monitor goroutine has *)
(* seen the latest process exit, cmdRunning must be false so that the    *)
(* next cycle restarts the process.                                       *)
RunningFlagTracksProcess ==
    cmdRunning => (gen > 0 /\ ~done[gen])

(* Once the send loop has closed doneChan, the cycle ends: the receiver  *)
(* returns when no request is outstanding or when probeCtx expires, even  *)
(* if the subprocess exited and its replies were lost with the pipe.     *)
ReceiveCompletes ==
    (phase = "receiving") ~> (phase = "idle")

(* Every probe cycle ends: the driver returns to wait for the next tick, *)
(* whatever the subprocess does with the requests.                        *)
CycleCompletes ==
    (phase # "idle") ~> (phase = "idle")

=============================================================================
