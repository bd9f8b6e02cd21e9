---------------------------- MODULE AlertHandler ----------------------------
(***************************************************************************)
(* The probe alert handler (spec section 4.3; AlertHandler.Record, whose  *)
(* behaviour src/probes/alerting/alerting_test.go pins down; the handler  *)
(* itself is not under src/).                                              *)
(*                                                                         *)
(* Record is called serially with each new sample of a target's           *)
(* cumulative total/success counters.  It keeps the previous sample and  *)
(* a window of the latest probe attempts, each a failure or a success:   *)
(* a sample whose deltas are (dt, ds) adds dt attempts, the first ds of  *)
(* them successes (so that alerting_test.go:131-136 alerts after three    *)
(* samples of two attempts with condition {3, 5}).  With a full window,  *)
(* enough failures raise an alert (a new episode: failing_since is the    *)
(* sample's time) or repeat its notification once repeat_interval has    *)
(* passed since the last one (an interval of 0 repeats on every sample,  *)
(* alerting_test.go:188-192); too few clear it without a notification.   *)
(* A negative delta (counter reset) empties the window.  Notifications go *)
(* on a bounded channel with a non-blocking send.                         *)
(***************************************************************************)
EXTENDS Naturals, Sequences, FiniteSets

CONSTANTS
    Targets,     \* target keys (ep.Key())
    Conditions,  \* condition configs {failures, total} explored
    Intervals,   \* notify repeat_interval values explored (seconds)
    MaxTotal,    \* bound on the cumulative counters
    MaxTime,     \* bound on the clock (seconds)
    NotifyCap,   \* capacity of notifyCh
    None         \* model value: no previous sample / not failing

ASSUME \A c \in Conditions : c.failures \in 1..MaxTotal /\ c.total \in Nat
                             /\ (c.total = 0 \/ c.failures <= c.total)

\* Samples: cumulative counters with success <= total.
Counters == {c \in [total : 0..MaxTotal, success : 0..MaxTotal] : c.success <= c.total}

VARIABLES
    cond,      \* ah.condition (fixed at NewAlertHandler)
    repeat,    \* ah.notifyConfig.RepeatIntervalSec (fixed)
    now,       \* wall clock, in seconds
    targets,   \* ah.targets: key -> targetState
    notifyCh,  \* ah.notifyCh: AlertInfos not yet consumed
    sent       \* ghost: every AlertInfo sent, with its episode and time

vars == <<cond, repeat, now, targets, notifyCh, sent>>

\* The window size: condition.total, or condition.failures when total is 0.
WindowSize(c) == IF c.total = 0 THEN c.failures ELSE c.total

\* The last n entries of s.
LastEntries(s, n) == IF Len(s) <= n THEN s ELSE SubSeq(s, Len(s) - n + 1, Len(s))

Failures(w) == Len(SelectSeq(w, LAMBDA f : f))

\* The attempts a sample adds: dt of them, all but the first ds failures.
Attempts(dt, ds) == [i \in 1..dt |-> i > ds]

NoState == [prev |-> None, ts |-> None, window |-> <<>>, alerted |-> FALSE,
            failingSince |-> None, lastNotified |-> None, episode |-> 0]

Init ==
    /\ cond \in Conditions
    /\ repeat \in Intervals
    /\ now = 0
    /\ targets = [t \in Targets |-> NoState]
    /\ notifyCh = <<>>
    /\ sent = {}

\* Time passes.
Tick ==
    /\ now < MaxTime
    /\ now' = now + 1
    /\ UNCHANGED <<cond, repeat, targets, notifyCh, sent>>

\* Mutant: the AlertInfo is built afresh, with the sample's time as
\* failing_since.
NotifyFreshSince(t, st) ==
    LET info == [target |-> t, since |-> now, episode |-> st.episode, time |-> now]
    IN /\ notifyCh' = IF Len(notifyCh) < NotifyCap THEN Append(notifyCh, info) ELSE notifyCh
       /\ sent' = sent \cup {info}

\* The AlertInfo of target t's current episode, sent without blocking:
\* dropped when notifyCh is full.
Notify(t, st) ==
    LET info == [target |-> t, since |-> st.failingSince,
                 episode |-> st.episode, time |-> now]
    IN /\ notifyCh' = IF Len(notifyCh) < NotifyCap THEN Append(notifyCh, info) ELSE notifyCh
       /\ sent' = sent \cup {info}

\* Mutant: a repeat does not update last_notified.
RepeatedKeepLastNotified(st) == st

\* A repeat notification updates last_notified.
Repeated(st) == [st EXCEPT !.lastNotified = now]

\* Mutant: clearing the alert leaves failing_since set.
ClearedKeepSince(st) == [st EXCEPT !.alerted = FALSE]

\* Clearing the alert clears failing_since (and the condition id).
Cleared(st) == [st EXCEPT !.alerted = FALSE, !.failingSince = None]

\* The alerting transitions of a full window w at sample time now.
Evaluate(t, st) ==
    LET firing == Failures(st.window) >= cond.failures IN
    CASE firing /\ ~st.alerted ->
           LET new == [st EXCEPT !.alerted = TRUE, !.failingSince = now,
                                 !.lastNotified = now, !.episode = @ + 1]
           IN targets' = [targets EXCEPT ![t] = new] /\ Notify(t, new)
      [] firing /\ st.alerted /\ now - st.lastNotified >= repeat ->
           targets' = [targets EXCEPT ![t] = Repeated(st)] /\ Notify(t, Repeated(st))
      [] ~firing /\ st.alerted ->
           /\ targets' = [targets EXCEPT ![t] = Cleared(st)]
           /\ UNCHANGED <<notifyCh, sent>>
      [] OTHER ->
           /\ targets' = [targets EXCEPT ![t] = st]
           /\ UNCHANGED <<notifyCh, sent>>

\* Record(ep, em): a sample c of target t, taken now (sample timestamps of
\* a target increase).
Record(t, c) ==
    LET st == targets[t] IN
    /\ st.ts # None => st.ts < now
    /\ IF st.prev = None
       THEN \* The first sample is only stored.
            /\ targets' = [targets EXCEPT ![t] = [st EXCEPT !.prev = c, !.ts = now]]
            /\ UNCHANGED <<notifyCh, sent>>
       ELSE LET dt == c.total - st.prev.total
                ds == c.success - st.prev.success
            IN IF dt < 0 \/ ds < 0
               THEN \* Counter reset: resync and start a new window.
                    /\ targets' = [targets EXCEPT ![t] = [st EXCEPT !.prev = c, !.ts = now,
                                                                     !.window = <<>>]]
                    /\ UNCHANGED <<notifyCh, sent>>
               ELSE LET a   == Attempts(dt, ds)
                        st1 == [st EXCEPT !.prev = c, !.ts = now,
                                   !.window = LastEntries(@ \o a, WindowSize(cond))]
                    IN IF Len(st1.window) < WindowSize(cond)
                       THEN /\ targets' = [targets EXCEPT ![t] = st1]
                            /\ UNCHANGED <<notifyCh, sent>>
                       ELSE Evaluate(t, st1)
    /\ UNCHANGED <<cond, repeat, now>>

\* The notifier reads an AlertInfo from notifyCh.
Consume ==
    /\ notifyCh # <<>>
    /\ notifyCh' = Tail(notifyCh)
    /\ UNCHANGED <<cond, repeat, now, targets, sent>>

\* The clock has run out.
Finished ==
    /\ now = MaxTime
    /\ UNCHANGED vars

Next ==
    \/ Tick
    \/ \E t \in Targets, c \in Counters : Record(t, c)
    \/ Consume
    \/ Finished

Spec == Init /\ [][Next]_vars
-----------------------------------------------------------------------------
Times == 0..MaxTime
Infos == [target : Targets, since : Times, episode : Nat, time : Times]

TypeOK ==
    /\ cond \in Conditions /\ repeat \in Intervals /\ now \in Times
    /\ \A t \in Targets :
          LET st == targets[t] IN
          /\ st.prev \in Counters \cup {None}
          /\ st.window \in Seq(BOOLEAN) /\ Len(st.window) <= WindowSize(cond)
          /\ st.alerted \in BOOLEAN
          /\ st.failingSince \in Times \cup {None}
          /\ st.alerted = (st.failingSince # None)
    /\ notifyCh \in Seq(Infos) /\ Len(notifyCh) <= NotifyCap
    /\ sent \subseteq Infos

(* Repeat notifications are throttled: two AlertInfos of one episode are  *)
(* at least repeat_interval apart, however samples, clock and clears      *)
(* interleave.                                                            *)
RepeatThrottled ==
    \A a, b \in sent :
        (a.target = b.target /\ a.episode = b.episode /\ a.time < b.time)
            => b.time - a.time >= repeat

(* Every AlertInfo names its episode: the notifications of one episode    *)
(* (the first and its repeats) carry the same failing_since, and an alert *)
(* that clears and is raised again starts a new failing_since.            *)
EpisodeIdentity ==
    \A a, b \in sent :
        a.target = b.target => ((a.episode = b.episode) <=> (a.since = b.since))
====
