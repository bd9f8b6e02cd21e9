# TLA+ models of cloudprober

This directory holds TLA+ models of the parts of cloudprober under `src/`
where concurrency or a multi-step protocol makes the code hard to test. The
parts with the most of both are the external probe's SERVER and ONCE
modes, the Stackdriver surfacer's batching loop and the HTTP probe's
request construction. Every module is translated from the Go
source. `PROJECT.json` maps each definition to the lines it models.

## The system's parts

| Part | Source | Module | Status |
|---|---|---|---|
| External probe, SERVER mode | `src/probes/external/external.go` | `ExternalServer`, refining `ProbeRequests` | partly |
| External probe, ONCE mode | `external.go` (`runOnceProbe`, `processProbeResult`) | `ExternalOnce`, refining `OnceCycle` | modelled |
| External probe Init, label substitution | `external.go` (`Init`, `substituteLabels`) | none | not modelled |
| Stackdriver surfacer | `src/surfacers/stackdriver/stackdriver.go` | `SDSurfacer` | partly |
| Alert handler | only `src/probes/alerting/alerting_test.go` is present | `AlertHandler` (from spec.md and the tests) | modelled |
| HTTP request construction | `src/probes/http/request.go` | `HTTPRequest`, `HTTPPrepare` | modelled |
| HTTP validators, payload parser config | `src/validators/http/http_test.go` (test only), `src/metrics/payload/proto/config.pb.go` (generated) | none | not modelled |

### How the parts interact

The external probe runs a program and turns its replies into EventMetrics.
It sends those EventMetrics on `dataChan`. A surfacer such as Stackdriver
receives them through `Write`. The two modules model the two ends of this
flow separately. The only thing they share is an EventMetrics, which neither
module's properties need to trace across the boundary.

## ExternalServer: SERVER mode

The module has one actor per goroutine, plus the subprocess and the context
timer:

- **Driver** (`runProbe` / `runServerProbe`). `StartCycle` models a ticker
  tick, `updateTargets` and the cmdRunning check. `StartCmd` models
  `cmd.Start`, which either succeeds or fails and returns. `SetRunning` is
  the `cmdRunning = true` assignment. `Send(t)` and `WriteRequest` model the
  send loop, and a write blocks when the stdin pipe is full. `CloseSends` is
  `close(doneChan)`, and `FinishCycle` is the loop over leftover requests
  after `wg.Wait`.
- **Receiver goroutine**. It blocks until `doneChan` is closed, which is
  where the hang comes from. Its three cases are `RecvEmpty` (no requests
  are left), `RecvTimeout` (`ctx.Done`) and `RecvReply` (a reply arrives on
  `replyChan`). A reply whose id is unknown is dropped.
- **readProbeReplies**, one per incarnation `g`. `ReaderRead(g)` takes a reply
  from the stdout pipe and holds it. A held reply is handed over only by
  `RecvReply`, because `replyChan` is unbuffered. `ReaderExit(g)` runs when
  the pipe is closed and empty.
- **Monitor**. It models `cmd.Wait`: it closes the stdout pipe, discards the
  replies still in it, closes `done` and sets `cmdRunning = false`.
- **Subprocess** (environment). `ProcRead` reads from stdin. `ProcReply`
  answers any request it holds, in any order, with success or error.
  `ProcExit` lets the process die at any time.

Data is abstracted. A reply is its id and whether `error_message` is empty,
plus ghost fields holding the target and cycle it answers. Payload parsing,
latency and label substitution are left out, because no property depends on
them.

### The abstract spec: ProbeRequests

`ProbeRequests` states what a SERVER cycle promises. Each target's request
has a status: `idle`, `open`, `ok` or `err`.

- `Issue` counts the request in its target's total.
- `Answer` models the server replying, with or without an error.
- `Lose` models a reply lost with the stdout pipe.
- `Report` emits one result. It can be a success or validation failure
  only on an `ok` answer, and a failure only on an `err` answer.
- `End` reports every unreported request as a failure.

`ExternalServer` refines it (`Abstract == INSTANCE ProbeRequests WITH ...`).
The status of a request comes from the requests map and the replies that
are still deliverable: those in a stdout pipe or held by a reader. A reply
counts as the answer to the current request only through its ghost target
and cycle, never through its id. A stale reply credited through a reused id
therefore breaks the refinement, as the `requestID`-reset mutant shows.

### Runs

| Run | cfg | Expect | What it shows |
|---|---|---|---|
| `server_safety` | `MCExternalServer.cfg` | pass | `ResultsAccounted`: every `total` increment is matched by exactly one emitted result or an outstanding request. `ImplementsProbeRequests`: the refinement holds, so each request is reported once in its own cycle, and a reply from an earlier cycle is never credited to a later request, because `requestID` is never reused. `ReceiveCompletes`: once the receiver runs, the cycle finishes. |
| `server_hang` | `MCExternalServerHang.cfg` | violation | `CycleCompletes` fails. A cycle that times out leaves replies in the reader and the stdout pipe. The next cycle's receiver reads nothing until all sends are done. When the subprocess blocks on a full stdout pipe, it stops reading stdin, and the driver then blocks writing stdin. |
| `server_running_flag` | `MCExternalServerFlag.cfg` | violation | `RunningFlagTracksProcess` fails. If the process exits before `cmdRunning = true` runs (`external.go:261`), the monitor's `false` is overwritten. The flag then stays true for a dead process, so no later cycle restarts it. |

### Bounds

- **Targets** = {t1, t2} gives two requests per cycle, so replies can come
  back out of order.
- **MaxCycles** = 3 lets a stale reply from cycle 1 meet cycles 2 and 3.
- **MaxStarts** = 2 lets the model reach a crash, a restart and a second
  incarnation.
- **StdinCap** = 2, **StdoutCap** = 1 and **ProcCap** = 1 are the smallest
  pipes at which both the full-pipe block and the back-pressure happen.

### Fairness

- Weak fairness holds for the driver, the receiver, each reader, the
  monitor, the timer and the subprocess's read and reply. The Go scheduler
  eventually runs every runnable goroutine, and the subprocess is assumed to
  answer what it reads.
- `ProcExit` has no fairness: the process may exit, but need not.
- Both cfgs set `CHECK_DEADLOCK FALSE`. The reason is that the code really
  can stop: the state space ends when every actor is blocked (the hang) or
  when all cycles are done. Liveness is checked explicitly instead.

## SDSurfacer: the Stackdriver surfacer

Each state and action corresponds to the code as follows:

- `Write(em)` is the non-blocking send. When `writeChan` is full, the
  EventMetrics is dropped.
- `Record` is `recordEventMetrics`, modelled as a whole. It covers the
  kind check, `processLabels`, each metric's value type (number, string,
  map or distribution) and `recordTimeSeries`, which stores the series in
  `s.cache` under `metricName+","+labelsKey`.
- `Tick` starts a flush.
- `Describe(k)` is one iteration of the descriptor loop. It skips known
  metric types and creates the others. A creation may fail, and the loop
  then continues.
- `EndDescribe` builds `ts`.
- `SendBatch(ok)` sends `ts[i:min(i+batchSize, len)]`, and a failure
  increments `failCnt`.
- `ClearCache` resets the cache.

Metric names and label keys are small tokens. A name is the sequence of its
'/'-separated parts, and a cache key keeps the insertion order of the labels.

### Runs

| Run | cfg | Expect | What it shows |
|---|---|---|---|
| `surfacer_flush` | `MCSDSurfacer.cfg` | pass | `BatchesPartitionTs`: each flush's batches are exactly `ts`, with none lost or repeated. `DescribedBeforeWrite`: every series sent has had its descriptor created or known. `DescriptorCreatedOnce`: no metric type's descriptor is created twice. `WritesEventuallyFlushed`: whatever `Write` put on `writeChan` is eventually recorded and flushed, leaving the channel and the cache empty (the mutant that skips the delete loop re-flushes forever). |
| `surfacer_cache_key` | `MCSDSurfacerMap.cfg` | violation | `CacheOnePerIdentity` fails: the cache does not hold exactly one entry per series identity. The bug shows up in two ways. First, the series of a map value carry distinct labels but share one cache key (`stackdriver.go:457`), so only the last key's series is sent. Second, two EventMetrics carry the same labels in a different order. `labelsKey` joins the labels in insertion order (`stackdriver.go:353`), so one identity gets two keys, and one flush sends it twice. Each case violates the property on its own. TLC reports the map case first. |
| `surfacer_unit` | `MCSDSurfacerUnit.cfg` | violation | `UnitNeverEmpty` fails. A latency unit missing from the unit table yields the unit "" (`stackdriver.go:417`). |

### Bounds and fairness

- **BufSize** = 1 makes drops reachable.
- **BatchSize** = 2 with three series makes the last batch partial.
- **MaxWrites** = 3 lets a Write interleave with a flush.
- Only the worker is weakly fair. It is the single writeBatch goroutine,
  and its `Tick` stands for `batchTicker`, which keeps firing. The producers
  get no fairness, because nothing obliges a probe to write. The bounded
  `MaxWrites` keeps a stream of Writes from starving the ticker case of
  Go's random `select` forever. That is the only thing
  `WritesEventuallyFlushed` relies on besides the worker's fairness.

### Name filtering

Two further operators come from `ignoreMetric` and `validMetricLength`
(`stackdriver.go:366-379`, `:483-485`). A name's length is the sum of its
parts' lengths (the constant `PartLen`) plus the '/' separators. The
monitoring URL's length is the constant `URLLen`. The allowed-metrics regex
is a constant set `RegexAllows`.

### Run for the name check

| Run | cfg | Expect | What it shows |
|---|---|---|---|
| `surfacer_flush` | `MCSDSurfacer.cfg` | pass | Adds `NameLimitExact`: a recorded metric reaches the cache exactly when the URL plus its name is at most 100 characters. The ghost `offered` holds the names offered before the length check. With `URLLen` = 81, `latency` and `version` are exactly 100, `timeouts` is 101 and `validation_failure` is 111. TLC checks both sides of the limit: the mutant that rejects 100 breaks the property, and so does accepting 101. |

## ExternalOnce and OnceCycle: ONCE mode

Each cycle, `StartCycle` starts one goroutine per endpoint (`wg.Add`;
`go func`). `WaitDone` is `wg.Wait`. A goroutine runs these steps in order:

- `LoadTotal` and `StoreTotal`: `result.total++` as a load and a store.
  This is a plain `++` on a result shared by every endpoint with the same
  name, so a data race between goroutines becomes an interleaving of the
  two steps.
- `RunCommand`: the command succeeds or fails. The validators may then turn
  a success into a failure.
- `LoadSuccess` and `StoreSuccess`: `success++`, as a load and a store.
- `Emit`: the `dataChan` send, followed by the deferred `wg.Done`.

`OnceCycle` is the abstract spec. Each run is counted in one step, then
finished, and the cycle ends once every run has finished. `ExternalOnce`
refines it (`Abstract == INSTANCE OnceCycle WITH stage <- ...`). In the
mapping, a goroutine's run counts as counted once its store of `total`
lands. It counts as finished once success has been decided. Loads and the
send are stuttering steps.

| Run | cfg | Expect | What it shows |
|---|---|---|---|
| `once_cycle` | `MCExternalOnce.cfg` | pass | The endpoints have distinct names. `TotalsCountRuns`: between cycles, every total equals the runs started for its name. `ImplementsOnceCycle`: the refinement holds, liveness included, so every cycle ends. |
| `once_shared_name` | `MCExternalOnceShared.cfg` | violation | Two endpoints share a name, so they share one result. Their concurrent `total++` (`external.go:529`) loses an increment. |

Two endpoints are enough for the race. Two cycles let a second cycle start
from the first cycle's counters. Weak fairness is assumed per goroutine and
for `wg.Wait`. The Go scheduler runs runnable goroutines, and `runCommand`
returns by the probe context's deadline.

## HTTPRequest and HTTPPrepare: HTTP request construction

`HTTPRequest` translates `hostWithPort`, `hostHeaderForTarget`,
`urlHostForTarget`, `relURLForTarget` and `httpRequestForTarget` into
operators over sequences of one-character strings:

- `%d` is formatted by a `RECURSIVE Decimal`.
- IPv6 literals get brackets when they contain ':' (`strings.IndexByte`).
- The header loop is a `FoldLeft`.

A one-step state machine enumerates the small configs and targets and
builds each request. The requests are checked against a reference RFC 3986
parser (`ParseURL`, `ParseAuthority`).

The hosts are `a` and `::1`, and the IPs are `1.2` and `::2`. The ports are
0, 80 and 8080. The headers are all sequences of at most two names from
{Host, host, User-Agent, X}. Together these cover every branch: port 0,
port override, fqdn, relative URL, resolve on, off and unset, resolve
failure, IPv6, and repeated or overriding headers.

`HTTPPrepare` models `prepareRequest` and `getToken`. Concurrent attempts
share one template request. Each attempt prepares (clone, token, body
reader) and sends. Meanwhile the token source may refresh, fail, or return
a token with neither an access token nor an id_token.

| Run | cfg | Expect | What it shows |
|---|---|---|---|
| `http_request` | `MCHTTPRequest.cfg` | pass | `URLRoundTrip`: the URL parses back to the resolved IP or the fqdn/name, the intended port and the path. `HeadersMatchConfig`: each configured header keeps its last value, and `user_agent` overrides. `URLRoundTrip` also checks that a request is built exactly when no resolution it needs failed, so falling back to the target name after a failed resolve breaks it. `TypeOK`: URLs and Host values are made of host, IP, path and digit characters (the mutant without the resolve check formats a nil IP as `<nil>`). |
| `http_host` | `MCHTTPRequestHost.cfg` | violation | `HostHeaderCorrect` fails, in two ways. First, target `::1` gets Host `::1` or `::1:8080` with no brackets (`request.go:52`). Second, a header configured as `host` is stored in `req.Header`, which net/http ignores, so the configured Host is lost (`request.go:124`). TLC reports the IPv6 case first. The second is reached with the hosts restricted to `a`. |
| `http_prepare` | `MCHTTPPrepare.cfg` | pass | `SentWithOwnToken`: each attempt sends the token its own `prepareRequest` fetched. `BodyNeverReused`: a buffered body reader is never sent after being drained. |

## AlertHandler: the alert handler

The handler's code is not under `src/`, only `alerting_test.go` is. The
module follows spec section 4.3 wherever the spec agrees with the tests. It
follows the tests where they disagree:

- **The window counts attempts, not samples.** A sample with deltas
  `(dt, ds)` adds `dt` attempts to the window, the first `ds` of them
  successes. The window keeps the last `condition.total` attempts, or
  `condition.failures` when total is 0. Only this reading makes
  `alerting_test.go:131-136` (and spec scenario S2) alert. Section 4.3's
  steps 3-4, a ring of samples evaluated only when full, would never
  alert there.
- **A repeat interval of 0 repeats on every sample**
  (`alerting_test.go:188-192`). Section 4.3 says repeats need an interval
  greater than 0.

`Record(t, c)` is the whole of `Record`: the first-sample store, the
counter-reset resync, the window update, and the alerting transitions
(`Evaluate`, using `Cleared`, `Repeated` and `Notify`). `Notify` is the
non-blocking send on the bounded `notifyCh`. `Tick` advances the clock,
and `Consume` is the notifier reading the channel. A target's samples have
increasing timestamps. The ghost counter `episode` counts raises. The ghost set
`sent` holds every AlertInfo sent, including dropped ones.

| Run | cfg | Expect | What it shows |
|---|---|---|---|
| `alert_window` | `MCAlertHandler.cfg` | pass | Samples are arbitrary, counter resets included. `RepeatThrottled`: notifications of one episode are at least the repeat interval apart. `EpisodeIdentity`: the AlertInfos of one episode share one `failing_since`, and a re-raise after a clear starts a new one. |

**Bounds.** Three conditions are checked: the default {1,1}, a sliding
{2,3}, and the total = 0 fallback {2,0}. Each is reached with a raise, a
clear and a second raise. The repeat intervals are 0, 2 and the default
3600. Counters go up to 5 and the clock to 6 s. The notify channel has
one slot, so drops happen. There is one target, because targets share no
state (`ah.targets` is keyed by target). No fairness is needed, since all
the properties are safety properties.

**Not checked.** `condition_id` is `failing_since` truncated to unix
seconds. The model's clock counts whole seconds, so it cannot show two
episodes within one second sharing an id. That can happen with a probe
interval under a second.

## Not modelled, and why

- **Label substitution, payload parsing and validators.** These are string
  processing with no concurrency. The substitution helper and the payload
  parser are not under `src/`, and only their outcome matters to the
  properties. A pure operator for them would transliterate regular
  expressions and would tell apart nothing the properties use.
- **`config.pb.go`.** It is generated protobuf code. Its options (metrics
  kind, aggregation, distribution metrics) configure the payload parser,
  which is not modelled. spec.md does not describe the aggregation they
  select, so a model of it would be invented rather than translated.
- **`writeBatch`'s random start delay and context cancellation.** These are
  timing and shutdown. They change no state a property depends on.
- **Logging, gRPC transport, protobuf encoding and the Stackdriver API
  itself.** These are I/O, so the API is an environment that succeeds or
  fails.
- **The `requestID` wrap.** `requestID` is an int32 counter
  (`external.go:479`). It wraps only after 2^32 requests, while a reply
  stays outstanding for at most a cycle, so the wrap is not modelled.

## Open questions

- **The alert window.** No property checks it. The handler's code is not
  under `src/`, so the window (`WindowSize`, `LastEntries`) is modelled from
  spec.md. A property over it could only restate that model: it could not
  catch the code getting the trim or the `total = 0` fallback wrong.

- **`condition_id` in the alert handler.** `condition_id` is
  `failing_since` in whole unix seconds (`alerting_test.go:37`). A probe
  interval under a second could clear and re-raise an alert within one
  second, giving two episodes the same id. Showing this takes sub-second
  sample times and a violation run of its own, and the project's run
  budget is spent. `EpisodeIdentity` checks the same identity on
  `failing_since` itself.
- **Dropped notifications.** A full `notifyCh` drops an episode's first
  `AlertInfo`. This is specified behaviour, so the properties are stated
  over the AlertInfos sent, whether delivered or not.
