# A TLA+ development of prometheus-obs-exporter

The exporter answers `GET /probe?target=<host>[&collectors=...]` by querying the
management API of a Dell ObjectScale / ECS cluster and returning Prometheus
metrics.  One process serves many targets; every target has one authenticated
client that all scrapes of the target share, and every client occupies one of the
100 live tokens the API allows a user.  What is hard about this program is
therefore not what it computes but who holds which token when: scrapes that
overlap, tokens that die under them, exchanges that fail on either side of the
wire, and a shutdown that must give every token back.

## 1. Inventory

| Part | Source | State | Operations | Model |
|---|---|---|---|---|
| Authenticated client | `internal/obsclient/auth.go`, `client.go` | `authToken`, `authMu`; per call: token sent, attempt | `Login`, `Logout`, `ensureLoggedIn`, `invalidateToken`, `callAuthenticatedJSON` | `ObsClient`, abstractly `TokenSession` |
| Process | `cmd/obs-exporter/main.go` | `clients` (sync.Map), the HTTP server, the signal goroutine | `probeHandler`, `getOrCreateClient`, `logoutAll`, `main` | `Exporter` |
| Probe | `internal/collector/probe.go`, `metrics.go` | `Run` (two memoized calls), the registry, success metrics | `Probe`, `NewRun`, `LocalZone`, `Nodes` | `ProbeRun` |
| Cluster, replication | `cluster.go`, `replication.go` | none beyond a scrape | `collectCluster`, `collectReplication` | control in `ProbeRun`, fields in `Decoding` |
| Metering | `collector/metering.go` | semaphore, mutex, slice, WaitGroup of one call | `collectMetering` | `MeteringFanout`, fields in `Decoding`; abstractly `FanOut` |
| Perf | `collector/perf.go` | mutex, slice, first error, WaitGroup of one call | `collectPerf` | `PerfFanout`, rows in `FluxRows`; abstractly `FanOut` |
| Node | `collector/node.go`, `obsclient/dtstats.go` | results slice, WaitGroup of one call | `collectNode`, `GetAllNodeDTStats` | `NodeStats`; abstractly `FanOut` |
| Decoding | `obsclient/types.go`, `flux.go` | none | `FlexNumber`, `FirstCount`, `FirstSpace`, `flattenFluxSeries` | `Decoding`, `FluxRows`, driven by `Conversions` |
| Wrappers | `obsclient/dashboard.go`, `metering.go` | none | one call each | as requests of `ProbeRun`, `MeteringFanout` |
| Configuration | `internal/config/config.go` | `Config`, constant after start | `New`, `Validate` | the range check and its literal in `FluxRows`; the rest is flag parsing |

How they interact.  `probeHandler` takes the target's client from the map or
creates one (`New`, `Login`, `LoadOrStore`; the loser of the race logs out), then
runs `collector.Probe` in its own goroutine.  `Probe` calls the collectors in
order; metering, perf and node start goroutines of their own.  All their
authenticated requests go through `callAuthenticatedJSON` of the shared client, so
several goroutines of several scrapes meet in `authMu`; the DT statistics of the
nodes are anonymous requests.  The signal goroutine meets the handlers in
`srv.Shutdown` and in the map, and the clients in `Logout`.

Hard behaviours, and what makes each part correct:

- *client*: late 401s against fresh tokens, several callers that find the cache
  empty, replies lost after the server has acted, a logout that fails.  Correct:
  one live token at most, no live token forgotten, one retry, every call returns.
- *process*: first scrapes that race, requests cancelled in the middle, a drain
  that runs out of time, a `main` that does not wait.  Correct: one client per
  target, no token outside the map, a clean shutdown leaves none.
- *probe*: memoized errors, repeated and unknown names, names that are not UTF-8,
  panicking registration.  Correct: one fetch, one vdc label, a faithful report, an
  answer.
- *decoding*: numbers quoted, bare, missing or empty; rows shorter than their
  header; any number of rows for one metric; a range accepted at startup.  Correct:
  a value that was not sent is never published as a number, no row takes another's
  value, a rate counts every row once, the query asks for the range configured.
- *metering, perf, node*: goroutines that share slices, a semaphore with a
  configured capacity, failures of some of them.  Correct: bounded, nothing lost,
  nothing invented, a failure stays where it happened.

`PROJECT.json` lists every hazard at its line with the properties that watch it.

## 2. The modules

### TokenSession (abstract)

Four variables: `held` (the token the client can still use or give back), `live`,
`lost` (live tokens nobody can give back) and `used`.  A client that holds
nothing may acquire a token never seen before; it stops holding one only because
it is dead or because a failed exchange lost it.

### ObsClient

Every caller (a goroutine in `callAuthenticatedJSON`, `Login` or `Logout`) has a
`pc` and its locals; `authToken` and `authMu` are the fields of the struct.

| Code | Actions |
|---|---|
| `ensureLoggedIn` | `UseCached`, `EnsureLogin` |
| `Login`, `login` | `Login`, `LoginSucceeds`, `LoginFails`, `LoginLost` |
| `callAuthenticatedJSON` | `StartCall`, `CallDone`, `CallRejected`, `CallLost` |
| `invalidateToken` | `InvalidateToken` |
| `Logout` | `StartLogout`, `LogoutNothing`, `LogoutSend`, `LogoutDone`, `LogoutLost` |
| the endpoint (external) | `GrantLogin`, `RefuseLogin`, `ServeRequest`, `ServeLogout`, `Expire` |

A critical section that does no I/O (`UseCached`, `InvalidateToken`) is one step;
one that waits for the network holds `authMu` over several.  An exchange has a
request step, a server step and a reply step, and can be lost before or after the
server has acted.  After a caller has given up on a request the server does not
serve it any more: a `/login` that is served late is folded into the reply that is
lost.  The endpoint answers 401 to a request exactly when the token is dead, which
is how the code reads a 401 (`auth.go:83`, `auth.go:154`).  Tokens are numbered in
order of issue.  A client is used by callers that come back any number of times.

`LoginCallers` are goroutines that call the exported `Login` on a *published*
client.  `main.go` calls it only on a client no one else can see yet, so the runs
and theorems about the program's safety have none; `client_login` has two, because
`auth.go:15-17` speaks about them, and `client_live` has one, which must return too.

### Exporter

Clients are named by the handler that created them, and each is taken at the level
of `TokenSession`: `session` says whether it holds nothing, a live or a dead token,
`lost` whether it lost a live one.  `Accept` to `Finish` are the handler,
`Signal`, `Drained`, `DrainTimesOut`, `LogoutTarget`, `LogoutRefused`,
`LogoutFails`, `LogoutAllDone` the signal goroutine, `MainReturns` and
`ServeFails` the main one.  `Cancel` ends a request's context at any moment.  An
exchange that begins under a done context is not sent (`LoginNotSent`,
`LoserLogoutNotSent`; `ProbeLogsIn` and `LoginOk` need a context that is not done);
one that is under way when the context ends fails, before or after the endpoint has
served it, and with `NetworkFaults` any exchange may fail.  `Range` may or may not call back for a key stored after it began: it visits
any key present, and ends when those present at its start are visited.
Once `main` has exited nothing moves.

### ProbeRun

The loop of `Probe` with `next` as its index; `memo` and `calls` for the two
`sync.OnceValues`; `report`, `registered` and `vdcs` for what has been collected;
`outcome` for what the handler answers.  A collector is one step: inside a scrape
nothing interleaves with it that the variables could tell.  Its metrics are told
apart as the descriptor that is always there and the rest, which is enough for
what client_golang refuses: registering a descriptor twice panics, gathering a
series twice is an error for the whole scrape, and making a metric panics when a
label value is not valid UTF-8.  The last can only be met with a requested name
(`NotUTF8`, `UnknownPanics`): every other label value is a constant or was decoded
from JSON, which replaces invalid bytes.  `doubled` holds the collectors
that registered a series twice, which any but cluster may do: an object that the
API lists twice, two nodes with one (or an empty) management IP, or the repeated
Flux rows that `PerfFanout` tells of.

### FanOut (abstract)

A set of jobs that each give items into one sum under their own name, and a
collector that is over only when every job is.  `MeteringFanout`, `PerfFanout` and
`NodeStats` implement it over namespaces, queries and node indexes.

### MeteringFanout, PerfFanout, NodeStats

The goroutines of the three collectors, step by step.  An append to a shared slice
is a read and a write, so that what the mutex is for can be seen: without it
(`AppendUnlocked`, `AddUnlocked`) appends are lost.  An authenticated request is
one step with any outcome, which `ObsClient` justifies: each returns, with data or
an error.  Overlapping scrapes share nothing here: the semaphore, the mutexes and
the slices belong to one call of the collector, so one call is what is modelled.

In `PerfFanout` an answer is a sequence of rows, and what its goroutine adds are the
items `ItemsOf` of `FluxRows` gives: item `i` for the row `i` of a known field
(throughput, errors), or item 0 for all the rows (transaction rates, latencies),
added in the order of their numbers.  `SeriesOfItem` says under which series; so a
series can come twice, and `CollisionNeedsRepeatedRow` says exactly from what.  In
`NodeStats` the metrics of a node are its index in the results.

### Decoding, FluxRows, Conversions

Pure operators, in the order the code applies them.  `Decoding` has the JSON
side: `UnmarshalJSON` and `Float64` of `FlexNumber`, the first sample of a field,
tables of which field gives which series in which unit, and the rules that are no
table (`QuotaMetrics`, `InferProduct`, `VersionOf`).  A value is told apart by its
form (missing, null, empty, bare, quoted) and the number it parses as, if it does.
`FluxRows` has the Flux side: `FlattenFluxSeries` (a row's cells looked up by
column, rows without a value passed over), `QueryResults`, the metrics of each
query, and the path of the perf range from `Validate` to the literal `FluxDuration`
gives.  Its three loops (over the rows of a series, the series of a response, the
results of a query) are the functions `Kept`, `Appended` and `Sums`, whose value at
`n` is what the loop has come to after `n` rounds.  A metric is `<<series, v, exp>>` for `v * 10^exp`, so units are visible and
numbers stay integers.  `Conversions` takes one input (a body, a Flux response, the
results of a query, or a range), converts it and keeps both, for the properties to
relate them; its properties are stated over the JSON values, the cells, the requests
and the seconds themselves, not with the operators they check.  `RowsFaithful` asks
for a map from results to rows that is onto the rows with a number, keeps their
order, and gives each result the value and texts of its own row.
`OneMetricOfAllRows` counts requests one by one: a rate is the number of pairs of a
counter's row and a request in it.

Operators called "The bug of ..." are variants of an action with a plausible
mistake; `PROJECT.json` pairs each property with one that breaks it.

## 3. What the runs show

| Run | Bounds | Shows |
|---|---|---|
| `client_shared` | 3 callers + 1 logout, 4 tokens, 2 live | `OneLiveToken`, `EmptyCacheMeansLoggedOut`, `AtMostOneRetry`, `RetryUsesNewToken`, `NeverDropsLiveToken`, refinement of `TokenSession` |
| `client_live` | 2 callers, a login, a logout, 2 tokens | `EveryOperationReturns` |
| `client_login` | 2 exported `Login`s | violates `OneLiveToken` (finding) |
| `exporter_shared` | 3 handlers, 2 targets, faults anywhere | `OneClientPerTarget`, `NoStrayToken`, `CleanShutdown`, `ProbeKeepsItsToken` |
| `exporter_exit` | 2 handlers, 2 targets, no faults | violates `LogsOutOnSignal` (finding) |
| `exporter_loser` | 2 handlers, 2 targets, no faults | violates `LoserGivesTokenBack` (finding) |
| `probe_all` | the default request and all of up to 3 of 7 names | `FetchedOnce`, `OneVdcLabel`, `ReportsEveryName`, `AnsweredUnlessRefused` |
| `probe_unknown` | `cluster,other,other` | violates `UnknownFailsNothingElse` (finding) |
| `metering_all` | 3 namespaces, concurrency 0 and 2 | `BoundedFanout`, `NothingLost`, `CollectorEnds`, refinement of `FanOut` |
| `perf_mix` | 4 queries, up to 3 rows each | `FailureIsolated`, `FailsWithNothing`, `CollisionNeedsRepeatedRow`, refinement of `FanOut` |
| `node_all` | up to 3 nodes, 3 addresses | `ResultsInOrder`, `FailedNodeIsolated`, refinement of `FanOut` |
| `conversions` | any two fields in any form, Flux series of two rows and responses of two series, up to 3 results, ranges around the limits | `NoFalseValue`, `QuotaOnlyWhenSet`, `RowsFaithful`, `OneMetricOfAllRows`, `LiteralDenotesRange`, `WithinFluxLimit` |

Every passing run but `client_live` also checks its module's `TypeOK`, whose last conjuncts
tie the program counters to the mutex.

Why the bounds are enough.  *Client*: a clobbered token needs the owner of the
late 401, the goroutine that has logged in again, and one more to notice; four
tokens let a token be rejected, replaced and the replacement rejected, with one
to spare; with two live tokens allowed a duplicate login is possible and a third
is refused.  What the runs show of safety here the theorems show for all values.
*Exporter*: two handlers race for a target while the third has, or does not
have, another; theorems again remove the bound.  *Probe*: three names are enough
for a repetition around a third collector, two of the seven names are unknown and
one of these is not UTF-8, and the default request has four.
*Metering*: one namespace more than the semaphore admits, and the smallest
configured value, zero, which the clamp turns into one.  *Perf*: each sort of
query (a metric per row, a sum, one field looked up, a metric per row and head),
with rows that repeat, a field nobody asked for and no rows at all; the queries
left out are of a sort that is there.  *Node*: an order of three, with addresses
that repeat.  *Conversions*: fields are read independently of each other, so two
that take any form at once show whether one disturbs another; a series of two rows
of up to three cells has them shorter than, as long as, and longer than headers
with a column missing or repeated, and a second series shows whether its rows come
after those of the first; three results are a counter of either sort around a field
that is none; ranges come in halves of a second around zero, a minute and the hour,
where rounding, carrying and the limit meet.  The theorems remove all these bounds.

`CHECK_DEADLOCK FALSE` appears where the system ends: the process exits, a scrape
is answered, a collector returns.  `ObsClient` never ends, and its safety and
liveness runs look for deadlock.

### Fairness

`ObsClient!FairSpec`: weak fairness of `Receive` per caller, because `http.Client`
has a timeout of 30 s by default (`client.go:74-76`, `104-107`) and its `*Lost`
disjuncts need no answer; strong fairness of `Acquire`, because `sync.Mutex` hands
itself to a waiter that has starved for a millisecond.  Nothing is assumed of the
endpoint, and no caller has to start.  `MeteringFanout!FairSpec`: weak fairness of
the list call and of the wait; strong fairness of each goroutine's steps, as the
runtime serves the waiters of a channel in order and the mutex as above.
`PerfFanout` and `NodeStats` have neither a queue nor a bound on goroutines, and
state no liveness.

## 4. What is proved

The proofs hold for any set of callers, handlers, targets, tokens, namespaces,
queries, nodes, requested names, bodies, responses and ranges, under the named
assumptions on the constants.  Every invariant and action property a passing run
checks is a theorem.

`ObsClient_proofs`, from `CallersAssumption` and `BoundsAssumption` alone:

- `TypeCorrect`: `TypeOK`, with the mutual exclusion of `authMu`;
- `RetryBounded`: `AtMostOneRetry`;
- `RetryFresh`: `RetryUsesNewToken`.

With `LoginCallers = {}`, the program's use of the client:

- `OneToken`, `NothingForgotten`, `LiveTokenKept`: `OneLiveToken`,
  `EmptyCacheMeansLoggedOut`, `NeverDropsLiveToken`;
- `Refinement`: `Spec` implies the specification of `TokenSession`;
- `PromiseKept`: so what that specification guarantees, `Accounted`, holds of the
  shared client; it is what `Exporter` takes each of its clients for.

None of these is inductive alone.  The invariant `IInv` adds: the tokens a caller
or the cache mentions have been issued (`TokensIssued`); how far a call is tells
how many requests it has sent, and the cache it will retry from no longer has the
token it sent first (`RetryInv`); a token that was rejected is dead
(`RejectedInv`); every live token that was not lost is cached or in the `/login`
reply that its caller, inside the mutex, is about to read, and a `/login` is under
way only while the cache is empty (`SessionInv`).  This last one is where
`LoginCallers = {}` is needed: the exported `Login` starts with a full cache, and
`client_login` shows what becomes of it.  The first four parts are inductive
without it.  Each action has a step, and under it one for each part it disturbs.

`Exporter_proofs`, from `ExporterAssumption`:

- `TypeCorrect`, `OneClient`, `NoStray`, `CleanEnd`, `TokenKept`: the five
  invariants of `exporter_shared`, for any number of handlers and targets.

Here the invariant ties the map to its creators (a client in the map was created
for that target by a handler that got as far as probing, `ClientsInv`), tokens to
the map (`TokensInv`), and the shutdown to the handlers: once a drain has succeeded
no handler is active, none can be accepted, and what `Range` has visited holds a
token only if its logout failed (`ShutdownInv`).

`ProbeRun_proofs`, from `RequestsAssumption` (a request is a list of names, and the
names of the Registry are valid label values):

- `TypeCorrect`, `AtMostOnce`, `SameLabel`, `EveryNameReported`,
  `LostOnlyToRefusals`: the invariants of `probe_all`, for requests of any length.

The invariant says how often an API was called by whether its memo is set
(`Memoized`), which label a registered metric has by what the memo of the local
zone says (`Labelled`, without which `OneVdcLabel` is not inductive), and which
names the loop has reported on, registered or failed (`Loop`); that a name that
failed has metrics only if it was asked for again is what makes
`ReportsEveryName` survive a later repetition.  The loop has passed no name that is
not UTF-8, so an answer of either status means that there was none.

`FanOut_proofs`: `CompleteAtTheEnd`, for any set of jobs: a fan-out that is over
has all that its jobs gave and nothing else.  Its invariant is that a job that is
not open has everything it gave in the sum.

`MeteringFanout_proofs`, from `MeteringAssumption` (finitely many namespaces):

- `TypeCorrect`, `Bounded`, `AppendsKept`: `TypeOK`, `BoundedFanout`,
  `NothingLost`;
- `Implements`: `Spec` implies the specification of `FanOut`;
- `EndsComplete`: so `Complete` holds of it, by `CompleteAtTheEnd` of the instance of
  `FanOut_proofs` under the same mapping.

`PerfFanout_proofs`, from `PerfAssumption`:

- `TypeCorrect`, `Isolated`, `FailsOnlyEmpty`: `TypeOK`, `FailureIsolated`,
  `FailsWithNothing`;
- `CollisionsOnlyOfRows`: `CollisionNeedsRepeatedRow`, for any number of rows;
- `Implements` and `EndsComplete`, as above.

Both rest on the mutex: a goroutine that has read the slice still has it as it is
(`SliceFresh`), so that the slice is exactly what the goroutines past their append
have put in (`SliceExact`).  Metering adds which namespaces have goroutines
(`Phases`), and counts those inside the semaphore with the theorems on
cardinality; perf adds which items each goroutine has appended (`Progress`) and
whose error is kept (`Errors`).  `CollisionsOnlyOfRows` rests on the lemma
`SeriesDistinct`: the series of two queries differ, an item 0 is alone, and two rows
with one series have one field (`Direction` and `Category` give no label twice) and,
for errors, one head.  `PerfAssumption` says that the rows of an answer are numbered.

`NodeStats_proofs`, from `NodeAssumption`:

- `TypeCorrect`, `InOrder`, `Isolated`: `TypeOK`, `ResultsInOrder`,
  `FailedNodeIsolated`, for any number of nodes;
- `Implements` and `EndsComplete`, over the indexes.

Its invariant: the nodes have the indexes of a slice (`Indexed`), a result is that of
its own node and in its own place once the goroutine is over (`Placed`), its error
flag is clear exactly when both requests have answered (`Flagged`), and what was
registered is what the results gave (`Published`).

`Conversions_proofs`, from `BodiesAssumption` and `FluxAssumption` (a JSON value has
one number at most, and none without a text; series, rows and columns are sequences;
the values are integers, and those of a counter are not negative, for a counter
counts; ranges are integers):

- `TypeCorrect`, `NoFalseValues`, `QuotasOnlyWhenSet`: `TypeOK`, `NoFalseValue`,
  `QuotaOnlyWhenSet`, for any set of bodies;
- `RowsAreFaithful`: `RowsFaithful`, for any number of series, rows, columns and cells;
- `MetricsOfAllRows`: `OneMetricOfAllRows`, for any number of results;
- `LiteralsDenoteRanges`, `RangesWithinLimit`: `LiteralDenotesRange`,
  `WithinFluxLimit`, for every integer range.

The invariant `Made` only says that the output is what the conversion gives; the
work is in the lemmas about the operators.  The loops need induction.  The
library's induction theorems cannot be used (they take an operator), but
well-foundedness of the natural numbers is a fact about sets: the lemma `Induction`
derives from it that a set with 0, and with `n + 1` whenever it has `n`, has every
number, and `LoopExists` that the function a loop defines exists.  Then `SumIsCount`
(a sum is the cardinality of the requests so far), `SeriesTraced` and `QueryTraced`
(the results so far are traced to the rows so far) are inductions over the rounds,
with `TracedBoth` for one sequence of results after another.  The bodies go by
`SeriesFaithful`: in a table no two rows have one series (`TablesDistinct`), so the
metrics of a series are those of its own field.  The literal goes by the units:
`Units` splits the seconds, and `PartsDenote` puts them together again in each of the
seven cases of parts that are left out.

Only model-checked: liveness under fairness (`EveryOperationReturns`,
`CollectorEnds`), which is outside the provers' reach, and the violations.

## 5. Where the code and its words disagree

1. `auth.go:15-17` promises that concurrent `Login`s log in once; each logs in
   again (`client_login`).  The program never does it.
2. After a signal `main` returns when `Shutdown` *begins* (`main.go:100`), so the
   process may end before the drain and the logouts README.md:91 promises
   (`exporter_exit`).
3. The loser of the creation race logs out under the request's context and drops
   the error (`main.go:175`): when the scraper hangs up between the login and the
   logout, the token `main.go:150-151` wants not to leak leaks (`exporter_loser`).
4. An unknown collector name given twice turns the scrape into a 500, against
   `probe.go:129-132` (`probe_unknown`).

Four more, which no violated run is about.  An unknown collector name that is not
valid UTF-8 (`collectors=cluster,%ff`) makes `MustNewConstMetric` panic
(`probe.go:157`), which aborts the request, against `probe.go:129-130`;
`UnknownPanics` is that step, and `AnsweredUnlessRefused` names it among the causes
of an aborted scrape.  `Shutdown` waits 10 s while a request
alone may take 30 s, so `logoutAll` may revoke the token of a running scrape,
against `main.go:82-83`; `ProbeKeepsItsToken` shows that it happens only when the
drain ran out of time.  The metering concurrency bounds one scrape, not the load
on the metering API as README.md:46 says (`metering.go:62` makes a channel per
call).  A node whose ping fails has its counters filled in, not zero as
`dtstats.go:16-17` says, which does no harm (`FailedNodeIsolated`).

And one that is as written but surprising: startup refuses a perf range over an
hour and accepts zero, negative ones and those under half a second, which give
Flux a window that is empty or lies ahead (`WithinFluxLimit`).

## 6. Not modelled

TLS, CA files, transport limits, the landing page, `/metrics`, logging and flag
parsing: wiring of libraries, without a state or an order of their own.  XML and
JSON syntax (an answer decodes or is a failure), the text of Flux queries and URL
paths.  Time, other than as timeouts that may happen; scrape durations.  The
numbers are small integers: precision, and the NaN and Inf that `ParseFloat`
accepts, are not told apart.  Durations are whole milliseconds.  The growth of the
client map has no bound in the code and none in a property.  The test doubles
under `obsclienttest` are not part of the program.

## 7. Plan

Order of the work, the most important behaviour first.  Done: 1 to 7.

1. `TokenSession`, `ObsClient`, refinement and its proofs.
2. `Exporter` on top of what `TokenSession` promises, and its proofs.
3. `ProbeRun`: the scrape, and its proofs; series that come twice.
4. `MeteringFanout`, `PerfFanout`, `NodeStats`: the fan-outs, and their proofs.
5. `Decoding`, `FluxRows`, `Conversions`: the computations, over bounded inputs for
   TLC and over all inputs in the proofs.
6. `FanOut`, which the three fan-outs implement, and its proof.
7. What the registry refuses: equal management IPs and repeated rows.
8. Left: the composition of `Exporter` over instances of `ObsClient` (two targets,
   the 30 s that `logoutAll` gives all of them together, scrapes that wait on
   `authMu` with a context that is done), and cancellation in the fan-outs.
