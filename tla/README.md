# prometheus-cpp in TLA+

A verification development for prometheus-cpp: models of its components, runs of
TLC over small instances of them, and theorems that TLAPS proves for every
instance. `PROJECT.json` lists the runs, the mutants each property is tested
against, which lines of the source each definition stands for, the hazards and
the theorems.

## The system

A program creates metrics in a registry, changes them from any thread, and has
them scraped over HTTP (pull) or sends them to a push gateway (push).

| Component (source) | State | Operations | What is hard | What makes it correct |
|---|---|---|---|---|
| **Registry** (`core/src/registry.cc`) | five vectors of families, a mutex | `Add` (through `Builder::Register`), `Remove`, `Collect` | search, construction and insertion are apart; the constructor may throw in between; `Collect` holds the mutex while it takes those of the families | one family per name over all types; references stay good; nothing missing from a scrape; no deadlock |
| **Family** (`core/src/family.cc`) | map from label sets to metrics, a mutex | `Add`, `Remove`, `Has`, `Collect` | `Add` inserts first and validates afterwards; metrics are removed by address | one metric per label set, never replaced; a rejected metric is never scraped; series are unique |
| **Gauge**, **Counter** (`gauge.cc`, `counter.cc`) | one atomic double | `Set`, `Increment`, `Decrement`; `Increment`, `Reset` | compare-exchange loop before C++20 | no change lost or repeated; a counter falls only by a reset |
| **Info** (`info.cc`) | none | `Collect` | - | - |
| **Histogram** (`histogram.cc`) | a counter per bucket, a sum, a mutex | `Observe`, `ObserveMultiple`, `Reset`, `Collect` | several atomics that belong together; boundaries | a scrape is one consistent snapshot |
| **Summary**, **TimeWindowQuantiles** (`summary.cc`, `detail/time_window_quantiles.cc`) | count, sum, a ring of age buckets, a mutex | `Observe`, `Collect`; `rotate`, `insert`, `get` | the ring turns only when a call comes, and once per quantile | the window holds what is recent and nothing older than `max_age` |
| **CKMSQuantiles** (`detail/ckms_quantiles.cc`) | samples with ranks, a buffer of 500 | `insert`, `get`, `reset` | buffering and compression must keep every observation's weight and its place in the order | no observation lost, no rank overestimated, an answer is an observation |
| **TextSerializer** (`text_serializer.cc`) | none | `Serialize` | escaping, a last bucket that may or may not be +Inf, reserved labels | a reader gets the samples back; no series twice |
| **CheckNames, labels, Builder** | none | predicates, setters | reserved names per type | the naming rules |
| **MetricsHandler, MetricsCollector** (`pull/src/handler.cc`, `metrics_collector.cc`) | list of weak pointers, a mutex, its own three metrics | `RegisterCollectable`, `RemoveCollectable`, `handleGet` | collectables die at any time, even while they are collected; several workers scrape | nothing dead is collected; a scrape shows what is registered and alive; the dead do not pile up |
| **Exposer, Endpoint, BasicAuthHandler** (`pull/src`) | one endpoint per URI, a mutex; the handlers installed in the server | `RegisterCollectable`, `RemoveCollectable`, `RegisterAuth` | handlers are installed, replaced and removed under running requests | no handler destroyed while it can be used; no request past a guard that is set; one endpoint per URI |
| **Gateway, CurlWrapper** (`push/src`) | list of weak pointers with labels, a mutex; one curl handle, header list, a mutex | `Push`, `PushAdd`, `Delete`, their `Async` forms | late, lost and reordered requests; one refusal of several | a request goes out whole; a status is honest about each collectable; synchronous pushes keep their order |
| **LabelEncoder, Base64** | none | encode, decode | empty values, slashes, padding | two groups never share a path; what is decoded is what was encoded, and only that |

Interaction: `Exposer` -> `Endpoint` -> `MetricsHandler` -> `Collectable::Collect`
(usually a `Registry`) -> `Family::Collect` -> `T::Collect`, each level under its
own mutex and always in this direction; `Gateway` calls `Collectable::Collect`
under its own mutex. A `Registry` is owned by a `shared_ptr`, and both sides keep
`weak_ptr`s. Metrics are changed directly through references, without any of the
mutexes above them.

## Modules

| Module | Models | Runs |
|---|---|---|
| `Registry` | Registry, Family, and how they are composed | `MCRegistry`: `registry_merge`, `registry_throw` |
| `Gauge` | Gauge and Counter | `MCGauge`: `gauge` |
| `AtomicGauge` | what Gauge promises | refined by `Gauge` |
| `Histogram` | Histogram | `MCHistogram`: `histogram`, `histogram_intervals` |
| `AtomicHistogram` | what Histogram promises | refined by `Histogram` |
| `Summary` | Summary and TimeWindowQuantiles | `MCSummary`: `summary` |
| `MetricsHandler` | MetricsHandler and CollectMetrics, with weak and shared pointers | `MCMetricsHandler`: `metrics_handler` |
| `CollectableSet` | what MetricsHandler promises | refined by `MetricsHandler` |
| `Exposer` | Exposer, Endpoint, the installation of BasicAuthHandler | `MCExposer`: `exposer` |
| `Gateway` | Gateway and CurlWrapper, with a push gateway | `MCGateway`: `gateway` |
| `CKMSQuantiles` | CKMSQuantiles | `MCCKMSQuantiles`: `ckms`, `ckms_error` |
| `TextSerializer`, `CheckNames` | TextSerializer; CheckMetricName and CheckLabelName | `MCFormats`: `formats` |
| `LabelEncoder`, `Base64`, `BasicAuth` | encodeLabel and the URIs of Gateway; Base64; BasicAuthHandler | `MCFormats`: `formats` |
| `RegistryProofs`, `GaugeProofs`, `HistogramProofs`, `SummaryProofs`, `MetricsHandlerProofs`, `ExposerProofs`, `GatewayProofs`, `SequentialProofs` | the theorems | - |

**Steps.** An action is the code between two points at which another thread may
run and see the difference: taking a lock, one iteration of a loop over shared
data, one access to an atomic. `pc[t]` says where thread `t` is; `mutex` and
`fmutex` hold the owner of a lock, and a `lock_guard` appears as the guard
`...Locks`. An operation that reads and writes only under one lock and whose
intermediate states nobody can see is a single action (`RegistryRemoves`,
`FamilyRemoves`). An exception is an action, or a disjunct, that leaves what the
code leaves and releases what the guards release.

**Registry.** `families` are the five vectors, `family` and `metrics` the heap: an
address either holds an object or `Null`, and it can be used again after the
object is destroyed, as `Remove` compares addresses. `Registry::Add` is
`RegistryAddRejects` / `Merges` / `Finds` and `RegistryAddPushes`, `Family::Add` is
`FamilyAddFindsExisting` / `Emplaces` and `FamilyAddValidates`, `Collect` a loop of
five actions over both levels of locks. `registry.h` says that `Remove` invalidates
the references to the family, so `RegistryRemoves` waits until no call on it is in
progress (`NotInUse`) and takes the references away; that is a duty of the client
and an assumption of the model.

**Gauge.** Both builds of `Change` are behaviours of one specification: `fetchAdd`
is chosen in `Init`. A failed `compare_exchange_weak` stores the value it saw.
`type` chooses whether the object is used as a Gauge or as a Counter, which is a
Gauge behind two more guards. The initial value is 0 (`Gauge::Gauge(double)` could
give another one, to which the same would apply).

**Histogram.** `counts` and `sum` are changed in separate steps under the mutex, by
the thread that `pc`, `arg` and `pos` describe. A call takes effect, in the sense of
`AtomicHistogram`, when it gets the mutex: the mapping adds to the variables what
the owner of the mutex has still to do.

**Summary.** An observation is a number; a `CKMSQuantiles` is the set of
observations inserted since its last reset. `Tick` moves the steady clock between
any two steps. `ReadsClock`, `Rotates` (one turn of the loop), `ObserveInserts` and
`CollectGets` are `rotate`, `insert` and `get`; a Collect reads the clock once for
each quantile, as the code does.

**MetricsHandler.** `collectables` is the list of `weak_ptr`s, `strong[c]` the number of
`shared_ptr`s to `c`: its owner's, and one for each thread that has locked a
`weak_ptr` (`held`). `OwnerDrops` may come between any two steps, so that the last
`shared_ptr` may be a scrape's; `Release` then destroys the object. Registration and
removal are `RegisterLocks` or `RemoveLocks`, `Sweeps` for each candidate of
`remove_if` (a candidate may die in between), and `RegisterPushes` or `RemoveErases`.
The temporary `shared_ptr` with which the predicate of a removal compares a candidate
(`handler.cc:139`) is left out: it lives for one comparison, and an owner that lets go
meanwhile only destroys its object a moment later.
`handleGet` is `ScrapeLocks`, the loop of `CollectMetrics` (`VisitSkips`, or
`VisitLocks` and `CollectReturns`), `ScrapeAnswers`, and after the mutex is free
`ScrapeCounts` for each of the three metrics. The handler's own registry, which its
`Endpoint` registers, is the collectable `Own`; `CollectReadsOwn` reads its metrics
in the order of `Registry::Collect` (counters before summaries). `due`, `may` and
`recent` are history variables.

**Exposer.** `endpoint` and `auth` are the live objects, `handlers` and `authHandlers`
what the server has installed. A call is `CallFinds` (the lock and
`GetEndpointForUri`) or `CallBuilds`, `InstallsHandler` and `AppendsEndpoint` when there
is no endpoint yet; then `Registers`, `Removes`, or `CreatesAuth`, `InstallsAuth` and
`StoresAuth`, which destroys the handler that was there before. A request is
`RequestArrives`, `AuthorizeBegins` and `RequestPasses` or `RequestRefused` if there is a
BasicAuthHandler (`RequestUnguarded` if not), and `RequestServed`. From `AuthorizeBegins` on
the request is inside `authorize`, and in its end the user's callback
(`basic_auth.cc:62`), of the handler `asked[w]`; other steps may come before it returns,
and if one of them destroys the handler (`Destroyed`), `authorize` may return anything. The
destructor is `RemovesHandler`, `RemovesAuth` and `FreesEndpoint` for
each endpoint in turn. `ExposerBegins` gives the server to a new Exposer (the
constructor that takes a `CivetServer` allows this). What an endpoint exposes is the
set of `CollectableSet`, of which `MetricsHandler` is shown to be an implementation.
`accepted`, `valid` and `wanted` are history variables. A `RemoveCollectable` or
`RegisterAuth` for an unknown URI makes an endpoint, as in the code.

**Gateway.** `mutex` is the Gateway's, `curlMutex` the CurlWrapper's. A synchronous push is
`PushLocks`, for each entry `PushSkips`, or `PushCollects` and `PushGoesOn` or
`PushStops`, then `PushReturns`; an `AsyncPush` is `PushLocks`, `Spawns` for each entry,
`SpawnEnds`, and `FutureReady` when all its tasks have ended. `RequestBegins` sets the
options of the curl handle from the arguments and `RequestPerforms` lets libcurl make
a request of these options: the server takes it, refuses it, or is not heard of, in
which case it may take the request now or later (`late`, `ServerCatchesUp`). It takes a request
that it answers with a 2xx (`Took`); from one that it redirects it takes nothing, since
libcurl is not told to follow.
`Delete` takes no mutex but curl's. Push uses POST and PushAdd PUT. A collectable's
metrics are a version number.

**CKMSQuantiles.** The buffer, the sample list with `value`, `g` and `delta`, and
`count`. `Insert` and `Get` contain `insertBatch` and `compress` (`Flush`). Each loop is
a recursive function of how far it has come (`InsertAll`, `CompressUpTo`), and
`std::sort` puts one value after the other in its place (`Sorted`): the proofs follow
them step by step, which the folds and sorts of the community modules do not allow. The
error bound is computed in integers from rational quantiles: the code compares integers
with it, or takes its floor. `observed` is a history variable, the observations since
the reset in their order.

**The components without state** are operators with the source's names, and actions
that enumerate their inputs by letting them grow; `MCFormats` composes them one at a
time. `TextSerializer` gives the text as a sequence of tokens and `Read` is a reader
of the text format; its families are those whose names pass `CheckNames`. Gauges and
untyped metrics have the same lines as counters. `LabelEncoder` and `BasicAuth` work
byte by byte on `Base64`.

**External code.** `CivetServer` keeps one request handler and one authorization
handler per URI; a request keeps its request handler in use to its end, `addHandler` and
`removeHandler` wait for the requests that use the handler they replace and no new
request gets it meanwhile. Looking up the authorization handler and entering it is one
step, its return another. Whether `addAuthHandler` waits for the requests that are inside
the handler it replaces is left open: `waits` is chosen in `Init` and never changes, so
that the runs and the theorems are about both kinds of servers. CivetWeb's sources are not
in the repository (`MODULE.bazel` names version 1.16); these are what `Endpoint` relies
on when it replaces and destroys handlers. libcurl keeps the options of a handle until
`curl_easy_reset`. A push gateway applies a request to its group at one moment, POST
and PUT alike as far as the properties go. A program takes the answer of one future
before it makes its next call, and keeps the Gateway until its futures are ready.

**Abstractions.** Doubles are integers: rounding, NaN, infinities and fractional
bulk increments are left out (CKMSQuantiles is in exact rationals). Formatting and
memory exhaustion are left out. In `Registry` the invalid metric and label names are
given by two constants; that `le`
and `quantile` are reserved for histograms and summaries is modelled.

## What the runs show

- `registry_merge`: 3 threads, 2 family and 2 metric addresses, seven requests (two
  label sets and two types for one name, and one for each way the constructor rejects:
  an invalid name, an invalid label, the label `quantile` for a summary) and
  three label sets, one of which is reserved for summaries. `TypeOK`: every family has
  passed the checks of its constructor, and an address without one owns neither
  metrics nor a mutex that is held; results are samples. No two families share a
  name (`NamesUnique`); references designate what was asked for
  (`HandlesDesignate`); nothing changes under an iterating scrape
  (`IteratorsValid`); a scrape shows neither a rejected metric (`CollectedValid`) nor
  two samples of one series (`SeriesUnique`), and all that was there when it began
  and was not removed (`NoSeriesMissed`); re-adding a label set never replaces a
  metric (`MetricsStable`). Two threads are needed for every race here, the third
  lets two writers meet a scrape; with two addresses a family can take the place of
  a removed one and the vectors can shift. Threads and addresses are symmetric.
- `registry_throw`: 2 threads, `InsertBehavior::Throw`. No family is handed out twice
  (`NeverSharedIfThrow`); every call that took a lock returns (`EveryCallReturns`),
  without symmetry, as liveness requires.
- `gauge`: 3 threads, amounts -1, 0 and 1, 4 calls, 1 spurious failure. Two
  competitors and a third that brings an old value back (ABA) fit into four calls.
  `RefinesAtomicGauge` says that no change is lost or repeated, `CounterMonotone`
  that a counter falls only to 0, `ChangeReturns` that the loop ends. The system may
  stop when the calls are used up, so deadlock is not checked.
- `histogram`: 2 threads, boundaries 0 and 2, values below, on and above them, bulks
  with a negative increment and of a wrong size, 2 observations between two resets.
  `AnswersExact` compares every answer with the history of observations;
  `RefinesAtomicHistogram` says that every call takes effect at one moment.
- `histogram_intervals` (a violation): `histogram.h` says that a bucket is the
  half-open interval [b_n, b_n+1). `Observe` uses `std::lower_bound`, and a value
  equal to a boundary is counted in the bucket that ends there, so that the
  intervals are open below and closed above. This is what the `le` label of the
  output means; it is the comment that is wrong.
- `summary`: 2 threads, 3 age buckets, `max_age` 6, 2 quantiles, a clock up to 9 (so
  that the ring wraps and catches up over several intervals at once) and 3
  observations. `KeepsRecent` and `ForgetsOld` bound the window from both sides:
  everything up to `(age_buckets - 1) * interval` old is in it, nothing older than
  `max_age`. `AnswersConsistent` says that count and sum are those of all
  observations and that the quantiles of one answer, which may come from different
  windows when the clock moves on, come from ever smaller ones.
  `EveryCallReturns` says that `rotate` catches up.

- `metrics_handler`: 2 clients, 2 workers, 2 collectables, 2 scrapes, 4 entries. A
  scrape never calls a destroyed object (`CollectsAlive`); what it shows of the
  handler's own metrics has no more scrapes than latencies (`ScrapesMeasured`); an
  expired entry has expired since the last registration (`StaleBounded`); and
  registered, live collectables behave as the set `CollectableSet`
  (`RefinesCollectableSet`): a removal, of an expired pointer too, takes away what it
  names and nothing else, and a scrape shows at least what was there from its beginning
  to its end and at most what was there at its beginning. Two workers are needed for
  `ScrapesMeasured`, two collectables for a removal that could hit the other one.
- `exposer`: 2 clients, 2 workers, 2 URIs, 2 passwords, 3 addresses for BasicAuthHandlers
  (two can be alive for one URI while one is replaced), servers that wait in
  `addAuthHandler` and servers that do not. `InstalledAlive`: the server
  never has a destroyed handler, no request runs in a destroyed MetricsHandler, nor, if
  the server waits, in a destroyed BasicAuthHandler. `GuardKept`, if the server waits: a
  request that arrives after `RegisterAuth` returned gets through only with credentials
  that are valid from then on, also while the handler is replaced or the Exposer destroyed.
  `ServesWhatIsRegistered`: the endpoint the server has for a URI exposes exactly what
  was registered for this URI, which fails if two clients can make two endpoints.
- `gateway`: 2 clients, 2 tasks, 2 collectables, a list of 2 entries, the statuses 202,
  302, 400 and an error of libcurl. A constraint splits the instance: one client with a
  list of two different collectables, which their owners may drop at any time, and a
  task for each, against a server that does not lag; or two clients with one entry and
  one task, a server that lags and an added header. The reduction of several answers
  needs no second client, and two calls that meet need no second entry; without the
  constraint there are far more states than can be searched. It leaves 1.2 million.
  `RequestsIntact`: what goes out is the caller's
  request, with every header and nothing from an earlier request. `AnswersHonest`: 200
  means that everything registered before the call and alive to its end was sent and
  that no response was an error, another status is that of a request of this call, and a
  synchronous push stops there; a push that forgets its second entry, or goes on where it
  should stop, is seen. `NeverOlder`: a synchronous push never puts a group back to older
  metrics.
- `ckms`: values 1 to 4, a buffer of 3, up to 8 observations between two resets, so
  that the buffer is flushed by both ways in every order, with the greatest and the
  median with an error, with two quantiles whose errors stay below 1, and with three
  without an error. `SamplesStandForAll`: no observation's weight is lost, no
  rank overestimated, the last sample is the greatest. `GetSound`: an answer is NaN or an
  observation, and quantiles are ordered while every error stays inside.
  `ExactWithoutError`: without tolerated error an answer is less than two ranks away.
- `ckms_error` (a violation): `summary.h` says that a quantile with error 0.1 is
  returned with 10 percent error. After 1, 2, 2, 2, 2, 2 the median can be 1, of rank 1
  where rank 3 is asked for. Nothing is merged there: `insertBatch` gives an observation
  that comes before others a delta of the whole error and one (`ckms_quantiles.cc:116`),
  and `get` allows half of it.
- `formats`: texts of up to 6 parts (families, metrics, labels, characters, points),
  paths of two labels with values of up to 3 bytes, tokens of up to 8 characters and
  credentials of up to 5 bytes. `ReadBack` and `SeriesWrittenOnce` are about the text:
  every part has its own escape or separator, and two of each suffice to mix them up.
  `LabelsRecovered`: the server reads the labels back from the path (the values `.` and
  `..`, which libcurl and servers take out of a path, are not among them). `CredentialsArrive`
  and `OnlyWholeTokens`: what a client encodes arrives, and what is decoded was a whole
  token. Three bytes are a group of base64, so that all three ends of an input occur.

Each property is also run against a mutant of the code, for example a lock left
out, a vector forgotten, `>` for `>=`, an observation inserted into the current
bucket only; TLC finds each violated.

**Fairness.** Liveness is stated for `Registry`, `Gauge` and `Summary`, where two levels
of locks, a retry loop or a catch-up loop could keep a call from returning. A thread
inside a call is scheduled again: `WF` on its next step. A thread that waits for the
mutex of a family gets it when it becomes free again and again (`SF` on
`CollectLocksFamily`): `std::mutex` does not promise this, but the waiting thread then
holds the registry's mutex, and the run shows that nothing else is assumed. No
thread is assumed to call anything, and the clock is not assumed to move. The other
concurrent modules take at most one mutex they can wait for at a time or, in
`Gateway`, always in the same order; their runs check that the system never deadlocks,
and no liveness is stated of them.

**Preconditions found.**
- `AgeAssumption` of `Summary`: the constructor divides `max_age` by `age_buckets` and
  does not check that the quotient is positive; if it is 0, `rotate` never ends and
  keeps the mutex.
- `Collect` of a client's Collectable runs under the mutex of the handler (or of the
  Gateway): it must not call that handler back.
- A help text has no line end, since `Serialize` does not escape it.
- The label names of a Gateway are not checked; one with a slash changes the path
  (`EncoderAssumption` of `LabelEncoder`).

**Seen, without a run of its own.** The comment at `check_names.cc:38` gives a regular
expression for metric names that allows names beginning with `__`, which
`nameStartsValid` rejects. The TYPE line of an info names the family without the
suffix `_info` that its sample has (`text_serializer.cc:101` and `:177`), so that the
sample is untyped to a reader.

`Endpoint::RegisterAuth` says that it creates, assigns and stores a handler apart "to avoid
a race-condition" when a handler is replaced (`endpoint.cc:35`). This keeps new requests
out of the old handler. A request that is inside it, in the user's callback, is
kept from running in a destroyed object only by a server whose `addAuthHandler` waits;
if `InstalledAlive` is stated without `waits`, TLC finds a second RegisterAuth with
CreatesAuth, AuthorizeBegins of the request, InstallsAuth, StoresAuth. And `Gateway::push` counts every status from 100 to 399 as good
(`gateway.cc:135`): it returns 200 also when the server has redirected a request and taken
nothing, hence the words of `AnswersHonest`.

Two statements about `CKMSQuantiles` turned out to need a condition when they were to be
proved, and TLC finds what happens without it. If a quantile with its error reaches
beyond 1, the bound of `get` (`ckms_quantiles.cc:42`) can fall while the rank rises, and
the answers can be out of order: with 0.5±0.3, 0.7±0.7 and 1.0±0 and the observations
1, 1, 1, 1, 1, 2, 3, 3, with a scrape after each, the median is greater than that of 0.7; hence `ErrorsInside` in
`GetSound`. And a quantile of 0 or 1 with an error of 0 does not limit the error at
all, since 0/0 is not a number and no comparison with it holds (`:13`, `:78`): alone it lets
`compress` merge everything; hence the condition of `Errorless`.

## What is proved

With TLAPS, for any number of threads, addresses, boundaries, age buckets and
calls, from the named assumptions on the constants only:

- `RegistryProofs`: `TypeCorrect`, `NamesAreUnique`, `IteratorsAreValid`,
  `HandlesAreGood`. `TypeOK` alone is not inductive: `LockOwners` (a thread inside a
  critical section owns its mutex, and its arguments are there) makes its first part
  (`Types`) so. That an address without a family owns nothing needs in addition that a
  family somebody works in is alive and that only its users hold its mutex
  (`FamilyOwners`); `Sampled` says that what is gathered and what is owed are samples.
  `NamesUnique` needs `Contents`: the families in the vectors are alive and of the
  vector's type, and none has the name a thread that is constructing a family has
  searched for, which the mutex keeps true until the family is pushed.
  `IteratorsValid` and `HandlesDesignate` follow from the same invariants.
- There too, on top of these: `CollectedAreValid`, `SeriesAreUnique`,
  `NothingIsMissed`, `MetricsAreStable`, `NeverSharedWhenThrowing`. `Checked` says that
  the labels of every metric have passed the checks, except those of the metric that an
  `Add` has inserted and not checked yet; its thread holds the mutex of the family, so
  that no scrape is in there. `Order` and `Gathered` say that the families a scrape has
  still to visit are registered and come once each, and that each sample stems from the
  one visit to its metric: the concatenation of the five vectors has each family once
  (`CollectOrderElements`), and names are unique over all five, hence the series too.
  `Pending` says that what a scrape owes is gathered or still to be visited. The theorems
  take from `LabelsAreMaps` that a label set is a function on its names.
- `GaugeProofs`: `TypeCorrect`, `GaugeIsAtomic` (each step of either build is a step of
  `AtomicGauge` or changes nothing it sees), `CounterIsMonotone`.
- `HistogramProofs`: `TypeCorrect`, `HistogramIsAtomic`, `AnswersAreExact`. The invariant says who
  owns the mutex (`Owned`), what a call was given (`Args`), which counts a `Reset`
  has cleared (`Cleared`) and that the partial answer of a `Collect` has the counts
  as its differences (`Snapshot`). Then taking the lock is the abstract step, and
  each later step moves one piece from the mapping to the variables. `Tally` compares
  these mapped counts and the mapped sum with the history: each is the total, over the
  log, of what an observation puts there (`Weight`). A `Collect` that has the mutex
  therefore returns exactly what was observed. A total is a recursive function; that it
  has a solution, adds one more value (`TotalStep`) and commutes with sums
  (`TotalOfSum`) is proved by induction, from lemmas that come before.
- `SummaryProofs`: `TypeCorrect`, `RecentAreKept`, `OldAreForgotten`,
  `AnswersAreConsistent`. The invariant gives the contents of every age bucket:
  `Emptied(b)` is the time of the last turn of the ring less one interval for each
  turn since `b` was emptied, and `b` holds exactly what was observed after that
  (`Windows`). It needs that the ring is never ahead of the clock (`Turning`) and
  that no inserted observation is more than an interval ahead of the ring
  (`Logged`). For consistency, `Booked` says how far count and sum are ahead of the
  log, and `Seen` that what a Collect has seen contains every bucket. All products
  with the interval are reduced to one interval per turn.
- `MetricsHandlerProofs`: `TypeCorrect`, `CollectedAreAlive`, `StaleAreBounded`,
  `HandlerIsSet`, `ScrapesAreMeasured`, for any number of threads, collectables,
  entries and scrapes. `TypeCorrect` has, with the types, the two parts about the mutex
  and the counts that all others rest on. The only thread that can have a `shared_ptr` besides the owner
  is the one that holds the mutex (`Locked`), so that `strong[c]` is 1 for the owner
  and 1 for that thread (`Counted`), and what it calls is alive. For `HandlerIsSet` the
  invariant says, for a sweep, what it has kept and what it has dropped, and, for a
  scrape, that what is gathered so far and what is left of the list contain what was
  there throughout and nothing else. For `ScrapesAreMeasured` it counts: each worker
  between two of its three metrics is ahead by one in those it has changed, and a
  scrape has read the scrapes before the latencies.
- `ExposerProofs`: `TypeCorrect`, `UrisAreUnique`, `InstalledAreAlive`,
  `RequestsAreGuarded`, `RegisteredIsServed`, for any number of clients, workers and
  URIs, any number of Exposers one after the other, and servers that wait or not. The
  invariant has eight parts besides the types: who is inside a call or the destructor (`Places`) and with which
  endpoint (`Reaches`); the endpoints that are alive are those of the list and the one
  being built, one for each URI (`Listed`); the server has the handlers of these only,
  and those in use (`Installed`); each BasicAuthHandler belongs to one endpoint or to
  the call that made it, and the server has no other (`Owned`); what the server lets
  through is what the URI accepts or will accept when the call in progress returns, and
  each request in progress counts either as valid (`Guarded`); the handler that a request
  is inside is the one the server has, if the server waits (`Asking`); an endpoint exposes what
  is wanted of it (`Wanted`). `GuardKept` needs all of them but the last: a handler that
  is replaced is destroyed only after the server has the new one because `Owned` tells
  them apart.
- `GatewayProofs`: `TypeCorrect`, `RequestsAreIntact`, `PushesAreOrdered`,
  `AnswersAreHonest`, for any number of clients, tasks, collectables and late requests, and any statuses. `Handled` says that the
  options of the handle are those of the process that has its mutex. For the order,
  `Places` says that a push keeps the mutex to its end, and `Dated` that no body in the
  store, under way or late is ahead of its collectable, and that what a synchronous push is
  about to send is as new as all of them: it was the newest when it was collected, and
  nobody else can collect until the mutex is free. It does not matter who is late then.
  `TypeCorrect` types every variable: that the requests under way and those heard of late
  have a path, a method and a body of this Gateway follows from who is making one
  (`Asked`) and from the options of the handle (`Handled`).
  For `AnswersAreHonest`, `Promise` says of each call in progress that every entry that
  was registered when it began and is still alive has been sent, has a task, or is still
  to come (`Covered`), and that no response so far was an error. What
  `CleanupStalePointers` and `reduceFutures` do to sequences of any length, `CleanedUp`
  and `ReducedIsHonest` say.
- `SequentialProofs`, formats: `DecodesWhatWasEncoded`, `CredentialsAreKept`, `TokensAreWhole`,
  `LabelsComeBack`, `GroupsAreApart`, `LabelsAreRecovered`, for inputs of any length and any
  bytes. Three bytes and the four sextets of a group determine each
  other (`ThreeBytes`), the decoder counts the characters before the padding
  (`GroupComesBack`), the groups of an output are those of the input (`SameGroups`); so
  what was encoded comes back. `Split` cuts it at its first colon. The invariant of the
  handler is that the header is a token or what a client made, and the answer the one to
  this header. `Accepted` says what a token looks like that is decoded, group by group.
  For the paths of the push gateway, `CutsPart` says that a server that reads character
  by character gets one segment more for each part that is added, since no part has a
  slash (`CleanIs`, `UrlSafeIs`), and `LabelComesBack` that two segments give the label
  back. Names are of letters, digits and underscores (`EncoderAssumption`), so that none
  ends like a marker.
- `SequentialProofs`, sketch: `SamplesStand`, `GetIsSound`, `GetIsExact`, for any targets,
  any size of the buffer, any integer values and any number of observations. The invariant
  (`Holds`) says that the samples stand for `F[v]` observations up to `v`, which are those
  of the history without the buffer (`Remaining`): they are in order, the rank of each is
  at most `F` of its value, and the last has the weight and the value of all (`Stands`);
  where no error is tolerated, each weighs 1, its delta is at most 1 and fewer than its
  index are less (`Exact`), which is what the answers need and the rank bound alone does
  not give. `InsertionStands` follows one value through `lower_bound`, `CompressOneCondenses`
  one turn of `compress`: what comes out has for each sample one of the old ones with its
  value and its rank (`Condenses`), so that no rank is overestimated whatever error is
  allowed. `BoundRises` is why answers are ordered: from a rank to the next the
  allowable error falls by two at most, also where a quantile's term changes from `u` to
  `v`, if quantile and error add up to at most 1.
- `SequentialProofs`, text: `TextReadsBack`, `SeriesAreOnce`, for any names, label
  values, numbers and timestamps and any number of families, metrics, labels and points.
  The invariant (`CollectedOk`) says what can be collected: families with distinct names
  that `CheckMetricName` lets in, labels that are apart and not reserved, points in the
  order of their bounds with +Inf last and as large as the count. Then the proof follows
  the reader: `Runs(r, s, q)` says that it gets from one state to another on a part of a
  line; `ValueRuns` that the escapes of a label value bring back the value, `LineRuns`
  that a line is read as the sample it was written for. `WrittenAs(t, Q)` says that the
  lines of a text are well formed and say the samples of `Q`, no other, and `Unique(t)`
  that no two of its lines say the same series; `WrittenThrough` takes both from lines to
  metrics, families and the whole text, since a line begins where the one before it ends
  (`LinesJoin`). Series of one metric differ in their suffix or in the label that
  the serializer adds (`SuffixesJoin`, `PointsApart`), those of one family in the other
  labels (`MetricsApart`), and those of two families in their names, unless one begins
  with the other (`OneIsPrefix`). Assumed are `TokenAssumption` (letters, digits and
  numbers are no separators, and a help text has no line end, which the code does not
  escape) and `BoundsAssumption` (bounds are distinct, and infinity is the last).

Some proofs are inductions over data: the totals of a log, the list of a Gateway after
`remove_if`, the reading of a path or of a line, the loops of `insertBatch` and `compress`. The induction theorems of the library
cannot be used for that, as they take an operator as a parameter. Each of these modules
proves the induction it needs from the one on well-founded relations, over sets: a set of
natural numbers that is not empty has a least element (`LeastNatural`).

Only model-checked, by TLC on the instances above, are `EveryCallReturns` (of `Registry`
and `Summary`) and `ChangeReturns`: liveness under fairness is beyond the prover.

## What is not modelled

- The compression of a response (`GZipCompress`, zlib) and the choice of the encoding:
  the content is the same.
- The digits, the locale and the precision of numbers; the layout of HTTP responses.
- The setters of `Builder` and the hash of labels, which change no shared state;
  `Registry` visits the entries of an `unordered_map` in every order.
- The constructors of `Gateway` that prepare user, password and timeout for libcurl.
  Without a timeout a request may last forever; the model lets it end or not.
- `SetupAdapter` and other build machinery; tests and benchmarks.
- CivetWeb, libcurl and the push gateway, beyond what "External code" says of them.

## Plan

Every component that keeps state is modelled, and every safety property that a run finds
to hold is proved. What could come next: the initialization of CurlWrapper and the
constructors that prepare user, password and timeout, with the failures of libcurl; a `Gateway` that is destroyed while futures are outstanding, which is
now a duty of its user.
