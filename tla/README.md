# nats-load-tester: TLA+ models, model checking and proofs

The load tester takes a configuration over HTTP, runs its load test specs one
after the other against NATS (publishers, consumers, JetStream streams), writes
statistics to a storage, and replaces the running configuration when a new one
arrives. It is a small program made of goroutines; what is hard in it is how
they hand over a lock, a channel, an error group and a few shared pointers.
This directory models that, checks it with TLC and proves its safety with TLAPS.

Paths below are relative to `src/`. `PROJECT.json` maps every definition to the
lines it stands for, lists the runs with their mutants, the hazards of the code
and the findings.

## 1. The system

| Component | Code | State | Operations | Model |
|---|---|---|---|---|
| Hot reload | `internal/loadtest/manager.go`, `utils.go`, `controlplane/handlers.go`, `cmd/load-tester/main.go` | `configChannel` (capacity 100), `Manager.mutex`, `lastConfigCancel`, the contexts, one worker goroutine per configuration | `POST /config`, `run`, `processConfig`, the deferred tear-down, signal, exit | `Manager`, `HotReload` |
| Control plane | `internal/controlplane` | the published `*config.Config` and `*stats.Collector` | `SetConfig`, `SetCollector`, GET handlers | part of `Manager`; GET /stats: `Collector` |
| Engine | `internal/engine/engine.go` | connection, errgroup, context, current spec | `Start`, `Stop`, `cleanup` | `Engine` |
| Publishers, ramp-up | `publisher.go`, `rampup.go` | `currentRate` (atomic), the ticker, `lastRate` | `Publisher.Start`, `SetRate`, `RampUpManager.Start` | `RampUp` (rates), `Engine` (sending), `Setup` (which there are) |
| Consumers | `consumer.go` | subscriptions, pull loops | create, handle, clean up | creation: `Setup`; the rest: `Engine` |
| Streams | `stream.go`, `utils.go` (backoff) | streams on the server | `SetupStreams`, `CleanupStreams`, `exponentialBackoff` | `Setup` stream by stream, `Engine` as one step |
| Collector | `internal/stats/collector.go` | counters, error and latency lists, current spec, ramp-up status | `SetConfig`, `Record*`, `CollectStats`, `WriteFailure`, `GetHistory` | `Collector`; under which spec a goroutine records: `Engine`; status: `RampUp` |
| File storage | `internal/stats/file_storage.go` | cache, file, file handle | `WriteStats`, `WriteFailure`, `Clear`, `Close`, loading | `FileStorage`, `StatsStore` |
| Badger storage | `internal/stats/badger_storage.go` | badger database | the same interface | `BadgerStorage`, inside `Collector` |
| Configuration | `internal/config/config.go` | the specification, multiplied in place | `Validate`, `Hash`, `Equals`, `ApplyMultipliers`, names and defaults of streams | `Config`, inside `Setup`; `Equals`: `Manager` |
| Command line, logger | `cmd/load-tester/main.go` | none | flags, start-up order | `Manager`'s `proc`, `Setup`'s mode |

### How the parts interact

* An HTTP handler decodes a configuration, compares it with the published one
  and sends it to `configChannel`, or gives up after 5 s when that is full.
* `Manager.run` receives it, cancels the configuration in force, locks
  `Manager.mutex` - which the *worker* of that configuration unlocks when its
  tear-down is over -, drains the channel to the newest configuration,
  publishes it, opens its storage and spawns a worker that now owns the lock.
* The worker calls `engine.Start` and `engine.Stop` per spec. `Start` makes an
  errgroup; collector loop, publishers, consumer clean-ups and ramp-up run in
  it, pull loops and subscription callbacks do not.
* Publishers and ramp-up share one atomic rate per publisher; all goroutines
  share the collector, which files everything under *its* current spec and
  writes to the configuration's storage, which the worker closes at the end.

### What is hard about it

The lock that changes owners; the pointers of the HTTP server, written by loop
and worker and read by handlers; cancellation that reaches a goroutine only
where it looks; a start that fails half-way; goroutines in no errgroup; an
atomic with two writers; a file rewritten in six steps, each of which can fail;
lists guarded by one mutex where they are filled and by another where they are
emptied; retries of calls whose answer was lost; numbers multiplied in place for
ever; a kill at any point. `PROJECT.json` lists these as hazards, each at its line.

### What makes each component correct

* Hot reload: a locked mutex has exactly one owner; one storage is open at a time;
  an engine writes only to an open storage; the server shows what runs; the loop
  waits only for a worker that was told to stop; the newest accepted configuration
  wins and none is forgotten.
* Engine: specs do not overlap; nothing is recorded under another spec or
  written to a closed storage; whoever outlives its spec was cancelled; goroutines
  are gone in the end, and streams and connections whose removal did not fail;
  `Stop` returns.
* Ramp-up: no publisher starts at rate zero; rates only grow, and reach the
  target; everyone ends on cancel.
* Storage: what was acknowledged is in the file; the file is never half a
  rewrite; a restart brings back what the file holds.
* Collector: an error is in one place - the list, one report, or dropped for
  the limits; the lists stay within the limits; recording panics in known cases
  only; the history of a spec is its own, complete and in order.
* Setup: a spec runs on streams made for it, and with all its consumers until its
  context is done; only what the server refused to delete is left; what Validate
  accepted has work to do and stays valid when it grows; its numbers panic in
  known cases only; a cancelled start ends.

## 2. Modules

Model modules hold state, actions and properties; `MC*` modules give constants
their values; `*Proofs` modules hold theorems about a component, `Induction` those
about numbers that several of them need. Definitions named as a
"Mutant of X" in their comment are altered copies of `X`; no specification uses
them, they show which slip in the code each property would catch.

**`Manager`** - A request stands for the one `*config.Config` its handler
decodes, and so names that configuration's context, storage, collector, engine
and worker. `chan`, `mutex`, `last` (whose `lastConfigCancel` it is), `mcfg`
(the local `cfg`), `srvConfig` and `srvCollector` are the code's variables;
`rpc`, `mpc`, `wpc` are control points. An action is the code between two
points where another goroutine can interfere: a channel operation, a lock, a
store to a shared pointer, an engine or storage call. `Equals` may answer
anything once `ApplyMultipliers` has changed the published object in place: the
handler hashes it without a lock. `engine.Start` is one step here that succeeds or
fails; a configuration that sets up streams or consumers (`CtxAware`) fails when
its context is done, a core NATS publisher never looks.

**`HotReload`** - What the manager promises: a queue of accepted configurations
from which only the newest is activated, and only when none is active. `Manager`
implements it: the queue is the channel, preceded by the loop's local
configuration while it waits and drains; a configuration is active from the end
of the drain until its worker has unlocked.

**`Engine`** - One configuration's engine over its specs, repeats included:
`connect`, `setConfig`, `group`, `streams`, `publishers`, `consumers`, `ramp` are
the steps of `Start`; `stop`, `wait`, `cleanup`, `closeConn` those of `Stop` and
`cleanup`. `gor[s][k]` is spec `s`'s goroutine of kind `k`; one of each kind
stands for all of them, since they differ only in what they send. A behaviour picks
one of `Environments` (JetStream, publishers and consumers or not, a network that
drops), so that one run covers them all; any step of `Start` may fail in each. A
deletion by `cleanup` may fail over any connection - the code only logs that - and a
publisher that finds a rate below 1, as a repeated spec may have, ends its whole
errgroup (`PublisherFails`). Five history variables say what happened on the way:
`misfiled`, what was recorded while the collector was at another spec; `late`, whose
statistics met a closed storage; `unwaited`, whose errgroup nobody waited for;
`undeleted`, whose streams could not be deleted; `forgotten`, whose connection was not
up when it was to be closed. The properties excuse a spec by what happened to that
very spec, not by what happened to another one. What consumers record is not followed.

**`RampUp`** - `Publisher.Start` and `RampUpManager.Start` step by step: each load
and store of `currentRate` is an action, and so is each turn of the loops over
the publishers. Progress is in percent, as the code's arithmetic ends up (the
comment at `collector.go:55` says 0.0-1.0; `currentProgress` yields percent).

**`FileStorage`**, **`StatsStore`** - A write updates the cache and then goes
through temp file, sync, close, rename, close of the old handle and reopen; each
may fail and the process may be killed in between. An entry is a model value;
which of them decode again is a constant (`Readable`): `Stats.Errors` is a
`[]error`, whose elements are encoded as objects that cannot be decoded into
the interface. `Loaded` is the scanner's loop over the lines, as a recursive
function of their number. `StatsStore` is the abstract store the file implements;
it says what a restart brings back without the loop (`IsReadPart`): a
subsequence of what was saved, of exactly the entries that decode.

**`BadgerStorage`**, **`Collector`** - The database is a set of entries keyed by
kind, spec and millisecond, read from the oldest key of one prefix; `Collector`
EXTENDS it, so that a history request is checked against what was collected.
`InOrder` is any list of the entries in which none precedes an older one, for
keys of one prefix sort by their millisecond; `Bytes` is the summing loop of `recordError`.
`writer` is the holder of `Collector.mu`; `recordError` and `RecordLatency` are two
steps each, between which a collection or `SetConfig` may truncate the list, because
they hold only `errorsMu` and `latencyMu`. Those are data races in Go. What the model
lets them do: the write of a recorder is based on the old or on the new list - so old
samples come back, above the new cap -, a cap is compared with before or after it
changed, a sample is lost, an index counted on the old list is out of range of the
new one. A slice header is taken to be read and written as a whole; torn headers are
not represented. `raced` records that an error's recorder overlapped such a call,
`overlap` which of them the `RecordLatency` under way, or else the last one, met; the
properties say what holds otherwise. `MaxLines` and `MaxBytes` are any integers, for
nothing validates them. A restart follows a new
configuration, a panic or a kill; the database survives all three (the operating
system going down is not modelled).

**`Config`**, **`Setup`** - `Config` has no state: what each `Validate` refuses and
fills in, `ApplyMultipliers` in a width (`IntMax`), the `nats.StreamConfig` and the
workers of a spec. `Setup` runs one accepted spec: `SetupStreams` stream by stream,
each call behind `exponentialBackoff`; consumers created concurrently; the run;
`CleanupStreams`; the multiplication and the next run. A call that fails may have
been carried out (`server' \in {server, ...}`): its answer was lost. A consumer that
gives up records its error first (`Fail`), which ends the process at pc "errorPanic"
unless max_lines is positive: with any other limit the collector's list stays empty
and counts as full. The data races of that recording are in `Collector`. A consumer
that has started drains its subscription as soon as
the engine's context is done (`ConsumerDrains`); `MayDrain` says when that can be: the
configuration is cancelled, or a publisher met a rate below 1. `Accepts` and `CanBind`
are what the code relies on in the server: the same stream configuration again is no
error, another one of that name or overlapping subjects is; a consumer needs the
stream of its name and one with its subject. `IsSpec` is what decoding a
JSON document guarantees: the fields of the Go structs, with integers of their
width; the assumption on the candidates says this of a document *before* `Validate`
fills in defaults, which is part of `Init`.

**How they fit together** - `Manager` takes `engine.Start` and a spec's run as one
step; `Engine` opens that step and takes `SetupStreams` and `CreateConsumers` as
one; `Setup` opens those. `Engine` takes a recording as one step and asks where
it goes; `Collector` opens the recording and `RampUp` the publisher that makes it.

## 3. Runs

`tlc -config MCManager_hotreload.cfg MCManager.tla` and so on. All finish within
two minutes, most within half of one.

| Run | Question | Instance | Answer |
|---|---|---|---|
| `manager_hotreload` | Is the hand-over safe, does it implement `HotReload`, and is every accepted configuration put in force or superseded? | 3 requests, 2 contents, one of which repeats and is not aware of its context | yes, 82,507 states |
| `manager_livelock` | The same, when the repeating content sets up streams? | 3 requests | **no** |
| `engine_lifecycle` | Do specs stay apart, does the configuration end, and what is left, whichever step of `Start` or `cleanup` fails? | 3 core NATS specs of publishers over a network that drops; 2 JetStream specs with publishers and consumers; 2 with consumers over a network that drops | yes, 386,740 states |
| `engine_overlap` | Do specs stay apart after a failed start? | 2 JetStream specs | **no** |
| `rampup_ramp` | Do rates grow to the target, start and end properly? | 2 publishers, targets 3 and 5, with and without ramp-up | yes |
| `rampup_fullrate` | Is the target rate reached without a ramp-up? | 2 publishers | **no** |
| `filestorage_store` | Does the file implement `StatsStore` under failures and kills? | 5 entries, 3 keys, 2 kept per key | yes, 75,560 states |
| `filestorage_restart` | Does a restart bring back all that the file holds? | the same | **no** |
| `collector_history` | Where are errors and latencies, what may panic, what does the history show? | an error of each kind of recorder, 2 specs, one with negative limits | yes, 533,244 states |
| `collector_panic` | Does recording an error without `log_limits` keep the process up? | the same, but one spec has no limits | **no** |
| `setup_repeat` | Is a spec set up, taken down and multiplied properly, whichever call fails? | 27 configurations, of which 16 are accepted, 3 attempts per call, 4 repetitions | yes, 56,649 states |
| `setup_valid` | Is a multiplied spec still valid? | half a consumer | **no** |

Bounds, and why they are enough:

* A request is used once, so the number of requests bounds the channel traffic.
  Three let one configuration run, one wait in the loop and one in the channel,
  which has room for two instead of 100: it fills, and the drain loop turns.
  Content B repeats for ever: the multiplied spec is one state (`mutated`), since
  only *that* it changed matters.
* Two specs suffice for one to meet its predecessor's goroutines, three for a
  failed one in between. `Engine` has no counter besides the spec. The environments
  differ in what can go wrong together: late publishers with drops, half-failed
  starts with all goroutines, and streams whose connection drops before `cleanup`.
* The targets 3 and 5 are no multiples of a percent, so shares round; `Elapses`
  contains an instant after the end, when the ticker is served late.
* Two entries kept per key and three written make trimming happen; three keys
  are both entry types of one hash and another hash.
* `Collector`: a behaviour has one of three budgets - all three errors at one
  instant; one error, three entries and a clock that passes the time to live;
  one error and four latencies -, because their product is out of reach and the
  lists do not share state. Sizes 2, 3 and 4 against 5 bytes make room for one,
  two or none; three samples are kept of four, two under sA. -1 stands for all limits
  that are not positive; the proofs take any. `LinesFactor` is 10 and `MostSamples`
  10000 in the code.
* `Setup`: `IntMax` = 7 stands for the widths, so a number overflows within the
  four repetitions; `Second` = 4 is the number of clock units in a second, which
  a doubled rate passes. Three attempts instead of five have a first, a middle
  and a last one. Two groups with different counts make the loops over groups
  and streams turn. Two of one prefix, which Validate accepts, share their names; with
  consumers a run of them never starts, in publish mode it does. Multipliers are 2,
  3/2, 3 and 1/2, the last one of consumers and of rates; multiplication of floats
  that are no such fractions rounds, which the model does not have.

`CHECK_DEADLOCK FALSE` where the system really stops: after the process has
exited (Manager), after the tear-down (Engine) and when all goroutines of the
group have ended (RampUp), and when a configuration is over or has panicked
(Setup). The storages can always be reopened, so their runs do check for
deadlock.

### Fairness

* Manager: the loop and each worker are weakly fair - goroutines that can run
  do. `CtxDone` is strongly fair: a repeating worker is again and again in a
  `select` between its context and its timer, and Go chooses among ready cases
  at random. HTTP callers and signals owe nothing.
* Engine: weakly fair worker and recordings, strongly fair ends of goroutines
  whose context is done, for the same reason. Stated for all goroutines
  together, which assumes less than the scheduler gives.
* RampUp: weakly fair goroutines; strongly fair the `ctx.Done()` case of a
  publisher and the timer of the ramp-up, both in a `select` with a ticker.
* Setup: weakly fair steps of `Start`, for nats.go gives every call a timeout; that
  a call ever succeeds is not assumed.

One timing assumption is made, in `RampUp`'s `TimersMayFire`: the timers of a
ramp-up fire a second or more after its start, by when every publisher has
entered its loop. Without a ramp-up no timer is involved and none is assumed
(`rampup_fullrate`).

### Findings

Each is a run that TLC finds violated; `PROJECT.json` quotes the document or
message it contradicts.

1. `manager_livelock` (`manager.go:194`): the repeat loop sees a cancelled context
   only if `engine.Start` succeeds. When `Start` itself fails on the context, it
   goes round for ever with the mutex held; no new configuration is loaded.
2. `engine_overlap` (`engine.go:81`): a start that fails half-way does not wait
   for its errgroup; its goroutines run into the next spec.
   `OnlyFailedStartsOverlap` is what holds instead.
3. `rampup_fullrate` (`publisher.go:77`): a publisher that starts after the
   ramp-up goroutine resets its rate to 1 for the whole test.
4. `filestorage_restart` (`file_storage.go:366`): entries with errors do not
   decode and are dropped at a restart.
5. `collector_panic` (`collector.go:139`): without `log_limits` the first error that
   is recorded panics. `Setup` shows one way there (`consumer.go:264`): a consumer
   that cannot start.
6. `setup_valid` (`config.go:486`): a multiplier below 1 takes a number to 0, and
   nothing validates the result.

Also seen while modelling, in the model but without a run of its own:

* A consumer outside the errgroup may record under the next spec; a failed
  connect is filed under the previous spec. A connection that is reconnecting at
  `cleanup` is never closed, and a stream whose deletion fails there is not tried
  again: `NothingIsLeft` says that this is all that can be left.
* `RecordLatency` does not hold the mutex of those who truncate `latencies`: it can
  exceed the new cap, or panic (`PanicsAreKnown` names the case). A negative
  `max_lines` is accepted and panics as 0 does.
* When a repetition takes the rate below 1, a publisher's error cancels the whole
  errgroup; the worker waits for the duration all the same.
* After one failed close of the old handle every later write to the file reports
  an error although the file is replaced.
* "No changes" is answered by comparing with what is published, while another
  configuration may wait to replace it; and a configuration whose storage could
  not be opened stays published (`EndedIsUnloaded` names the exception).
* One collection with an error empties the whole history of its spec in badger until
  it expires (`HistoryIsComplete`); a limit takes the oldest entries (`HistoryIsOwn`).
* `Validate` accepts a stream the server refuses: `discard_new_per_subject` without
  `discard`, or a subject without placeholder on several streams.
* README.md:78 documents `true` as the default of `discard_new_per_subject`, which is
  false (`config.go:624`), and README.md:132 `1.0` for `ramp_up_multiplier`, which has
  none: omitted, it is 0 and the first repetition has no ramp-up.
* Doubling the default rate makes the interval of the ticker 0 after enough
  repetitions, which panics (`SetupPanicsAreKnown`).

## 4. Proofs

`tlapm` on `ManagerProofs.tla`, `EngineProofs.tla`, `SetupProofs.tla`, `SetupRunProofs.tla`,
`CollectorProofs.tla`, `RampUpProofs.tla`, `FileStorageProofs.tla` and `Induction.tla`: every
obligation is proved, from the named assumptions on the constants in the modules
they extend (`ConstantsAssumption`, `EngineAssumption`, `SetupAssumption`,
`IntAssumption`, `BadgerAssumption`, `CollectorAssumption`, `RampUpAssumption`,
`FileAssumption`) and nothing else. Every safety property of the passing runs is
the subject of a theorem. TLC checked the inductive invariants on the runs'
instances before they were proved.

**`Induction`** - what the loops over lists need: a non-empty set of numbers has a
least element, so a set that holds 0 and with n also n + 1 holds all numbers, and
a recursive definition on 0..n has a solution. The library states induction for
an operator, which the provers cannot instantiate; for a *set* they can use it.
The proofs about `Loaded`, `Bytes` and `InOrder` rest on it.

**`ManagerProofs`** - for any requests, contents, number of specs and channel
capacity: `TypeOK`, `OneStorageOpen`, `EngineHasStorage`, `ServedIsConsistent`,
`RunningIsServed`, `WaitsOnlyForCancelled`, `EndedIsUnloaded`, `MutexHasOneOwner`
(stated beside its proof), and that `Spec` implements `HotReload` (`Refinement`). None
of the safety invariants is inductive alone: that two storages are never open says
nothing about who holds the lock. The strengthening `IInv` adds

* `MutexInv`: in its critical section the loop holds the mutex and no worker is
  alive; a live worker holds it; at most one is alive. This is the ownership
  that `sync.Mutex` does not record.
* `LoopInv`: what the loop's local and `lastConfigCancel` are in its steps.
* `StorageInv`, `EngineInv`, `ServerInv`: storage, engine and published pointers
  as functions of who is where.
* `CancelInv`: `lastConfigCancel` is the live worker's.
* `OwnerInv`, for `MutexHasOneOwner`: a locked mutex has an owner. `MutexInv` alone would
  allow one that everybody forgot. Together with `WaitsOnlyForCancelled` it says whom
  a waiting loop waits for: one worker, which was told to stop.
* `QueueInv`, for `EndedIsUnloaded`: a request is in one place only - not yet sent,
  in the channel, in the loop's hands, with its worker - and none in the first
  three has a worker. Without it the loop might publish a configuration whose
  worker has already gone.

`LoopStep` and `WorkerStepParts` prove it step by step for the two goroutines,
`FrameStep` for what neither of them touches. The refinement maps every step to
a queue step or a stutter; the interesting one is `Unlock`, which retires the
configuration because `MutexInv` leaves no other live worker.

**`EngineProofs`** - for any list of specs, any mode and network: `TypeOK`,
`OnlyFailedStartsOverlap`, `NoLateWrite`, `StatsAreOwn`, `NothingIsLeft`, and
`LeftBehindIsCancelled`, which is stated beside its proof. What makes them inductive
is `GroupInv`: a live goroutine of an errgroup is of the spec at hand, of the group
`Stop` will wait for and of the spec the collector is at, unless its `Start` failed.
`PlaceInv` says what `Start` has assigned by each of its steps, `LeftInv` that an open
connection is the engine's or forgotten and that the streams are those of its spec or
failed to be deleted, `CancelInv` that every earlier spec's context is cancelled and that
the context of the spec at hand, once it has goroutines, is the one `e.cancel` cancels:
the safety half of `ConfigurationEnds` and `NoGoroutineLeak`. `WorkerGoroutines` and
`GoroutineStep` reduce every step to who it brings to life: the worker only goroutines of
the spec at hand, goroutines nobody.

**`SetupProofs`** - for any configurations as they decode (`IsSpec`), any
multipliers, number of attempts and answers of the server: `StopsCalling` and
`OnlyFailedAreLeft`. For the latter, `NamesInv` accounts for each name on the
server at each step: the deletion failed, or the clean-up has still to come to
it. `StillSpec` is what repetition needs: the numbers stay integers of their width,
so that the lists of a group are lists.

**`SetupRunProofs`** - under the same assumptions: `TypeOK`, `SetupPanicsAreKnown`,
`RepeatGrows`, `AcceptedHasWork`, `ReadyWhenRunning`. Two invariants carry them.

* `NumInv`: the repeated specification differs from the accepted one in its
  numbers only; as long as no product overflowed they are not negative, and those
  whose multiplier is at least one are no smaller than they were accepted.
  `ProductGrows` is the arithmetic behind it. Panics need a negative number or a rate
  above one message per nanosecond (`PanicCauses`), those in recording an error a
  `max_lines` that is not positive (`ErrorPanicCauses`).
* `RunInv`: how far `SetupStreams` has come (`TodoInv`: what is left is a suffix of
  the group's list), that every stream it has passed is on the server with its own
  configuration and of this run (`MadeInv`) and stays there, that a stream of the
  name being added is already the right one (`AddInv`: an attempt succeeded and
  its answer was lost), and that the subscribed consumers are those that started,
  or some of them once the engine's context may be done (`ConsumerInv`). Deletions
  spare what was made, and consumers are told apart, because names within a run are
  distinct when prefixes are.

**`CollectorProofs`** - for any errors, sizes, limits, times to live and budgets, all
seven invariants of its run.

* `PanicsAreKnown`: `errorsMu` makes the recorders take turns; the list a recorder
  has read only changes under `mu`, and whoever takes `mu` meanwhile notes the
  overlap (`SeenInv`). `SampleInv` says the same of `latencyMu`: what a `RecordLatency`
  read is what is there, if only collections came between, up to a truncation.
* `ReportedOnce` from `OnceInv`: without an overlap the list repeats no error, holds
  finished ones only, and is what the collection in progress copied.
* `WithinLimits` from `LimitsInv`. `ShortenStops` is the dropping loop: it ends at the
  first suffix that leaves room for the new error, or at the empty list; `Bytes` of
  it by induction. The samples' half is `SampleCap`: outside of `SetConfig` the cap is
  that of the specification, and only a `RecordLatency` that met a `SetConfig` may
  leave more samples behind.
* `PublishErrorsAreCounted` from `CountedInv`: the publish errors in the list or on
  their way to it (`Pub`) are no more than the counter. It needs the read lock of
  `RecordPublishError`, under which no collection comes between the two.
* `HistoryIsOwn`, `HistoryIsComplete` from `DbInv`: the database has one entry per key,
  and as collections exactly those that were stored. `WalkParts` says that a read
  lists the first of them that are not expired. That a finite set of entries
  can be listed in order is an induction on its size (`OrderExists`); that each is
  listed once, a surjection between sets of one size.

**`RampUpProofs`** - for any number of publishers, any targets and any clock:
`TypeOK`, `NoPublisherFails`, `RampUpReachesTarget`, `MonotoneRamp`. The
arithmetic lemmas show that `RateAt` lies between 1 and the target and grows with
the progress, so `SetRate` stores it unchanged; the invariant says that in a
ramp-up nobody is above the share of the moment, that whoever the last loop has
passed is at its target, and that once a timer has fired no publisher is left to
store its 1. `TimersMayFire` is where that last part comes from.

**`FileStorageProofs`** - for any entries, hashes, readable entries and number kept:
`AckedIsSaved`, that the file is only ever replaced by all that the cache holds,
`TypeOK`, and that the storage implements `StatsStore` (`StoreRefinement`). The
invariant follows the rewrite: the temp file is complete when it is renamed, the
file equals the cache from then until the call returns, and a clear or a restart
begins with an empty cache. For the refinement, a load is the interesting step:
`LoadedIsReadPart` shows by induction that the scanner's loop keeps the decodable
lines, each once and in order; nothing is trimmed on the way, because `TypeOK` says
that a file never holds more entries of a key than are kept.

`MutexHasOneOwner` and `LeftBehindIsCancelled` are proved and not listed in a run: they are
the safety half of liveness properties that the runs check.

Only model-checked are the liveness properties, each under its fairness:
`AcceptedIsHandled`, `ConfigurationEnds`, `NoGoroutineLeak`, `EventuallyFullRate`,
`StopReturns`, `StartEnds`. Their proofs would need ENABLED, which the prover does not
support. The violated properties are not theorems, of course.

## 5. Not modelled

* Stdout mode of the file storage: the cache is the same, the rest is output.
* GET /config and /healthcheck, router, middleware, graceful HTTP shutdown: they
  change no state.
* Message bytes, the jitter of the random pattern beyond its bounds, rates per
  second, latency statistics, the formatting of names and keys.
* The server: acknowledgements, redelivery, what a drain still delivers, consumers
  that exclude each other on a work queue. What badger promises of a crash of the
  operating system, or of reads under way while it closes.
* `Clear` and the `since` filter of badger: nothing calls them.
* Flags and logger construction.

## 6. Plan

1. Proofs: the safety half of the remaining liveness properties, as invariants that
   name who can move next where somebody waits; what remains true of a publisher's rate
   without a ramp-up, and of the list of errors where recorders overlap.
2. Composition: that `Manager`'s one-step `engine.Start` is what `Engine` does, as
   a refinement between two modules that both exist.
3. `BadgerStorage` and `FileStorage` as implementations of one interface: they keep
   different entries (a time to live and a count), so the common specification
   has to say what either may drop.
