------------------------------ MODULE Collector ------------------------------
(***************************************************************************)
(* stats.Collector over Badger storage.  Publisher, consumer and NATS      *)
(* callback goroutines record errors and latencies, the engine sets the    *)
(* specification, the collector goroutine collects, HTTP requests read the *)
(* history.  Collector.mu guards collections and SetConfig, but only some  *)
(* recorders take it: the errors and latencies have mutexes of their own,  *)
(* which collections and SetConfig do not take.  Collecting and recording  *)
(* are split where the two can overlap.                                    *)
(***************************************************************************)
EXTENDS BadgerStorage, FiniteSets

CONSTANTS Errs,        \* errors, each recorded by one call
          Via,         \* Via[e]: "publish", "consume" (RecordXError) or
                       \* "other" (RecordError, as the NATS handler calls it)
          Size,        \* Size[e]: the length of its message
          MaxLines, MaxBytes,   \* log_limits of each specification, which
                                \* nothing validates
          LinesFactor, MostSamples,  \* 10 and 10000: samples per line, cap
          NoSpec, NilError,    \* nil
          Budgets      \* bounds of a behaviour: the errors recorded, the
                       \* number of latencies, of entries and the clock

ASSUME CollectorAssumption ==
  /\ Via \in [Errs -> {"publish", "consume", "other"}]
  /\ Size \in [Errs -> Nat \ {0}]
  /\ MaxLines \in [Specs -> Int] /\ MaxBytes \in [Specs -> Int]
  /\ Budgets \subseteq [errs : SUBSET Errs, samples : Nat, entries : Nat,
                         clock : Nat]
  /\ {LinesFactor, MostSamples} \subseteq Nat \ {0}
  /\ NoSpec \notin Specs /\ NilError \notin Errs

VARIABLES
  spec,      \* loadTestSpec and its hash
  errors,    \* c.errors
  latencies, \* the length of c.latencies
  maxSamples, \* c.maxLatencySamples
  sampling,  \* {} or what the RecordLatency under way read: length and cap
  counts,    \* the four counters are alike; the two of errors are kept
  writer,    \* who holds mu: "none", "reset" (SetConfig), "copy", "trunc"
             \* or "store" (CollectStats)
  report,    \* the Stats under construction
  rpc,       \* per error: "new", "counted", "recording", "done"
  seen,      \* per recording error: c.errors as it was read
  process,   \* "up", or why it panicked: "noSpec", "noLines", "race", "samples"
  \* history variables
  raced,     \* a recorder without mu overlapped a collection or SetConfig
  overlap,   \* the calls that the RecordLatency under way, or else the last
             \* one, overlapped: "collect", "config"
  ends,      \* per error: how often it was reported or dropped
  collected, \* <<spec, ms>> of the collections that were stored
  recorded,  \* RecordLatency calls
  budget     \* the bounds of this behaviour

samples == <<latencies, maxSamples, sampling, overlap>>
collector == <<spec, errors, samples, counts, writer, report, rpc, seen,
               raced, ends, recorded, budget>>
vars == <<badger, collector, process, collected>>

NoReport == [errors |-> <<>>, counts |-> [publish |-> 0, consume |-> 0],
             length |-> 0]

Fresh ==
  /\ spec = NoSpec /\ errors = <<>>
  /\ latencies = 0 /\ maxSamples = MostSamples
  /\ counts = NoReport.counts /\ writer = "none" /\ report = NoReport

Init ==
  /\ db = {} /\ isOpen = TRUE /\ clock = 0
  /\ Fresh
  /\ rpc = [e \in Errs |-> "new"] /\ seen = [e \in Errs |-> <<>>]
  /\ process = "up" /\ raced = FALSE
  /\ sampling = {} /\ overlap = {}
  /\ ends = [e \in Errs |-> 0]
  /\ collected = {} /\ recorded = 0 /\ budget \in Budgets

TypeOK ==
  /\ spec \in Specs \cup {NoSpec}
  /\ errors \in Seq(Errs)
  /\ latencies \in 0..MostSamples /\ maxSamples \in 1..MostSamples
  /\ sampling \subseteq [length : 0..MostSamples, cap : 1..MostSamples]
  /\ overlap \subseteq {"collect", "config"}
  /\ writer \in {"none", "reset", "copy", "trunc", "store"}
  /\ rpc \in [Errs -> {"new", "counted", "recording", "done"}]
  /\ process \in {"up", "noSpec", "noLines", "race", "samples"}
  /\ \A e \in db : e.type \in Types /\ e.spec \in Specs /\ e.ms \in 0..clock

Running == process = "up"

-----------------------------------------------------------------------------
(* The two locks.                                                          *)

\* Mutant of ReadLocked: RecordPublishError gives mu back after counting.
OnlyCounting(e) == FALSE

\* RecordPublishError holds mu for reading until it returns.
ReadLocked(e) == Via[e] = "publish" /\ rpc[e] \in {"counted", "recording"}

MuFree == writer = "none"

CanLock == MuFree /\ \A e \in Errs : ~ReadLocked(e)

\* Mutant of ErrorsMuFree: recordError does not take errorsMu.
ErrorsMuIgnored == TRUE

ErrorsMuFree == \A e \in Errs : rpc[e] # "recording"

\* mu is held for writing where c.errors is used.
Window == writer \in {"reset", "copy", "trunc"}

-----------------------------------------------------------------------------
(* Recording errors.                                                       *)

\* currentSize.
Bytes(s) ==
  LET total[n \in 0..Len(s)] == IF n = 0 THEN 0 ELSE total[n - 1] + Size[s[n]]
  IN total[Len(s)]

Suffix(s, i) == SubSeq(s, i, Len(s))

\* Mutant of Shorten: the size of the new error is forgotten.
ShortenIgnoringNew(s, e) ==
  Suffix(s, CHOOSE i \in 1..Len(s) + 1 :
              /\ Bytes(Suffix(s, i)) <= MaxBytes[spec] \/ i = Len(s) + 1
              /\ \A j \in 1..i - 1 : Bytes(Suffix(s, j)) > MaxBytes[spec])

\* The oldest errors go until the new one fits or none is left.
Shorten(s, e) ==
  Suffix(s, CHOOSE i \in 1..Len(s) + 1 :
              /\ Bytes(Suffix(s, i)) + Size[e] <= MaxBytes[spec] \/ i = Len(s) + 1
              /\ \A j \in 1..i - 1 :
                   Bytes(Suffix(s, j)) + Size[e] > MaxBytes[spec])

Full(s) == Len(s) >= MaxLines[spec]

\* The list after recordError, unless Full(s) with s empty: then it panics.
Recorded(s, e) == Append(Shorten(IF Full(s) THEN Tail(s) ELSE s, e), e)

\* The counters of RecordPublishError and RecordConsumeError.
Count(e) ==
  /\ Running /\ rpc[e] = "new" /\ Via[e] # "other" /\ spec # NoSpec
  /\ MuFree
  /\ counts' = [counts EXCEPT ![Via[e]] = @ + 1]
  /\ rpc' = [rpc EXCEPT ![e] = "counted"]
  /\ UNCHANGED <<badger, spec, errors, samples, writer, report, seen,
                 process, raced, ends, collected, recorded, budget>>

\* recordError has errorsMu and reads c.errors.  The NATS error handler can
\* get here before the first SetConfig.
RecordBegin(e) ==
  /\ Running
  /\ rpc[e] = IF Via[e] = "other" THEN "new" ELSE "counted"
  /\ ErrorsMuFree
  /\ IF spec = NoSpec
       THEN process' = "noSpec" /\ UNCHANGED <<rpc, seen, raced>>
       ELSE /\ rpc' = [rpc EXCEPT ![e] = "recording"]
            /\ seen' = [seen EXCEPT ![e] = errors]
            /\ raced' = (raced \/ Window)
            /\ UNCHANGED process
  /\ UNCHANGED <<badger, spec, errors, samples, counts, writer, report,
                 ends, collected, recorded, budget>>

\* It writes c.errors back.  When a collection truncated the list meanwhile,
\* the write is based on the old list, or on the new one, or an index is out
\* of range.
RecordEnd(e) ==
  /\ Running /\ rpc[e] = "recording"
  /\ \E base \in {seen[e], errors} :
       IF base = <<>> /\ Full(base)
         THEN /\ process' = IF errors = seen[e] THEN "noLines" ELSE "race"
              /\ UNCHANGED <<errors, rpc, ends, seen>>
         ELSE /\ errors' = Recorded(base, e)
              /\ rpc' = [rpc EXCEPT ![e] = "done"]
              /\ seen' = [seen EXCEPT ![e] = <<>>]
              /\ ends' = [d \in Errs |->
                   IF d \in ToSet(base) /\ d \notin ToSet(errors')
                     THEN ends[d] + 1 ELSE ends[d]]
              /\ UNCHANGED process
  /\ UNCHANGED <<badger, spec, samples, counts, writer, report,
                 raced, collected, recorded, budget>>

IndexOutOfRange(e) ==
  /\ Running /\ rpc[e] = "recording"
  /\ seen[e] # errors
  /\ process' = "race"
  /\ UNCHANGED <<badger, collector, collected>>

-----------------------------------------------------------------------------
(* Recording latencies.                                                    *)

MinOf(a, b) == IF a < b THEN a ELSE b

\* What SetConfig computes for c.maxLatencySamples.
LatencyCap ==
  IF MaxLines[spec] > 0 THEN MinOf(MaxLines[spec] * LinesFactor, MostSamples)
                        ELSE MostSamples

\* Mutant of NewestSamples: the overflow is counted before the append.
NewestSamplesLate(n, cap) == IF n > cap + 1 THEN cap ELSE n

NewestSamples(n, cap) == IF n > cap THEN cap ELSE n

\* RecordLatency has latencyMu, and reads c.latencies and the cap.
LatencyBegin ==
  /\ Running /\ spec # NoSpec /\ recorded < budget.samples
  /\ sampling = {}
  /\ recorded' = recorded + 1
  /\ sampling' = {[length |-> latencies, cap |-> maxSamples]}
  /\ overlap' = IF writer = "reset" THEN {"config"} ELSE {}
  /\ UNCHANGED <<badger, spec, errors, latencies, maxSamples, counts, writer,
                 report, rpc, seen, process, raced, ends, collected, budget>>

\* The caps it may compare with: SetConfig first stores the largest one.
Caps(read) ==
  {read.cap, maxSamples} \cup (IF "config" \in overlap THEN {MostSamples} ELSE {})

\* It writes c.latencies back, based on the list it read or on the one that is
\* there; a truncation meanwhile may also come last, and the sample is lost.
LatencyEnd ==
  /\ Running
  /\ \E read \in sampling :
       \/ \E length \in {read.length, latencies}, cap \in Caps(read) :
            latencies' = NewestSamples(length + 1, cap)
       \/ overlap # {} /\ UNCHANGED latencies
  /\ sampling' = {}
  /\ UNCHANGED <<badger, spec, errors, maxSamples, counts, writer, report, rpc,
                 seen, process, raced, overlap, ends, collected, recorded,
                 budget>>

\* It counts the overflow of the list it read and slices a shorter one.
SampleOutOfRange ==
  /\ Running
  /\ \E read \in sampling : \E cap \in Caps(read) :
       read.length + 1 - cap > latencies
  /\ process' = "samples"
  /\ UNCHANGED <<badger, collector, collected>>

\* A call that truncates c.latencies overlaps the RecordLatency under way.
Overlapped(call) == overlap' = IF sampling = {} THEN {} ELSE overlap \cup {call}

-----------------------------------------------------------------------------
(* SetConfig, CollectStats and the history.                                *)

\* Errors in the list vanish with SetConfig; so do latencies and counts.  The
\* cap on samples is the largest one in between.
SetConfigBegin(s) ==
  /\ Running /\ CanLock
  /\ spec' = s
  /\ counts' = NoReport.counts
  /\ latencies' = 0 /\ maxSamples' = MostSamples
  /\ Overlapped("config")
  /\ writer' = "reset"
  /\ raced' = (raced \/ ~ErrorsMuFree)
  /\ UNCHANGED <<badger, errors, sampling, report, rpc, seen, process, ends,
                 collected, recorded, budget>>

SetConfigEnd ==
  /\ Running /\ writer = "reset"
  /\ errors' = <<>> /\ maxSamples' = LatencyCap
  /\ writer' = "none"
  /\ ends' = [e \in Errs |-> IF e \in ToSet(errors)
                               THEN ends[e] + 1 ELSE ends[e]]
  /\ UNCHANGED <<badger, spec, latencies, sampling, overlap, counts, report, rpc,
                 seen, process, raced, collected, recorded, budget>>

\* CollectStats, which the collector goroutine calls at every tick and when
\* its context ends: the counters, the latencies, and the length of errors.
CollectBegin ==
  /\ Running /\ CanLock /\ spec # NoSpec
  /\ writer' = "copy"
  /\ report' = [errors |-> <<>>, counts |-> counts, length |-> Len(errors)]
  /\ latencies' = 0 /\ Overlapped("collect")
  /\ raced' = (raced \/ ~ErrorsMuFree)
  /\ UNCHANGED <<badger, spec, errors, maxSamples, sampling, counts, rpc, seen,
                 process, ends, collected, recorded, budget>>

\* copy stops at the shorter of the two lists; the rest stays nil.
CollectCopy ==
  /\ Running /\ writer = "copy"
  /\ report' = [report EXCEPT !.errors =
                  [i \in 1..report.length |->
                     IF i <= Len(errors) THEN errors[i] ELSE NilError]]
  /\ writer' = "trunc"
  /\ UNCHANGED <<badger, spec, errors, samples, counts, rpc, seen, process,
                 raced, ends, collected, recorded, budget>>

\* Mutant of CollectTruncate: the errors are not truncated.
CollectOnly ==
  /\ Running /\ writer = "trunc"
  /\ writer' = "store"
  /\ ends' = [e \in Errs |-> IF e \in ToSet(report.errors)
                               THEN ends[e] + 1 ELSE ends[e]]
  /\ UNCHANGED <<badger, spec, errors, samples, counts, report, rpc, seen,
                 process, raced, collected, recorded, budget>>

CollectTruncate ==
  /\ Running /\ writer = "trunc"
  /\ errors' = <<>>
  /\ writer' = "store"
  /\ ends' = [e \in Errs |-> IF e \in ToSet(report.errors)
                               THEN ends[e] + 1 ELSE ends[e]]
  /\ UNCHANGED <<badger, spec, samples, counts, report, rpc, seen, process,
                 raced, collected, recorded, budget>>

\* A write to the storage, within the bound on entries.
Stored(e) == Put(e) /\ Cardinality(db') <= budget.entries

\* storage.WriteStats under mu.  A failed write is only logged.
CollectStore ==
  /\ Running /\ writer = "store"
  /\ writer' = "none"
  /\ \/ /\ Put([type |-> "stats", spec |-> spec, ms |-> clock,
                failed |-> ToSet(report.errors) \ {NilError} # {}])
        /\ collected' = collected \cup {<<spec, clock>>}
     \/ UNCHANGED <<badger, collected>>
  /\ report' = NoReport
  /\ UNCHANGED <<spec, errors, samples, counts, rpc, seen, process,
                 raced, ends, recorded, budget>>

\* The engine could not connect: filed under the specification of the last
\* SetConfig, dropped when there is none.
WriteFailure ==
  /\ Running /\ MuFree /\ spec # NoSpec
  /\ Stored([type |-> "failure", spec |-> spec, ms |-> clock, failed |-> TRUE])
  /\ UNCHANGED <<collector, process, collected>>

\* GET /stats: GetHistory under mu.  A read that fails is an empty history.
GetHistory(limit) ==
  LET found == Walk("stats", spec, limit)
  IN IF spec = NoSpec \/ found.failed THEN <<>> ELSE found.entries

-----------------------------------------------------------------------------
(* The life of the storage.                                                *)

Keep(A) == Running /\ A /\ UNCHANGED <<collector, process, collected>>

\* The worker closes the storage when its engine has stopped; requests that
\* still hold the collector read a closed storage.
CloseStorage == Keep(MuFree /\ Close)

\* The next configuration, or the program started again after a panic or a
\* kill, opens the database with a new collector; calls under way belong to
\* the old one.
Restart ==
  /\ Open
  /\ spec' = NoSpec /\ errors' = <<>>
  /\ latencies' = 0 /\ maxSamples' = MostSamples
  /\ sampling' = {} /\ overlap' = {}
  /\ counts' = NoReport.counts /\ writer' = "none" /\ report' = NoReport
  /\ rpc' = [e \in Errs |-> IF rpc[e] = "new" THEN "new" ELSE "done"]
  /\ seen' = [e \in Errs |-> <<>>]
  /\ ends' = [e \in Errs |-> IF rpc[e] = "new" THEN 0 ELSE 1]
  /\ process' = "up"
  /\ raced' = FALSE
  /\ UNCHANGED <<collected, recorded, budget>>

Time == Keep(clock < budget.clock /\ Elapse)

Next ==
  \/ \E e \in budget.errs : Count(e) \/ RecordBegin(e) \/ RecordEnd(e)
                       \/ IndexOutOfRange(e)
  \/ WriteFailure
  \/ LatencyBegin \/ LatencyEnd \/ SampleOutOfRange
  \/ \E s \in Specs : SetConfigBegin(s)
  \/ SetConfigEnd
  \/ CollectBegin \/ CollectCopy \/ CollectTruncate \/ CollectStore
  \/ CloseStorage \/ Restart \/ Time

Spec == Init /\ [][Next]_vars

-----------------------------------------------------------------------------
(* Properties.                                                             *)

\* As long as no recorder without mu overlapped a collection or SetConfig,
\* an error whose recording returned is in exactly one place: in the list,
\* or in one report, or dropped for the limits or the next specification.
ReportedOnce ==
  Running /\ ~raced =>
    \A e \in Errs : rpc[e] = "done" =>
      ends[e] + Cardinality({i \in 1..Len(errors) : errors[i] = e}) = 1

\* RecordPublishError counts and records under mu, so that a report never
\* lists more publish errors than it counts.  RecordConsumeError does not:
\* a SetConfig may come between.
PublishErrorsAreCounted ==
  writer \in {"trunc", "store"} /\ ~raced =>
    Cardinality({e \in ToSet(report.errors) \ {NilError} : Via[e] = "publish"})
      <= report.counts.publish

\* The lists stay within the limits of the specification, unless a recorder
\* overlapped a call that truncates them: for errors any such call up to now, for
\* samples a SetConfig during the last RecordLatency - the next one cuts the list
\* to the new cap, and a mere collection cannot raise it.  One error larger than
\* max_bytes is kept alone.
WithinLimits ==
  Running /\ MuFree /\ spec # NoSpec =>
    /\ ~raced => /\ Len(errors) <= MaxLines[spec] \/ errors = <<>>
                 /\ Bytes(errors) <= MaxBytes[spec] \/ Len(errors) <= 1
    /\ sampling = {} /\ "config" \notin overlap => latencies <= LatencyCap

\* Recording panics in four cases only: before the first SetConfig, without a
\* positive max_lines, when an error's recorder overlapped a truncation at some
\* time, or when this very RecordLatency did.
PanicsAreKnown ==
  /\ process = "noLines" => MaxLines[spec] <= 0
  /\ process = "race" => raced
  /\ process = "samples" => overlap # {}

\* README: log_limits may be omitted.  Recording an error on its behalf does
\* not bring the process down.
NoPanicOnError == process # "noLines"

\* The collections of the collector's own specification that are not expired.
Live == {c \in collected : c[1] = spec /\ clock < c[2] + TTL["stats"]}

\* An answer of GET /stats lists live collections in the order they were made
\* and skips none, so that a limit takes the oldest of them.
HistoryIsOwn ==
  Running /\ MuFree =>
    \A limit \in {-1, 0, 1} :
      LET h == GetHistory(limit)
      IN /\ limit = 0 \/ \A i \in 1..Len(h) : i <= limit
         /\ \A i \in 1..Len(h) : <<spec, h[i].ms>> \in Live
         /\ \A i, j \in 1..Len(h) : i < j => h[i].ms < h[j].ms
         /\ \A i \in 1..Len(h), c \in Live :
              c[2] < h[i].ms => \E j \in 1..Len(h) : h[j].ms = c[2]

\* While the storage is open, an answer without a limit lists every live
\* collection, those before a restart too - unless one of these reported an
\* error: then it is empty.
HistoryIsComplete ==
  Running /\ MuFree /\ isOpen /\ spec # NoSpec =>
    LET h == GetHistory(0)
    IN IF \E e \in db : /\ e.type = "stats" /\ e.spec = spec
                       /\ Alive(e) /\ e.failed
         THEN h = <<>>
         ELSE \A c \in Live : \E i \in 1..Len(h) : h[i].ms = c[2]
=============================================================================
