---------------------------- MODULE CollectorProofs ----------------------------
(***************************************************************************)
(* What becomes of a recorded error, for any errors, limits and budgets:   *)
(* which panics recording it can cause, that it is kept, reported or       *)
(* dropped once and within the limits, that reports count the publish      *)
(* errors they list, and that a history is what was collected.             *)
(***************************************************************************)
EXTENDS Collector, Induction, FiniteSetTheorems

\* errorsMu admits one recorder at a time, which has seen a specification.
RecorderInv ==
  /\ rpc \in [Errs -> {"new", "counted", "recording", "done"}]
  /\ spec \in Specs \cup {NoSpec} /\ budget.errs \subseteq Errs
  /\ \A e \in Errs : rpc[e] = "recording" => spec \in Specs
  /\ \A e, d \in Errs : rpc[e] = "recording" /\ rpc[d] = "recording" => e = d

\* While it is at it the list stays as it read it, but for a holder of mu; then
\* the overlap has been noted.
SeenInv ==
  /\ Window /\ ~ErrorsMuFree => raced
  /\ \A e \in Errs : rpc[e] = "recording" /\ seen[e] # errors => raced
  /\ seen \in [Errs -> {seen[e] : e \in Errs}]

IInv == RecorderInv /\ SeenInv /\ PanicsAreKnown

\* A RecordLatency that overlapped nothing finds what it read; one that only
\* overlapped collections finds its cap, and an empty list.  SetConfig overlaps
\* every one that runs while it holds mu.
SampleTypes ==
  /\ latencies \in 0..MostSamples /\ maxSamples \in 1..MostSamples
  /\ sampling \subseteq [length : 0..MostSamples, cap : 1..MostSamples]
  /\ overlap \subseteq {"collect", "config"}

SampleReads ==
  \A read \in sampling :
    /\ writer = "reset" => "config" \in overlap
    /\ "config" \notin overlap =>
         /\ read.cap = maxSamples
         /\ latencies = IF overlap = {} THEN read.length ELSE 0

SampleCap ==
  /\ writer = "reset" => spec # NoSpec
  /\ spec # NoSpec /\ writer # "reset" => maxSamples = LatencyCap
  /\ sampling = {} /\ "config" \notin overlap =>
       /\ latencies <= maxSamples
       /\ writer = "reset" => latencies = 0

SampleInv == SampleTypes /\ SampleReads /\ SampleCap

\* The three steps of RecordLatency.
Sampling == LatencyBegin \/ LatencyEnd \/ SampleOutOfRange

LEMMA SamplingLeaves ==
  ASSUME Sampling
  PROVE  UNCHANGED <<badger, spec, errors, counts, writer, report, rpc, seen,
                     raced, ends, collected, budget>>
BY DEF Sampling, LatencyBegin, LatencyEnd, SampleOutOfRange, collector

-----------------------------------------------------------------------------
\* The recorders come from errorsMu one after the other, and read a list that
\* is theirs until a collection takes it.
LEMMA RecordBeginStep ==
  ASSUME IInv, NEW e \in Errs, RecordBegin(e)
  PROVE  IInv'
<1>1. CASE spec = NoSpec
  BY <1>1
  DEF RecordBegin, IInv, RecorderInv, SeenInv, PanicsAreKnown, Window, ErrorsMuFree
<1>2. CASE spec # NoSpec
  <2>1. /\ rpc' = [rpc EXCEPT ![e] = "recording"]
        /\ seen' = [seen EXCEPT ![e] = errors]
        /\ raced' = (raced \/ Window)
        /\ \A d \in Errs : rpc[d] # "recording"
        /\ UNCHANGED <<spec, errors, writer, process, overlap, budget>>
    BY <1>2 DEF RecordBegin, ErrorsMuFree, samples
  <2>2. RecorderInv'
    BY <1>2, <2>1 DEF IInv, RecorderInv
  <2>3. /\ seen' \in [Errs -> {seen'[d] : d \in Errs}]
        /\ \A d \in Errs : rpc'[d] = "recording" => d = e /\ seen'[d] = errors
    BY <2>1 DEF IInv, RecorderInv, SeenInv
  <2>4. SeenInv'
    BY <2>1, <2>3 DEF SeenInv, Window
  <2>5. PanicsAreKnown'
    BY <2>1 DEF IInv, PanicsAreKnown
  <2> QED
    BY <2>2, <2>4, <2>5 DEF IInv
<1> QED
  BY <1>1, <1>2

\* A recorder that finds no room although there is nothing to drop panics: its
\* specification allows no line, or the list was truncated under its hands.
LEMMA RecordEndStep ==
  ASSUME IInv, NEW e \in Errs, RecordEnd(e)
  PROVE  IInv'
<1>1. PICK base \in {seen[e], errors} :
        IF base = <<>> /\ Full(base)
          THEN /\ process' = IF errors = seen[e] THEN "noLines" ELSE "race"
               /\ UNCHANGED <<errors, rpc, seen>>
          ELSE /\ errors' = Recorded(base, e)
               /\ rpc' = [rpc EXCEPT ![e] = "done"]
               /\ seen' = [seen EXCEPT ![e] = <<>>]
               /\ UNCHANGED process
  BY DEF RecordEnd
<1>2. /\ rpc[e] = "recording" /\ spec \in Specs
      /\ UNCHANGED <<spec, writer, raced, overlap, budget>>
  BY DEF RecordEnd, IInv, RecorderInv, samples
<1>3. CASE base = <<>> /\ Full(base)
  <2>1. MaxLines[spec] <= 0
    BY <1>2, <1>3, CollectorAssumption DEF Full
  <2>2. process' = "race" => raced
    BY <1>1, <1>2, <1>3 DEF IInv, SeenInv
  <2>3. process' \in {"noLines", "race"} /\ UNCHANGED <<errors, rpc, seen>>
    BY <1>1, <1>3
  <2>4. PanicsAreKnown'
    BY <1>2, <2>1, <2>2, <2>3 DEF PanicsAreKnown
  <2>5. RecorderInv' /\ SeenInv'
    BY <1>2, <2>3 DEF IInv, RecorderInv, SeenInv, Window, ErrorsMuFree
  <2> QED
    BY <2>4, <2>5 DEF IInv
<1>4. CASE ~(base = <<>> /\ Full(base))
  <2>1. /\ rpc' = [rpc EXCEPT ![e] = "done"] /\ UNCHANGED process
        /\ seen' = [seen EXCEPT ![e] = <<>>]
    BY <1>1, <1>4
  <2>2. \A d \in Errs : rpc'[d] # "recording"
    BY <1>2, <2>1 DEF IInv, RecorderInv
  <2>3. RecorderInv'
    BY <1>2, <2>1, <2>2 DEF IInv, RecorderInv
  <2>4. seen' \in [Errs -> {seen'[d] : d \in Errs}]
    BY <2>1 DEF IInv, SeenInv
  <2>5. SeenInv'
    BY <2>2, <2>4 DEF SeenInv, ErrorsMuFree
  <2>6. PanicsAreKnown'
    BY <1>2, <2>1 DEF IInv, PanicsAreKnown
  <2> QED
    BY <2>3, <2>5, <2>6 DEF IInv
<1> QED
  BY <1>3, <1>4

\* Every other step keeps the recorder at work as it is, or notes that it has
\* taken the list.
LEMMA NextStep == IInv /\ SampleInv /\ [Next]_vars => IInv'
<1> SUFFICES ASSUME IInv, SampleInv, [Next]_vars PROVE IInv'
  OBVIOUS
<1>1. CASE UNCHANGED <<spec, errors, writer, rpc, seen, process, raced, overlap,
                      budget>>
  BY <1>1 DEF IInv, RecorderInv, SeenInv, PanicsAreKnown, Window, ErrorsMuFree
<1>2. ASSUME NEW e \in Errs, Count(e)
      PROVE  IInv'
  <2>1. /\ rpc' = [rpc EXCEPT ![e] = "counted"] /\ rpc[e] = "new"
        /\ UNCHANGED <<spec, errors, writer, seen, process, raced, overlap, budget>>
    BY <1>2 DEF Count, samples
  <2>2. \A d \in Errs : rpc'[d] = "recording" <=> rpc[d] = "recording"
    BY <2>1 DEF IInv, RecorderInv
  <2>3. rpc' \in [Errs -> {"new", "counted", "recording", "done"}]
    BY <2>1 DEF IInv, RecorderInv
  <2> QED
    BY <2>1, <2>2, <2>3
    DEF IInv, RecorderInv, SeenInv, PanicsAreKnown, Window, ErrorsMuFree
<1>3. ASSUME NEW e \in Errs, IndexOutOfRange(e)
      PROVE  IInv'
  <2>1. raced /\ process' = "race" /\ UNCHANGED collector
    BY <1>3 DEF IndexOutOfRange, IInv, SeenInv
  <2> QED
    BY <2>1
    DEF collector, samples, IInv, RecorderInv, SeenInv, PanicsAreKnown, Window,
        ErrorsMuFree
<1>4. CASE \E s \in Specs : SetConfigBegin(s)
  BY <1>4
  DEF SetConfigBegin, IInv, RecorderInv, SeenInv, PanicsAreKnown, Running, Window,
      ErrorsMuFree
<1>5. CASE SetConfigEnd \/ CollectTruncate
  BY <1>5
  DEF SetConfigEnd, CollectTruncate, IInv, RecorderInv, SeenInv, PanicsAreKnown,
      Running, Window, ErrorsMuFree
<1>6. CASE CollectBegin
  BY <1>6
  DEF CollectBegin, IInv, RecorderInv, SeenInv, PanicsAreKnown, Running, Window,
      ErrorsMuFree
<1>7. CASE CollectCopy \/ CollectStore
  BY <1>7
  DEF CollectCopy, CollectStore, IInv, RecorderInv, SeenInv, PanicsAreKnown, Running,
      Window, ErrorsMuFree
<1>8. CASE WriteFailure \/ CloseStorage \/ Time \/ UNCHANGED vars
  BY <1>1, <1>8
  DEF WriteFailure, CloseStorage, Time, Keep, collector, samples, vars
<1>12. CASE Sampling
  <2>1. PanicsAreKnown'
    <3>1. CASE LatencyBegin \/ LatencyEnd
      BY <3>1 DEF LatencyBegin, LatencyEnd, PanicsAreKnown, Running
    <3>2. CASE SampleOutOfRange
      <4>1. PICK read \in sampling :
              \E cap \in Caps(read) : read.length + 1 - cap > latencies
        BY <3>2 DEF SampleOutOfRange
      <4>2. overlap = {} => Caps(read) = {maxSamples} /\ latencies = read.length
        BY <4>1 DEF SampleInv, SampleReads, Caps
      <4>3. overlap # {}
        BY <4>1, <4>2 DEF SampleInv, SampleTypes
      <4> QED
        BY <3>2, <4>3 DEF SampleOutOfRange, collector, samples, PanicsAreKnown
    <3> QED
      BY <1>12, <3>1, <3>2 DEF Sampling
  <2>2. UNCHANGED <<spec, errors, writer, rpc, seen, raced, budget>>
    BY <1>12, SamplingLeaves
  <2> QED
    BY <2>1, <2>2 DEF IInv, RecorderInv, SeenInv, Window, ErrorsMuFree
<1>9. CASE Restart
  <2>1. /\ spec' = NoSpec /\ process' = "up"
        /\ rpc' = [e \in Errs |-> IF rpc[e] = "new" THEN "new" ELSE "done"]
        /\ seen' = [e \in Errs |-> <<>>]
        /\ UNCHANGED budget
    BY <1>9 DEF Restart
  <2>2. seen' \in [Errs -> {seen'[d] : d \in Errs}]
    BY <2>1
  <2> QED
    BY <2>1, <2>2 DEF IInv, RecorderInv, SeenInv, PanicsAreKnown, ErrorsMuFree
<1>10. ASSUME NEW e \in Errs, Count(e) \/ RecordBegin(e) \/ RecordEnd(e)
                                \/ IndexOutOfRange(e)
       PROVE  IInv'
  BY <1>2, <1>3, <1>10, RecordBeginStep, RecordEndStep
<1>11. CASE \E e \in budget.errs : Count(e) \/ RecordBegin(e) \/ RecordEnd(e)
                                     \/ IndexOutOfRange(e)
  BY <1>10, <1>11 DEF IInv, RecorderInv
<1> QED
  BY <1>4, <1>5, <1>6, <1>7, <1>8, <1>9, <1>11, <1>12 DEF Next, Sampling

\* The cap on samples admits one at least, whatever max_lines is.
LEMMA CapRange ==
  ASSUME spec \in Specs
  PROVE  LatencyCap \in 1..MostSamples
<1>1. MaxLines[spec] \in Int /\ LinesFactor \in Nat \ {0} /\ MostSamples \in Nat \ {0}
  BY CollectorAssumption
<1>2. MaxLines[spec] > 0 => MaxLines[spec] * LinesFactor \in Nat \ {0}
  BY <1>1
<1> HIDE CollectorAssumption
<1> QED
  BY <1>1, <1>2 DEF LatencyCap, MinOf

\* The write-back of RecordLatency is within the cap it read, and SetConfig
\* finds an empty list or notes the overlap.
LEMMA SampleStep == IInv /\ SampleInv /\ [Next]_vars => SampleInv'
<1> SUFFICES ASSUME IInv, SampleInv, [Next]_vars PROVE SampleInv'
  OBVIOUS
<1>0. MostSamples \in Nat \ {0}
  BY CollectorAssumption
<1>1. CASE UNCHANGED <<spec, samples>> /\ (writer' = "reset" <=> writer = "reset")
  BY <1>1 DEF SampleInv, SampleTypes, SampleReads, SampleCap, samples, LatencyCap
<1>2. CASE \E e \in budget.errs : Count(e) \/ RecordBegin(e) \/ RecordEnd(e)
                                    \/ IndexOutOfRange(e)
  BY <1>1, <1>2 DEF Count, RecordBegin, RecordEnd, IndexOutOfRange, collector
<1>3. CASE CollectCopy \/ CollectTruncate \/ CollectStore
  BY <1>1, <1>3 DEF CollectCopy, CollectTruncate, CollectStore
<1>4. CASE WriteFailure \/ CloseStorage \/ Time \/ UNCHANGED vars
  BY <1>1, <1>4 DEF WriteFailure, CloseStorage, Time, Keep, collector, vars
<1>5. CASE LatencyBegin
  <2>1. /\ sampling' = {[length |-> latencies, cap |-> maxSamples]}
        /\ overlap' = IF writer = "reset" THEN {"config"} ELSE {}
        /\ UNCHANGED <<spec, latencies, maxSamples, writer>>
    BY <1>5 DEF LatencyBegin
  <2>2. [length |-> latencies, cap |-> maxSamples]
          \in [length : 0..MostSamples, cap : 1..MostSamples]
    BY DEF SampleInv, SampleTypes
  <2>3. SampleTypes'
    BY <2>1, <2>2 DEF SampleInv, SampleTypes
  <2>4. SampleReads'
    BY <2>1 DEF SampleReads
  <2>5. SampleCap'
    BY <2>1 DEF SampleInv, SampleCap, LatencyCap
  <2> QED
    BY <2>3, <2>4, <2>5 DEF SampleInv
<1>6. CASE LatencyEnd
  <2>1. PICK read \in sampling :
          \/ \E length \in {read.length, latencies}, cap \in Caps(read) :
               latencies' = NewestSamples(length + 1, cap)
          \/ overlap # {} /\ UNCHANGED latencies
    BY <1>6 DEF LatencyEnd
  <2>2. sampling' = {} /\ UNCHANGED <<spec, maxSamples, writer, overlap>>
    BY <1>6 DEF LatencyEnd
  <2>3. /\ Caps(read) \subseteq 1..MostSamples
        /\ "config" \notin overlap => Caps(read) = {maxSamples}
        /\ read.length \in 0..MostSamples
    BY <1>0 DEF SampleInv, SampleTypes, SampleReads, Caps
  <2>4. /\ latencies' \in 0..MostSamples
        /\ "config" \notin overlap => latencies' <= maxSamples
    <3>1. CASE overlap # {} /\ UNCHANGED latencies
      <4>1. "config" \notin overlap => latencies = 0
        BY <3>1 DEF SampleInv, SampleReads
      <4> QED
        BY <1>0, <3>1, <4>1 DEF SampleInv, SampleTypes
    <3>2. ASSUME NEW length \in {read.length, latencies}, NEW cap \in Caps(read),
                 latencies' = NewestSamples(length + 1, cap)
          PROVE  latencies' \in 0..MostSamples /\ latencies' <= cap
      <4>1. length \in 0..MostSamples /\ cap \in 1..MostSamples
        BY <2>3 DEF SampleInv, SampleTypes
      <4> QED
        BY <1>0, <3>2, <4>1 DEF NewestSamples
    <3> QED
      BY <2>1, <2>3, <3>1, <3>2
  <2>5. writer = "reset" => "config" \in overlap
    BY <2>1 DEF SampleInv, SampleReads
  <2> QED
    BY <2>1, <2>2, <2>4, <2>5 DEF SampleInv, SampleTypes, SampleReads, SampleCap,
      LatencyCap
<1>7. CASE SampleOutOfRange
  BY <1>1, <1>7 DEF SampleOutOfRange, collector
<1>8. ASSUME NEW s \in Specs, SetConfigBegin(s)
      PROVE  SampleInv'
  <2>1. /\ spec' = s /\ latencies' = 0 /\ maxSamples' = MostSamples
        /\ overlap' = IF sampling = {} THEN {} ELSE overlap \cup {"config"}
        /\ writer' = "reset" /\ UNCHANGED sampling
    BY <1>8 DEF SetConfigBegin, Overlapped
  <2>2. s # NoSpec
    BY CollectorAssumption
  <2> QED
    <3>1. SampleTypes'
      <4>1. overlap' \subseteq {"collect", "config"}
        BY <2>1 DEF SampleInv, SampleTypes
      <4>2. 0 \in 0..MostSamples /\ MostSamples \in 1..MostSamples
        BY <1>0
      <4> QED
        BY <2>1, <4>1, <4>2 DEF SampleInv, SampleTypes
    <3>2. SampleReads'
      BY <2>1 DEF SampleReads
    <3>3. SampleCap'
      BY <1>0, <2>1, <2>2 DEF SampleCap
    <3> QED
      BY <3>1, <3>2, <3>3 DEF SampleInv
<1>9. CASE SetConfigEnd
  <2>1. /\ maxSamples' = LatencyCap /\ writer = "reset" /\ writer' = "none"
        /\ UNCHANGED <<spec, latencies, sampling, overlap>>
    BY <1>9 DEF SetConfigEnd
  <2>2. LatencyCap \in 1..MostSamples
    BY <2>1, CapRange DEF SampleInv, SampleCap, IInv, RecorderInv
  <2>3. LatencyCap' = LatencyCap
    BY <2>1 DEF LatencyCap
  <2> QED
    <3>1. SampleTypes'
      BY <2>1, <2>2 DEF SampleInv, SampleTypes
    <3>2. SampleReads'
      BY <2>1 DEF SampleInv, SampleReads
    <3>3. SampleCap'
      BY <2>1, <2>2, <2>3 DEF SampleInv, SampleCap
    <3> QED
      BY <3>1, <3>2, <3>3 DEF SampleInv
<1>10. CASE CollectBegin
  <2>1. /\ latencies' = 0 /\ spec # NoSpec /\ writer # "reset" /\ writer' = "copy"
        /\ overlap' = IF sampling = {} THEN {} ELSE overlap \cup {"collect"}
        /\ UNCHANGED <<spec, maxSamples, sampling>>
    BY <1>10 DEF CollectBegin, CanLock, MuFree, Overlapped
  <2> QED
    <3>1. SampleTypes'
      <4>1. overlap' \subseteq {"collect", "config"}
        BY <2>1 DEF SampleInv, SampleTypes
      <4>2. 0 \in 0..MostSamples
        BY <1>0
      <4> QED
        BY <2>1, <4>1, <4>2 DEF SampleInv, SampleTypes
    <3>2. SampleReads'
      BY <2>1 DEF SampleInv, SampleReads
    <3>3. SampleCap'
      BY <1>0, <2>1 DEF SampleInv, SampleTypes, SampleCap, LatencyCap
    <3> QED
      BY <3>1, <3>2, <3>3 DEF SampleInv
<1>11. CASE Restart
  <2>1. /\ spec' = NoSpec /\ latencies' = 0 /\ maxSamples' = MostSamples
        /\ sampling' = {} /\ overlap' = {} /\ writer' = "none"
    BY <1>11 DEF Restart
  <2> QED
    BY <1>0, <2>1 DEF SampleInv, SampleTypes, SampleReads, SampleCap
<1> QED
  BY <1>2, <1>3, <1>4, <1>5, <1>6, <1>7, <1>8, <1>9, <1>10, <1>11 DEF Next

\* A new collector keeps MostSamples samples, has none and records none.
LEMMA SampleStart == Init => SampleInv
BY CollectorAssumption DEF Init, Fresh, SampleInv, SampleTypes, SampleReads, SampleCap

\* Recording panics before the first SetConfig, for a specification without a
\* positive max_lines, where an error's recorder overlapped a truncation, or in
\* a RecordLatency that overlapped one, and nowhere else.
THEOREM KnownPanics == Spec => []PanicsAreKnown
<1>1. Init => IInv
  BY CollectorAssumption
  DEF Init, Fresh, IInv, RecorderInv, SeenInv, PanicsAreKnown, Window,
      ErrorsMuFree
<1>2. IInv => PanicsAreKnown
  BY DEF IInv
<1> QED
  BY <1>1, <1>2, SampleStart, NextStep, SampleStep, PTL DEF Spec

-----------------------------------------------------------------------------
(* What is known of the lists, the counters and the database.              *)

\* The types; whoever holds mu has seen a specification.
TypeInv ==
  /\ errors \in Seq(Errs) /\ seen \in [Errs -> Seq(Errs)]
  /\ writer \in {"none", "reset", "copy", "trunc", "store"}
  /\ writer # "none" => spec \in Specs
  /\ process \in {"up", "noSpec", "noLines", "race", "samples"}
  /\ DOMAIN report = {"errors", "counts", "length"}

\* Where nothing raced, an error is in the list at most once, after it was
\* recorded, and has ended once when it is there no more; a report lists what
\* the list held.
OnceInv ==
  ~raced =>
    /\ IsInjective(errors)
    /\ \A e \in ToSet(errors) : rpc[e] = "done"
    /\ ends = [e \in Errs |-> IF rpc[e] = "done" /\ e \notin ToSet(errors)
                                THEN 1 ELSE 0]
    /\ writer = "copy" => report.length = Len(errors)
    /\ writer = "trunc" => report.errors = errors

\* Within the limits, but while SetConfig is at it.
LimitsInv ==
  spec # NoSpec /\ ~raced /\ writer # "reset" =>
    /\ Len(errors) <= MaxLines[spec] \/ errors = <<>>
    /\ Bytes(errors) <= MaxBytes[spec] \/ Len(errors) <= 1

\* Publish errors in the list or on the way there.
Pub == {e \in Errs : /\ Via[e] = "publish"
                     /\ e \in ToSet(errors) \/ rpc[e] \in {"counted", "recording"}}

\* They are counted, from SetConfig on, and none is on its way while mu is
\* held for writing.
CountedInv ==
  /\ DOMAIN counts = {"publish", "consume"} /\ counts.publish \in Nat
  /\ writer # "none" => \A e \in Errs : ~ReadLocked(e)
  /\ ~raced /\ writer # "reset" =>
       IsFiniteSet(Pub) /\ Cardinality(Pub) <= counts.publish
  /\ writer \in {"copy", "trunc"} => report.counts = counts
  /\ PublishErrorsAreCounted

\* There is one entry per key, and one for each collection that was stored.
DbInv ==
  /\ clock \in Nat /\ IsFiniteSet(db)
  /\ \A e \in db : e.type \in Types /\ e.spec \in Specs /\ e.ms \in 0..clock
  /\ \A e, f \in db : SameKey(e, f) => e = f
  /\ \A e \in db : e.type = "stats" => <<e.spec, e.ms>> \in collected
  /\ \A c \in collected :
       /\ c[1] \in Specs
       /\ \E e \in db : e.type = "stats" /\ e.spec = c[1] /\ e.ms = c[2]

StateInv == TypeInv /\ OnceInv /\ LimitsInv /\ CountedInv /\ DbInv /\ SampleInv

-----------------------------------------------------------------------------
(* The list after recordError.                                             *)

\* The loop over the errors has a size after each of them.
LEMMA BytesDef ==
  ASSUME NEW s \in Seq(Errs)
  PROVE  \E total \in [0..Len(s) -> Nat] :
           /\ Bytes(s) = total[Len(s)] /\ total[0] = 0
           /\ \A n \in 1..Len(s) : total[n] = total[n - 1] + Size[s[n]]
<1> DEFINE step == [n \in 1..Len(s) |-> [v \in Nat |-> v + Size[s[n]]]]
           Body(f) == [n \in 0..Len(s) |-> IF n = 0 THEN 0
                                                    ELSE f[n - 1] + Size[s[n]]]
<1>1. \A n \in 1..Len(s) : Size[s[n]] \in Nat
  BY CollectorAssumption
<1>2. step \in [1..Len(s) -> [Nat -> Nat]]
  BY <1>1
<1>3. PICK f \in [0..Len(s) -> Nat] :
        f[0] = 0 /\ \A n \in 1..Len(s) : f[n] = step[n][f[n - 1]]
  <2> DEFINE V == Nat
             base == 0
             N == Len(s)
  <2>1. base \in V /\ N \in Nat /\ step \in [1..N -> [V -> V]]
    BY <1>2
  <2> HIDE DEF step, V, base, N
  <2>2. \E f \in [0..N -> V] :
          f[0] = base /\ \A n \in 1..N : f[n] = step[n][f[n - 1]]
    BY <2>1, Recursion
  <2> QED
    BY <2>2 DEF V, base, N
<1>4. f = Body(f)
  <2> SUFFICES ASSUME NEW n \in 0..Len(s), n # 0
               PROVE  f[n] = f[n - 1] + Size[s[n]]
    BY <1>3
  <2>1. n \in 1..Len(s) /\ f[n - 1] \in Nat
    BY <1>3
  <2> QED
    BY <1>3, <2>1
<1> DEFINE total == CHOOSE g : g = Body(g)
<1>5. total = Body(total)
  <2> HIDE DEF Body
  <2> QED
    BY <1>4
<1>6. Bytes(s) = total[Len(s)]
  BY DEF Bytes
<1> HIDE DEF total
<1>7. /\ DOMAIN total = 0..Len(s) /\ total[0] = 0
      /\ \A n \in 1..Len(s) : total[n] = total[n - 1] + Size[s[n]]
      /\ total = [n \in 0..Len(s) |-> total[n]]
  BY <1>5
<1>8. \A n \in 0..Len(s) : total[n] \in Nat
  <2> DEFINE T == {n \in Nat : n <= Len(s) => total[n] \in Nat}
  <2>1. 0 \in T
    BY <1>7
  <2>2. \A n \in Nat : n \in T => n + 1 \in T
    <3> SUFFICES ASSUME NEW n \in Nat, n \in T, n + 1 <= Len(s)
                 PROVE  total[n + 1] \in Nat
      OBVIOUS
    <3>1. n + 1 \in 1..Len(s) /\ (n + 1) - 1 = n /\ total[n] \in Nat
      OBVIOUS
    <3>2. total[n + 1] = total[n] + Size[s[n + 1]]
      BY <1>7, <3>1
    <3>3. Size[s[n + 1]] \in Nat
      BY <1>1, <3>1
    <3> QED
      BY <3>1, <3>2, <3>3
  <2> HIDE DEF T
  <2>3. Nat \subseteq T
    BY <2>1, <2>2, SetInduction
  <2> QED
    BY <2>3 DEF T
<1> QED
  BY <1>6, <1>7, <1>8

\* The size of a list is a natural number, and one more error adds its own.
LEMMA BytesGrow ==
  ASSUME NEW s \in Seq(Errs), NEW e \in Errs
  PROVE  /\ Bytes(s) \in Nat
         /\ Bytes(Append(s, e)) = Bytes(s) + Size[e]
<1> DEFINE t == Append(s, e)
<1>1. /\ t \in Seq(Errs) /\ Len(t) = Len(s) + 1 /\ t[Len(s) + 1] = e
      /\ \A n \in 1..Len(s) : t[n] = s[n]
      /\ Len(s) \in Nat
  OBVIOUS
<1> HIDE DEF t
<1>2. PICK f \in [0..Len(s) -> Nat] :
        /\ Bytes(s) = f[Len(s)] /\ f[0] = 0
        /\ \A n \in 1..Len(s) : f[n] = f[n - 1] + Size[s[n]]
  BY BytesDef
<1>3. PICK g \in [0..Len(t) -> Nat] :
        /\ Bytes(t) = g[Len(t)] /\ g[0] = 0
        /\ \A n \in 1..Len(t) : g[n] = g[n - 1] + Size[t[n]]
  BY <1>1, BytesDef
<1>4. g[Len(s)] = f[Len(s)]
  <2> DEFINE T == {n \in Nat : n <= Len(s) => g[n] = f[n]}
  <2>1. 0 \in T
    BY <1>2, <1>3
  <2>2. \A n \in Nat : n \in T => n + 1 \in T
    <3> SUFFICES ASSUME NEW n \in Nat, n \in T, n + 1 <= Len(s)
                 PROVE  g[n + 1] = f[n + 1]
      OBVIOUS
    <3>1. /\ n + 1 \in 1..Len(s) /\ n + 1 \in 1..Len(t) /\ (n + 1) - 1 = n
          /\ g[n] = f[n] /\ t[n + 1] = s[n + 1]
      BY <1>1
    <3> QED
      BY <1>2, <1>3, <3>1
  <2> HIDE DEF T
  <2>3. Nat \subseteq T
    BY <2>1, <2>2, SetInduction
  <2> QED
    BY <1>1, <2>3 DEF T
<1>5. g[Len(t)] = g[Len(s)] + Size[e]
  <2>1. Len(t) \in 1..Len(t) /\ Len(t) - 1 = Len(s) /\ t[Len(t)] = e
    BY <1>1
  <2> QED
    BY <1>3, <2>1
<1>6. Bytes(s) \in Nat
  BY <1>1, <1>2
<1> QED
  BY <1>2, <1>3, <1>4, <1>5, <1>6 DEF t

\* An empty list has no size.
LEMMA EmptyBytes == Bytes(<<>>) = 0
<1> DEFINE empty == <<>>
<1>1. empty \in Seq(Errs) /\ Len(empty) = 0
  OBVIOUS
<1> HIDE DEF empty
<1>2. Bytes(empty) = 0
  BY <1>1, BytesDef
<1> QED
  BY <1>2 DEF empty

\* What is left of a list without its first error.
LEMMA HeadTailParts ==
  ASSUME NEW s \in Seq(Errs), s # <<>>
  PROVE  /\ Tail(s) \in Seq(Errs) /\ Len(Tail(s)) = Len(s) - 1
         /\ \A n \in 1..Len(Tail(s)) : Tail(s)[n] = s[n + 1]
OBVIOUS

\* What is left after dropping the oldest i - 1 errors.
LEMMA SuffixParts ==
  ASSUME NEW s \in Seq(Errs), NEW i \in 1..Len(s) + 1
  PROVE  /\ Suffix(s, i) \in Seq(Errs)
         /\ Len(Suffix(s, i)) = Len(s) - i + 1
         /\ \A n \in 1..(Len(s) - i + 1) : Suffix(s, i)[n] = s[n + i - 1]
<1> DEFINE t == [n \in 1..(Len(s) - i + 1) |-> s[n + i - 1]]
<1>1. Suffix(s, i) = t
  BY DEF Suffix
<1>2. \A n \in 1..(Len(s) - i + 1) : n + i - 1 \in 1..Len(s)
  OBVIOUS
<1>3. Len(s) - i + 1 \in Nat
  OBVIOUS
<1>4. t \in Seq(Errs) /\ Len(t) = Len(s) - i + 1
  BY <1>2, <1>3
<1> QED
  BY <1>1, <1>4

\* The loop of recordError ends: the new error fits, or the list is empty.
LEMMA ShortenStops ==
  ASSUME NEW s \in Seq(Errs), NEW e \in Errs, spec \in Specs
  PROVE  \E i \in 1..Len(s) + 1 :
           /\ Shorten(s, e) = Suffix(s, i)
           /\ Bytes(Suffix(s, i)) + Size[e] <= MaxBytes[spec] \/ i = Len(s) + 1
<1> DEFINE Fit(i) == \/ Bytes(Suffix(s, i)) + Size[e] <= MaxBytes[spec]
                     \/ i = Len(s) + 1
           Stop(i) == /\ Fit(i)
                      /\ \A j \in 1..i - 1 :
                           Bytes(Suffix(s, j)) + Size[e] > MaxBytes[spec]
           T == {i \in 1..Len(s) + 1 : Fit(i)}
<1>1. \A j \in 1..Len(s) + 1 : Bytes(Suffix(s, j)) \in Nat
  BY SuffixParts, BytesGrow
<1>2. Size[e] \in Nat /\ MaxBytes[spec] \in Int /\ Len(s) \in Nat
  BY CollectorAssumption
<1>3. PICK n \in T : \A m \in T : n <= m
  <2>1. Len(s) + 1 \in T /\ T \subseteq Nat
    BY <1>2
  <2> HIDE DEF T
  <2> QED
    BY <2>1, LeastNat
<1>4. Stop(n)
  <2> SUFFICES ASSUME NEW j \in 1..n - 1
               PROVE  Bytes(Suffix(s, j)) + Size[e] > MaxBytes[spec]
    BY <1>3
  <2>1. j \in 1..Len(s) + 1 /\ ~(n <= j)
    BY <1>2, <1>3
  <2>2. j \notin T
    BY <1>3, <2>1
  <2> QED
    BY <1>1, <1>2, <2>1, <2>2
<1> DEFINE k == CHOOSE i \in 1..Len(s) + 1 : Stop(i)
<1>5. k \in 1..Len(s) + 1 /\ Stop(k)
  <2> HIDE DEF Stop
  <2> QED
    BY <1>3, <1>4
<1>6. Shorten(s, e) = Suffix(s, k)
  BY DEF Shorten
<1> HIDE DEF k
<1> QED
  BY <1>5, <1>6

\* r is s without its oldest k errors and with a new one.
Renewed(s, e, r, k) ==
  /\ r \in Seq(Errs) /\ Len(r) = Len(s) - k + 1 /\ r[Len(r)] = e
  /\ \A n \in 1..(Len(s) - k) : r[n] = s[n + k]

\* recordError drops some of the oldest errors, one at least when there are
\* max_lines of them, and appends the new one; the list is then within
\* max_bytes, or that one is alone.
LEMMA RecordedParts ==
  ASSUME NEW s \in Seq(Errs), NEW e \in Errs, spec \in Specs,
         ~(s = <<>> /\ Full(s)), NEW r, r = Recorded(s, e)
  PROVE  \E k \in 0..Len(s) :
           /\ Renewed(s, e, r, k)
           /\ Full(s) => k >= 1
           /\ Bytes(r) <= MaxBytes[spec] \/ Len(r) = 1
<1> DEFINE d == IF Full(s) THEN 1 ELSE 0
           t == IF Full(s) THEN Tail(s) ELSE s
<1>1. /\ t \in Seq(Errs) /\ Len(t) = Len(s) - d /\ d \in 0..Len(s)
      /\ \A n \in 1..Len(t) : t[n] = s[n + d]
  <2>1. CASE Full(s)
    <3>1. s # <<>>
      BY <2>1
    <3>2. /\ Tail(s) \in Seq(Errs) /\ Len(Tail(s)) = Len(s) - 1
          /\ \A n \in 1..Len(Tail(s)) : Tail(s)[n] = s[n + 1]
      BY <3>1, HeadTailParts
    <3>3. 1 \in 0..Len(s)
      BY <3>1
    <3> QED
      BY <2>1, <3>2, <3>3
  <2>2. CASE ~Full(s)
    BY <2>2
  <2> QED
    BY <2>1, <2>2
<1>2. r = Append(Shorten(t, e), e)
  BY DEF Recorded
<1>3. d = IF Full(s) THEN 1 ELSE 0
  OBVIOUS
<1> HIDE DEF d, t
<1>4. PICK i \in 1..Len(t) + 1 :
        /\ Shorten(t, e) = Suffix(t, i)
        /\ Bytes(Suffix(t, i)) + Size[e] <= MaxBytes[spec] \/ i = Len(t) + 1
  BY <1>1, ShortenStops
<1> DEFINE u == Suffix(t, i)
<1>5. /\ u \in Seq(Errs) /\ Len(u) = Len(t) - i + 1
      /\ \A n \in 1..(Len(t) - i + 1) : u[n] = t[n + i - 1]
  BY <1>1, SuffixParts
<1>6. r = Append(u, e)
  BY <1>2, <1>4
<1>7. Bytes(u) + Size[e] <= MaxBytes[spec] \/ Len(u) = 0
  BY <1>1, <1>4, <1>5
<1> HIDE DEF u
<1> DEFINE k == d + i - 1
<1>8. k \in 0..Len(s) /\ Len(u) = Len(s) - k /\ (Full(s) => k >= 1)
  BY <1>1, <1>3, <1>5
<1>9. \A n \in 1..Len(u) : u[n] = s[n + k]
  <2> SUFFICES ASSUME NEW n \in 1..Len(u) PROVE u[n] = s[n + k]
    OBVIOUS
  <2>1. n + i - 1 \in 1..Len(t) /\ n \in 1..(Len(t) - i + 1)
    BY <1>1, <1>5
  <2>2. u[n] = t[n + i - 1]
    BY <1>5, <2>1
  <2>3. t[n + i - 1] = s[(n + i - 1) + d]
    BY <1>1, <2>1
  <2>4. (n + i - 1) + d = n + k
    BY <1>1
  <2> QED
    BY <2>2, <2>3, <2>4
<1> HIDE DEF k
<1>10. /\ r \in Seq(Errs) /\ Len(r) = Len(u) + 1 /\ r[Len(r)] = e
       /\ \A n \in 1..Len(u) : r[n] = u[n]
  <2>1. u \in Seq(Errs) /\ Len(u) \in Nat
    BY <1>5
  <2> QED
    BY <1>6, <2>1
<1>11. Bytes(r) <= MaxBytes[spec] \/ Len(r) = 1
  <2>1. Bytes(r) = Bytes(u) + Size[e]
    BY <1>5, <1>6, BytesGrow
  <2> QED
    BY <1>7, <1>10, <2>1
<1> QED
  BY <1>8, <1>9, <1>10, <1>11 DEF Renewed

\* The list has the new error and otherwise only what it had, in its order.
LEMMA RecordedSet ==
  ASSUME NEW s \in Seq(Errs), NEW e \in Errs, spec \in Specs,
         ~(s = <<>> /\ Full(s)), NEW r, r = Recorded(s, e)
  PROVE  /\ r \in Seq(Errs) /\ e \in ToSet(r) /\ ToSet(r) \subseteq ToSet(s) \cup {e}
         /\ e \notin ToSet(s) /\ IsInjective(s) => IsInjective(r)
<1>0. PICK k \in 0..Len(s) : Renewed(s, e, r, k)
  BY RecordedParts
<1>1. /\ r \in Seq(Errs) /\ Len(r) = Len(s) - k + 1 /\ r[Len(r)] = e
      /\ \A n \in 1..(Len(s) - k) : r[n] = s[n + k]
  BY <1>0 DEF Renewed
<1>2. DOMAIN r = 1..(Len(s) - k + 1) /\ DOMAIN s = 1..Len(s) /\ Len(s) \in Nat
  BY <1>1
<1>3. ASSUME NEW n \in 1..Len(r), n # Len(r)
      PROVE  n + k \in 1..Len(s) /\ r[n] = s[n + k]
  BY <1>1, <1>2, <1>3
<1>4. e \in ToSet(r)
  <2>1. Len(r) \in DOMAIN r
    BY <1>1, <1>2
  <2> QED
    BY <1>1, <2>1 DEF ToSet
<1>5. ToSet(r) \subseteq ToSet(s) \cup {e}
  BY <1>1, <1>2, <1>3 DEF ToSet
<1>6. ASSUME e \notin ToSet(s), IsInjective(s),
             NEW i \in 1..Len(r), NEW j \in 1..Len(r), r[i] = r[j]
      PROVE  i = j
  <2>1. \A n \in 1..Len(s) : s[n] # e
    BY <1>2, <1>6 DEF ToSet
  <2>2. i = Len(r) <=> j = Len(r)
    BY <1>1, <1>3, <1>6, <2>1
  <2>3. CASE i # Len(r) /\ j # Len(r)
    <3>1. i + k = j + k
      BY <1>2, <1>3, <1>6, <2>3 DEF IsInjective
    <3> QED
      BY <3>1
  <2> QED
    BY <2>2, <2>3
<1>7. DOMAIN r = 1..Len(r)
  BY <1>1
<1> QED
  BY <1>1, <1>4, <1>5, <1>6, <1>7 DEF IsInjective

-----------------------------------------------------------------------------
(* The steps, for the types and for the list of errors.                    *)

\* How a recording ends; without a race it is based on the list as it is.
LEMMA EndParts ==
  ASSUME IInv, TypeInv, NEW e \in Errs, RecordEnd(e)
  PROVE  /\ rpc[e] = "recording" /\ spec \in Specs /\ (Window => raced)
         /\ UNCHANGED <<spec, counts, writer, report, raced>>
         /\ \/ /\ UNCHANGED <<errors, rpc, ends, seen>>
               /\ process' \in {"noLines", "race"}
            \/ \E base \in Seq(Errs) :
                 /\ ~raced => base = errors
                 /\ ~(base = <<>> /\ Full(base))
                 /\ errors' = Recorded(base, e)
                 /\ rpc' = [rpc EXCEPT ![e] = "done"]
                 /\ seen' = [seen EXCEPT ![e] = <<>>]
                 /\ ends' = [d \in Errs |->
                      IF d \in ToSet(base) /\ d \notin ToSet(errors')
                        THEN ends[d] + 1 ELSE ends[d]]
                 /\ UNCHANGED process
<1>1. /\ rpc[e] = "recording"
      /\ UNCHANGED <<spec, counts, writer, report, raced>>
  BY DEF RecordEnd
<1>2. spec \in Specs /\ (Window => raced) /\ (~raced => seen[e] = errors)
  BY <1>1 DEF IInv, RecorderInv, SeenInv, ErrorsMuFree
<1>3. errors \in Seq(Errs) /\ seen[e] \in Seq(Errs)
  BY DEF TypeInv
<1>4. PICK base \in {seen[e], errors} :
        IF base = <<>> /\ Full(base)
          THEN /\ process' = IF errors = seen[e] THEN "noLines" ELSE "race"
               /\ UNCHANGED <<errors, rpc, ends, seen>>
          ELSE /\ errors' = Recorded(base, e)
               /\ rpc' = [rpc EXCEPT ![e] = "done"]
               /\ seen' = [seen EXCEPT ![e] = <<>>]
               /\ ends' = [d \in Errs |->
                    IF d \in ToSet(base) /\ d \notin ToSet(errors')
                      THEN ends[d] + 1 ELSE ends[d]]
               /\ UNCHANGED process
  BY DEF RecordEnd
<1>5. base \in Seq(Errs) /\ (~raced => base = errors)
  BY <1>2, <1>3
<1> QED
  BY <1>1, <1>2, <1>4, <1>5

\* The types.
LEMMA TypeStep ==
  ASSUME IInv, TypeInv, [Next]_vars
  PROVE  TypeInv'
<1>1. CASE UNCHANGED <<spec, errors, seen, writer, process, report>>
  BY <1>1 DEF TypeInv
<1>2. ASSUME NEW e \in Errs, Count(e) \/ IndexOutOfRange(e)
      PROVE  TypeInv'
  BY <1>2 DEF Count, IndexOutOfRange, collector, TypeInv
<1>3. ASSUME NEW e \in Errs, RecordBegin(e)
      PROVE  TypeInv'
  <2>1. CASE spec = NoSpec
    BY <1>3, <2>1 DEF RecordBegin, TypeInv
  <2>2. CASE spec # NoSpec
    <3>1. /\ seen' = [seen EXCEPT ![e] = errors]
          /\ UNCHANGED <<spec, errors, writer, process, report>>
      BY <1>3, <2>2 DEF RecordBegin
    <3> QED
      BY <3>1 DEF TypeInv
  <2> QED
    BY <2>1, <2>2
<1>4. ASSUME NEW e \in Errs, RecordEnd(e)
      PROVE  TypeInv'
  <2>1. UNCHANGED <<spec, writer, report>>
    BY <1>4, EndParts
  <2>2. CASE UNCHANGED <<errors, seen>> /\ process' \in {"noLines", "race"}
    BY <2>1, <2>2 DEF TypeInv
  <2>3. CASE \E base \in Seq(Errs) :
               /\ ~(base = <<>> /\ Full(base)) /\ errors' = Recorded(base, e)
               /\ seen' = [seen EXCEPT ![e] = <<>>] /\ UNCHANGED process
    <3>1. errors' \in Seq(Errs)
      BY <1>4, <2>3, EndParts, RecordedSet
    <3>2. seen' \in [Errs -> Seq(Errs)]
      BY <2>3 DEF TypeInv
    <3> QED
      BY <2>1, <2>3, <3>1, <3>2 DEF TypeInv
  <2> QED
    BY <1>4, <2>2, <2>3, EndParts
<1>5. CASE Sampling
  <2>1. UNCHANGED <<spec, errors, seen, writer, report>>
    BY <1>5, SamplingLeaves
  <2>2. UNCHANGED process \/ process' = "samples"
    BY <1>5 DEF Sampling, LatencyBegin, LatencyEnd, SampleOutOfRange
  <2> QED
    BY <2>1, <2>2 DEF TypeInv
<1>6. CASE \E s \in Specs : SetConfigBegin(s)
  BY <1>6, CollectorAssumption DEF SetConfigBegin, TypeInv
<1>7. CASE SetConfigEnd \/ CollectTruncate
  <2>1. /\ errors' = <<>> /\ writer' \in {"none", "store"} /\ writer # "none"
        /\ UNCHANGED <<spec, seen, process, report>>
    BY <1>7 DEF SetConfigEnd, CollectTruncate
  <2> QED
    BY <2>1 DEF TypeInv
<1>8. CASE CollectBegin
  <2>1. /\ report' = [errors |-> <<>>, counts |-> counts, length |-> Len(errors)]
        /\ spec \in Specs /\ writer' = "copy"
        /\ UNCHANGED <<spec, errors, seen, process>>
    BY <1>8 DEF CollectBegin, IInv, RecorderInv
  <2>2. DOMAIN report' = {"errors", "counts", "length"}
    BY <2>1
  <2> QED
    BY <2>1, <2>2, CollectorAssumption DEF TypeInv
<1>9. CASE CollectCopy
  BY <1>9 DEF CollectCopy, TypeInv
<1>10. CASE CollectStore
  <2>1. /\ report' = NoReport /\ writer' = "none"
        /\ UNCHANGED <<spec, errors, seen, process>>
    BY <1>10 DEF CollectStore
  <2> QED
    BY <2>1 DEF TypeInv, NoReport
<1>11. CASE WriteFailure \/ CloseStorage \/ Time \/ UNCHANGED vars
  BY <1>1, <1>11 DEF WriteFailure, CloseStorage, Time, Keep, collector, vars
<1>12. CASE Restart
  <2>1. /\ errors' = <<>> /\ writer' = "none"
        /\ report' = NoReport /\ process' = "up"
        /\ seen' = [e \in Errs |-> <<>>]
    BY <1>12 DEF Restart
  <2>2. seen' \in [Errs -> Seq(Errs)] /\ errors' \in Seq(Errs)
    BY <2>1
  <2> QED
    BY <2>1, <2>2, CollectorAssumption DEF TypeInv, NoReport
<1>13. ASSUME NEW e \in Errs, Count(e) \/ RecordBegin(e) \/ RecordEnd(e)
                                \/ IndexOutOfRange(e)
       PROVE  TypeInv'
  BY <1>2, <1>3, <1>4, <1>13
<1>14. CASE \E e \in budget.errs : Count(e) \/ RecordBegin(e) \/ RecordEnd(e)
                                     \/ IndexOutOfRange(e)
  BY <1>13, <1>14 DEF IInv, RecorderInv
<1> QED
  BY <1>5, <1>6, <1>7, <1>8, <1>9, <1>10, <1>11, <1>12, <1>14 DEF Next, Sampling

\* What is in an empty list.
LEMMA Nothing == ToSet(<<>>) = {}
BY DEF ToSet

\* An error is in the list once, in one report, or dropped once.
LEMMA OnceStep ==
  ASSUME IInv, TypeInv, OnceInv, [Next]_vars
  PROVE  OnceInv'
<1>0. rpc \in [Errs -> {"new", "counted", "recording", "done"}]
  BY DEF IInv, RecorderInv
<1>1. CASE UNCHANGED <<errors, rpc, ends, report, raced, writer>>
  BY <1>1 DEF OnceInv
<1>2. ASSUME NEW e \in Errs, Count(e)
      PROVE  OnceInv'
  <2>1. /\ rpc[e] = "new" /\ rpc' = [rpc EXCEPT ![e] = "counted"]
        /\ UNCHANGED <<errors, ends, report, raced, writer>>
    BY <1>2 DEF Count
  <2>2. \A d \in Errs : rpc'[d] = "done" <=> rpc[d] = "done"
    BY <1>0, <2>1
  <2>3. ToSet(errors) \subseteq Errs
    BY DEF TypeInv, ToSet
  <2> QED
    BY <2>1, <2>2, <2>3 DEF OnceInv
<1>3. ASSUME NEW e \in Errs, RecordBegin(e)
      PROVE  OnceInv'
  <2>1. CASE spec = NoSpec
    BY <1>3, <2>1 DEF RecordBegin, OnceInv
  <2>2. CASE spec # NoSpec
    <3>1. /\ rpc[e] # "done" /\ rpc' = [rpc EXCEPT ![e] = "recording"]
          /\ raced' = (raced \/ Window)
          /\ UNCHANGED <<errors, ends, report, writer>>
      BY <1>3, <2>2 DEF RecordBegin
    <3>2. \A d \in Errs : rpc'[d] = "done" <=> rpc[d] = "done"
      BY <1>0, <3>1
    <3>3. ToSet(errors) \subseteq Errs
      BY DEF TypeInv, ToSet
    <3> QED
      BY <3>1, <3>2, <3>3 DEF OnceInv
  <2> QED
    BY <2>1, <2>2
<1>4. ASSUME NEW e \in Errs, RecordEnd(e), ~raced
      PROVE  OnceInv'
  <2>1. rpc[e] = "recording" /\ spec \in Specs /\ ~Window
        /\ UNCHANGED <<report, raced, writer>>
    BY <1>4, EndParts
  <2>2. CASE UNCHANGED <<errors, rpc, ends>>
    BY <2>1, <2>2 DEF OnceInv
  <2>3. CASE /\ ~(errors = <<>> /\ Full(errors)) /\ errors' = Recorded(errors, e)
             /\ rpc' = [rpc EXCEPT ![e] = "done"]
             /\ ends' = [d \in Errs |->
                  IF d \in ToSet(errors) /\ d \notin ToSet(errors')
                    THEN ends[d] + 1 ELSE ends[d]]
    <3>1. e \notin ToSet(errors)
      BY <1>4, <2>1 DEF OnceInv
    <3>2. errors \in Seq(Errs) /\ IsInjective(errors)
      BY <1>4 DEF TypeInv, OnceInv
    <3>3. /\ e \in ToSet(errors') /\ ToSet(errors') \subseteq ToSet(errors) \cup {e}
          /\ IsInjective(errors')
      BY <2>1, <2>3, <3>1, <3>2, RecordedSet
    <3>4. \A d \in Errs : rpc'[d] = IF d = e THEN "done" ELSE rpc[d]
      BY <1>0, <2>3
    <3>5. ToSet(errors) \subseteq Errs
      BY <3>2 DEF ToSet
    <3>6. \A d \in ToSet(errors') : rpc'[d] = "done"
      BY <1>4, <3>3, <3>4, <3>5 DEF OnceInv
    <3>7. ASSUME NEW d \in Errs
          PROVE  ends'[d] = IF rpc'[d] = "done" /\ d \notin ToSet(errors') THEN 1 ELSE 0
      <4>1. ends[d] = IF rpc[d] = "done" /\ d \notin ToSet(errors) THEN 1 ELSE 0
        BY <1>4 DEF OnceInv
      <4>2. d \in ToSet(errors) => rpc[d] = "done"
        BY <1>4 DEF OnceInv
      <4>3. ends'[d] = IF d \in ToSet(errors) /\ d \notin ToSet(errors')
                         THEN ends[d] + 1 ELSE ends[d]
        BY <2>3
      <4> QED
        BY <2>1, <3>1, <3>3, <3>4, <4>1, <4>2, <4>3
    <3>8. ends' = [d \in Errs |-> IF rpc'[d] = "done" /\ d \notin ToSet(errors')
                                    THEN 1 ELSE 0]
      BY <2>3, <3>7
    <3> QED
      BY <2>1, <3>3, <3>6, <3>8 DEF OnceInv, Window
  <2> QED
    BY <1>4, <2>2, <2>3, EndParts
<1>5. ASSUME NEW e \in Errs, RecordEnd(e), raced
      PROVE  OnceInv'
  BY <1>5 DEF RecordEnd, OnceInv
<1>6. CASE \E s \in Specs : SetConfigBegin(s)
  BY <1>6 DEF SetConfigBegin, OnceInv
<1>7. ASSUME SetConfigEnd \/ CollectTruncate, ~raced
      PROVE  OnceInv'
  <2>1. /\ errors' = <<>> /\ writer' \in {"none", "store"} /\ UNCHANGED <<rpc, raced>>
        /\ ends' = [e \in Errs |-> IF e \in ToSet(errors) THEN ends[e] + 1 ELSE ends[e]]
    BY <1>7 DEF SetConfigEnd, CollectTruncate, OnceInv
  <2>2. ToSet(errors') = {} /\ IsInjective(errors')
    BY <2>1, Nothing DEF IsInjective
  <2>3. ASSUME NEW e \in Errs
        PROVE  ends'[e] = IF rpc'[e] = "done" /\ e \notin ToSet(errors') THEN 1 ELSE 0
    BY <1>7, <2>1, <2>2 DEF OnceInv
  <2>4. ends' = [e \in Errs |-> IF rpc'[e] = "done" /\ e \notin ToSet(errors')
                                  THEN 1 ELSE 0]
    BY <2>1, <2>3
  <2> QED
    BY <2>1, <2>2, <2>4 DEF OnceInv
<1>8. ASSUME SetConfigEnd \/ CollectTruncate, raced
      PROVE  OnceInv'
  BY <1>8 DEF SetConfigEnd, CollectTruncate, OnceInv
<1>9. CASE CollectBegin
  BY <1>9 DEF CollectBegin, OnceInv
<1>10. CASE CollectCopy
  <2>1. /\ writer' = "trunc" /\ UNCHANGED <<errors, rpc, ends, raced>>
        /\ report'.errors = [i \in 1..report.length |->
                               IF i <= Len(errors) THEN errors[i] ELSE NilError]
    BY <1>10 DEF CollectCopy, TypeInv
  <2>2. ~raced => report.length = Len(errors)
    BY <1>10 DEF CollectCopy, OnceInv
  <2>3. ASSUME report.length = Len(errors)
        PROVE  report'.errors = errors
    <3>1. errors \in [1..Len(errors) -> Errs]
      BY DEF TypeInv
    <3> QED
      BY <2>1, <2>3, <3>1
  <2> QED
    BY <2>1, <2>2, <2>3 DEF OnceInv
<1>11. CASE CollectStore
  BY <1>11 DEF CollectStore, OnceInv
<1>12. CASE Sampling \/ WriteFailure \/ CloseStorage \/ Time \/ UNCHANGED vars
  BY <1>1, <1>12, SamplingLeaves
  DEF WriteFailure, CloseStorage, Time, Keep, collector, vars
<1>13. CASE Restart
  <2>1. /\ errors' = <<>> /\ writer' = "none"
        /\ rpc' = [e \in Errs |-> IF rpc[e] = "new" THEN "new" ELSE "done"]
        /\ ends' = [e \in Errs |-> IF rpc[e] = "new" THEN 0 ELSE 1]
    BY <1>13 DEF Restart
  <2>2. ToSet(errors') = {} /\ IsInjective(errors')
    BY <2>1, Nothing DEF IsInjective
  <2>3. ends' = [e \in Errs |-> IF rpc'[e] = "done" /\ e \notin ToSet(errors')
                                  THEN 1 ELSE 0]
    BY <2>1, <2>2
  <2> QED
    BY <2>1, <2>2, <2>3 DEF OnceInv
<1>14. ASSUME NEW e \in Errs, IndexOutOfRange(e)
       PROVE  OnceInv'
  BY <1>1, <1>14 DEF IndexOutOfRange, collector
<1>15. ASSUME NEW e \in Errs, Count(e) \/ RecordBegin(e) \/ RecordEnd(e)
                                \/ IndexOutOfRange(e)
       PROVE  OnceInv'
  BY <1>2, <1>3, <1>4, <1>5, <1>14, <1>15
<1>16. CASE \E e \in budget.errs : Count(e) \/ RecordBegin(e) \/ RecordEnd(e)
                                     \/ IndexOutOfRange(e)
  BY <1>15, <1>16 DEF IInv, RecorderInv
<1> QED
  BY <1>6, <1>7, <1>8, <1>9, <1>10, <1>11, <1>12, <1>13, <1>16 DEF Next, Sampling

-----------------------------------------------------------------------------
(* The steps, for the limits and the counters.                             *)

\* The lists stay within the limits of the specification.
LEMMA LimitsStep ==
  ASSUME IInv, TypeInv, LimitsInv, [Next]_vars
  PROVE  LimitsInv'
<1>1. CASE UNCHANGED <<spec, raced, writer, errors>>
  BY <1>1 DEF LimitsInv
<1>2. ASSUME NEW e \in Errs, Count(e) \/ IndexOutOfRange(e)
      PROVE  LimitsInv'
  BY <1>1, <1>2 DEF Count, IndexOutOfRange, collector
<1>3. ASSUME NEW e \in Errs, RecordBegin(e)
      PROVE  LimitsInv'
  <2>1. ~raced' => ~raced
    BY <1>3 DEF RecordBegin
  <2>2. UNCHANGED <<spec, writer, errors>>
    BY <1>3 DEF RecordBegin
  <2> QED
    BY <2>1, <2>2 DEF LimitsInv
<1>4. ASSUME NEW e \in Errs, RecordEnd(e)
      PROVE  LimitsInv'
  <2>1. /\ spec \in Specs /\ (Window => raced)
        /\ UNCHANGED <<spec, writer, raced>>
    BY <1>4, EndParts
  <2>2. CASE UNCHANGED errors
    BY <2>1, <2>2 DEF LimitsInv
  <2>3. ASSUME ~raced, ~(errors = <<>> /\ Full(errors)), errors' = Recorded(errors, e)
        PROVE  LimitsInv'
    <3>1. errors \in Seq(Errs) /\ spec # NoSpec /\ writer # "reset"
      BY <2>1, <2>3, CollectorAssumption DEF TypeInv, Window
    <3>2. /\ Len(errors) \in Nat /\ MaxLines[spec] \in Int
          /\ Len(errors) <= MaxLines[spec] \/ (Len(errors) = 0 /\ ~Full(errors))
      BY <2>1, <2>3, <3>1, CollectorAssumption DEF LimitsInv
    <3>3. PICK k \in 0..Len(errors) :
            /\ Renewed(errors, e, errors', k) /\ (Full(errors) => k >= 1)
            /\ Bytes(errors') <= MaxBytes[spec] \/ Len(errors') = 1
      BY <1>4, <2>1, <2>3, <3>1, RecordedParts
    <3>4. Len(errors') = Len(errors) - k + 1
      BY <3>3 DEF Renewed
    <3>5. Len(errors') <= MaxLines[spec]
      BY <3>2, <3>3, <3>4 DEF Full
    <3>6. Len(errors') = 1 => Len(errors') <= 1
      OBVIOUS
    <3>7. Bytes(errors') <= MaxBytes[spec] \/ Len(errors') <= 1
      BY <3>3, <3>6, Zenon
    <3> QED
      BY <2>1, <3>5, <3>7 DEF LimitsInv
  <2>4. CASE raced
    BY <2>1, <2>4 DEF LimitsInv
  <2> QED
    BY <1>4, <2>2, <2>3, <2>4, EndParts
<1>5. CASE Sampling
  BY <1>1, <1>5, SamplingLeaves
<1>6. CASE \E s \in Specs : SetConfigBegin(s)
  BY <1>6 DEF SetConfigBegin, LimitsInv
<1>7. CASE SetConfigEnd \/ CollectTruncate
  <2>1. errors' = <<>>
    BY <1>7 DEF SetConfigEnd, CollectTruncate
  <2>2. Len(errors') = 0
    BY <2>1
  <2> QED
    BY <2>1, <2>2 DEF LimitsInv
<1>8. CASE CollectBegin
  <2>1. (~raced' => ~raced) /\ writer = "none" /\ UNCHANGED <<spec, errors>>
    BY <1>8 DEF CollectBegin, CanLock, MuFree
  <2> QED
    BY <2>1 DEF LimitsInv
<1>9. CASE CollectCopy \/ CollectStore
  BY <1>9 DEF CollectCopy, CollectStore, LimitsInv
<1>10. CASE WriteFailure \/ CloseStorage \/ Time \/ UNCHANGED vars
  BY <1>1, <1>10 DEF WriteFailure, CloseStorage, Time, Keep, collector, vars
<1>11. CASE Restart
  BY <1>11 DEF Restart, LimitsInv
<1>12. ASSUME NEW e \in Errs, Count(e) \/ RecordBegin(e) \/ RecordEnd(e)
                                \/ IndexOutOfRange(e)
       PROVE  LimitsInv'
  BY <1>2, <1>3, <1>4, <1>12
<1>13. CASE \E e \in budget.errs : Count(e) \/ RecordBegin(e) \/ RecordEnd(e)
                                     \/ IndexOutOfRange(e)
  BY <1>12, <1>13 DEF IInv, RecorderInv
<1> QED
  BY <1>5, <1>6, <1>7, <1>8, <1>9, <1>10, <1>11, <1>13 DEF Next, Sampling

\* Publish errors only leave the list, or come to be recorded, or have been
\* counted.
LEMMA PubShrinks ==
  ASSUME IsFiniteSet(Pub), Cardinality(Pub) <= counts.publish, counts.publish \in Nat,
         Pub' \subseteq Pub, UNCHANGED counts
  PROVE  (IsFiniteSet(Pub) /\ Cardinality(Pub) <= counts.publish)'
<1>1. IsFiniteSet(Pub') /\ Cardinality(Pub') <= Cardinality(Pub)
  BY FS_Subset
<1>2. Cardinality(Pub) \in Nat /\ Cardinality(Pub') \in Nat
  BY <1>1, FS_CardinalityType
<1> QED
  BY <1>1, <1>2

\* A report counts the publish errors it lists.
LEMMA CountedStep ==
  ASSUME IInv, TypeInv, OnceInv, CountedInv, [Next]_vars
  PROVE  CountedInv'
<1>0. rpc \in [Errs -> {"new", "counted", "recording", "done"}]
  BY DEF IInv, RecorderInv
<1>1. CASE UNCHANGED <<errors, rpc, counts, report, raced, writer>>
  BY <1>1 DEF CountedInv, Pub, ReadLocked, PublishErrorsAreCounted
<1>2. ASSUME NEW e \in Errs, Count(e)
      PROVE  CountedInv'
  <2>1. /\ rpc' = [rpc EXCEPT ![e] = "counted"] /\ writer = "none" /\ Via[e] # "other"
        /\ counts' = [counts EXCEPT ![Via[e]] = @ + 1]
        /\ UNCHANGED <<errors, report, raced, writer>>
    BY <1>2 DEF Count, MuFree
  <2>2. Via[e] \in {"publish", "consume"}
    BY <2>1, CollectorAssumption
  <2>3. /\ DOMAIN counts' = {"publish", "consume"}
        /\ counts'.publish = IF Via[e] = "publish" THEN counts.publish + 1
                                                   ELSE counts.publish
    BY <2>1, <2>2 DEF CountedInv
  <2>4. Pub' \subseteq IF Via[e] = "publish" THEN Pub \cup {e} ELSE Pub
    BY <1>0, <2>1 DEF Pub
  <2>5. ASSUME ~raced PROVE (IsFiniteSet(Pub) /\ Cardinality(Pub) <= counts.publish)'
    <3>1. /\ IsFiniteSet(Pub) /\ Cardinality(Pub) <= counts.publish
          /\ counts.publish \in Nat
      BY <2>1, <2>5 DEF CountedInv
    <3>2. /\ IsFiniteSet(Pub \cup {e})
          /\ Cardinality(Pub \cup {e}) <= Cardinality(Pub) + 1
          /\ Cardinality(Pub) \in Nat
      <4>1. Cardinality(Pub) \in Nat
        BY <3>1, FS_CardinalityType
      <4>2. /\ IsFiniteSet(Pub \cup {e})
            /\ \/ Cardinality(Pub \cup {e}) = Cardinality(Pub)
               \/ Cardinality(Pub \cup {e}) = Cardinality(Pub) + 1
        BY <3>1, FS_AddElement
      <4> QED
        BY <4>1, <4>2
    <3>3. CASE Via[e] = "publish"
      <4>1. IsFiniteSet(Pub') /\ Cardinality(Pub') <= Cardinality(Pub \cup {e})
        BY <2>4, <3>2, <3>3, FS_Subset
      <4>2. Cardinality(Pub') \in Nat /\ Cardinality(Pub \cup {e}) \in Nat
        BY <3>2, <4>1, FS_CardinalityType
      <4> QED
        BY <2>3, <3>1, <3>2, <3>3, <4>1, <4>2
    <3>4. CASE Via[e] # "publish"
      <4>1. IsFiniteSet(Pub') /\ Cardinality(Pub') <= Cardinality(Pub)
        BY <2>4, <3>1, <3>4, FS_Subset
      <4>2. Cardinality(Pub') \in Nat
        BY <4>1, FS_CardinalityType
      <4> QED
        BY <2>3, <3>1, <3>2, <3>4, <4>1, <4>2
    <3> QED
      BY <3>3, <3>4
  <2>6. counts'.publish \in Nat
    BY <2>3 DEF CountedInv
  <2> QED
    BY <2>1, <2>3, <2>5, <2>6 DEF CountedInv, PublishErrorsAreCounted
<1>3. ASSUME NEW e \in Errs, RecordBegin(e)
      PROVE  CountedInv'
  <2>1. UNCHANGED <<errors, counts, report, writer>> /\ (~raced' => ~raced)
    BY <1>3 DEF RecordBegin
  <2>2. /\ Pub' \subseteq Pub
        /\ \A d \in Errs : ReadLocked(d)' => ReadLocked(d)
    <3>1. CASE UNCHANGED rpc
      BY <2>1, <3>1 DEF Pub, ReadLocked
    <3>2. CASE rpc' = [rpc EXCEPT ![e] = "recording"]
      <4>1. Via[e] = "publish" => rpc[e] = "counted"
        BY <1>3 DEF RecordBegin
      <4> QED
        BY <1>0, <2>1, <3>2, <4>1 DEF Pub, ReadLocked
    <3> QED
      BY <1>3, <3>1, <3>2 DEF RecordBegin
  <2> QED
    BY <2>1, <2>2, PubShrinks DEF CountedInv, PublishErrorsAreCounted
<1>4. ASSUME NEW e \in Errs, RecordEnd(e)
      PROVE  CountedInv'
  <2>1. /\ rpc[e] = "recording" /\ spec \in Specs
        /\ UNCHANGED <<counts, report, writer, raced>>
    BY <1>4, EndParts
  <2>2. CASE UNCHANGED <<errors, rpc>>
    BY <1>1, <2>1, <2>2
  <2>3. ASSUME rpc' = [rpc EXCEPT ![e] = "done"],
               ~raced => /\ ~(errors = <<>> /\ Full(errors))
                         /\ errors' = Recorded(errors, e)
        PROVE  CountedInv'
    <3>1. \A d \in Errs : ReadLocked(d)' => ReadLocked(d)
      BY <1>0, <2>3 DEF ReadLocked
    <3>2. ASSUME ~raced PROVE Pub' \subseteq Pub
      <4>1. errors \in Seq(Errs)
        BY DEF TypeInv
      <4>2. ToSet(errors') \subseteq ToSet(errors) \cup {e}
        BY <1>4, <2>1, <2>3, <3>2, <4>1, RecordedSet
      <4> QED
        BY <1>0, <2>1, <2>3, <4>2 DEF Pub
    <3> QED
      BY <2>1, <3>1, <3>2, PubShrinks DEF CountedInv, PublishErrorsAreCounted
  <2> QED
    BY <1>4, <2>2, <2>3, EndParts
<1>5. CASE \E s \in Specs : SetConfigBegin(s)
  <2>1. /\ writer' = "reset" /\ CanLock /\ UNCHANGED rpc
        /\ counts' = [publish |-> 0, consume |-> 0]
    BY <1>5 DEF SetConfigBegin, NoReport
  <2>2. \A e \in Errs : ~ReadLocked(e)'
    BY <2>1 DEF CanLock, ReadLocked
  <2>3. DOMAIN counts' = {"publish", "consume"} /\ counts'.publish = 0
    BY <2>1
  <2> QED
    BY <2>1, <2>2, <2>3 DEF CountedInv, PublishErrorsAreCounted
<1>6. CASE SetConfigEnd
  <2>1. /\ writer = "reset" /\ writer' = "none" /\ errors' = <<>>
        /\ UNCHANGED <<counts, rpc>>
    BY <1>6 DEF SetConfigEnd
  <2>2. Pub' = {}
    BY <2>1, Nothing DEF Pub, CountedInv, ReadLocked
  <2>3. IsFiniteSet(Pub') /\ Cardinality(Pub') = 0
    BY <2>2, FS_EmptySet
  <2> QED
    BY <2>1, <2>3 DEF CountedInv, PublishErrorsAreCounted
<1>7. CASE CollectBegin
  <2>1. /\ CanLock /\ writer' = "copy" /\ (~raced' => ~raced)
        /\ report' = [errors |-> <<>>, counts |-> counts, length |-> Len(errors)]
        /\ UNCHANGED <<errors, counts, rpc>>
    BY <1>7 DEF CollectBegin
  <2>2. /\ writer = "none" /\ \A e \in Errs : ~ReadLocked(e)'
    BY <2>1 DEF CanLock, MuFree, ReadLocked
  <2>3. Pub' = Pub
    BY <2>1 DEF Pub
  <2>4. report'.counts = counts'
    BY <2>1
  <2> QED
    BY <2>1, <2>2, <2>3, <2>4 DEF CountedInv, PublishErrorsAreCounted
<1>8. CASE CollectCopy
  <2>1. /\ writer = "copy" /\ writer' = "trunc"
        /\ UNCHANGED <<errors, counts, rpc, raced>>
        /\ report'.counts = report.counts
    BY <1>8 DEF CollectCopy, TypeInv
  <2>2. Pub' = Pub /\ \A e \in Errs : ReadLocked(e)' <=> ReadLocked(e)
    BY <2>1 DEF Pub, ReadLocked
  <2>3. ASSUME ~raced
        PROVE  Cardinality({e \in ToSet(report'.errors) \ {NilError} :
                            Via[e] = "publish"})
                 <= report'.counts.publish
    <3> DEFINE listed == {e \in ToSet(report'.errors) \ {NilError} : Via[e] = "publish"}
    <3>1. OnceInv'
      BY OnceStep
    <3>2. report'.errors = errors
      BY <2>1, <2>3, <3>1 DEF OnceInv
    <3>3. listed \subseteq Pub
      BY <3>2 DEF Pub, TypeInv, ToSet
    <3>4. /\ IsFiniteSet(Pub) /\ Cardinality(Pub) <= counts.publish
          /\ counts.publish \in Nat /\ report'.counts = counts
      BY <2>1, <2>3 DEF CountedInv
    <3> HIDE DEF listed
    <3>5. IsFiniteSet(listed) /\ Cardinality(listed) <= Cardinality(Pub)
      BY <3>3, <3>4, FS_Subset
    <3>6. Cardinality(listed) \in Nat /\ Cardinality(Pub) \in Nat
      BY <3>4, <3>5, FS_CardinalityType
    <3>7. Cardinality(listed) <= report'.counts.publish
      BY <3>4, <3>5, <3>6
    <3> QED
      BY <3>7 DEF listed
  <2> QED
    BY <2>1, <2>2, <2>3 DEF CountedInv, PublishErrorsAreCounted
<1>9. CASE CollectTruncate
  <2>1. /\ writer = "trunc" /\ writer' = "store" /\ errors' = <<>>
        /\ UNCHANGED <<counts, rpc, raced, report>>
    BY <1>9 DEF CollectTruncate
  <2>2. Pub' \subseteq Pub /\ \A e \in Errs : ReadLocked(e)' <=> ReadLocked(e)
    BY <2>1, Nothing DEF Pub, ReadLocked
  <2> QED
    BY <2>1, <2>2, PubShrinks DEF CountedInv, PublishErrorsAreCounted
<1>10. CASE CollectStore
  <2>1. /\ writer = "store" /\ writer' = "none"
        /\ UNCHANGED <<errors, counts, rpc, raced>>
    BY <1>10 DEF CollectStore
  <2>2. Pub' = Pub
    BY <2>1 DEF Pub
  <2> QED
    BY <2>1, <2>2 DEF CountedInv, PublishErrorsAreCounted
<1>11. CASE Sampling \/ WriteFailure \/ CloseStorage \/ Time \/ UNCHANGED vars
  BY <1>1, <1>11, SamplingLeaves
  DEF WriteFailure, CloseStorage, Time, Keep, collector, vars
<1>12. CASE Restart
  <2>1. /\ errors' = <<>> /\ writer' = "none"
        /\ rpc' = [e \in Errs |-> IF rpc[e] = "new" THEN "new" ELSE "done"]
        /\ counts' = [publish |-> 0, consume |-> 0]
    BY <1>12 DEF Restart, NoReport
  <2>2. Pub' = {}
    BY <2>1, Nothing DEF Pub
  <2>3. IsFiniteSet(Pub') /\ Cardinality(Pub') = 0
    BY <2>2, FS_EmptySet
  <2>4. DOMAIN counts' = {"publish", "consume"} /\ counts'.publish = 0
    BY <2>1
  <2> QED
    BY <2>1, <2>3, <2>4 DEF CountedInv, PublishErrorsAreCounted
<1>13. ASSUME NEW e \in Errs, IndexOutOfRange(e)
       PROVE  CountedInv'
  BY <1>1, <1>13 DEF IndexOutOfRange, collector
<1>14. ASSUME NEW e \in Errs, Count(e) \/ RecordBegin(e) \/ RecordEnd(e)
                                \/ IndexOutOfRange(e)
       PROVE  CountedInv'
  BY <1>2, <1>3, <1>4, <1>13, <1>14
<1>15. CASE \E e \in budget.errs : Count(e) \/ RecordBegin(e) \/ RecordEnd(e)
                                     \/ IndexOutOfRange(e)
  BY <1>14, <1>15 DEF IInv, RecorderInv
<1> QED
  BY <1>5, <1>6, <1>7, <1>8, <1>9, <1>10, <1>11, <1>12, <1>15 DEF Next, Sampling

\* A write replaces the entry with its key; the other entries stay, so there
\* are finitely many, one per key, and none is lost.
LEMMA PutParts ==
  ASSUME NEW e, Put(e), IsFiniteSet(db), \A f, g \in db : SameKey(f, g) => f = g
  PROVE  /\ IsFiniteSet(db)' /\ e \in db' /\ UNCHANGED <<isOpen, clock>>
         /\ \A f \in db' : f = e \/ f \in db
         /\ \A f \in db : f \in db' \/ SameKey(e, f)
         /\ \A f, g \in db' : SameKey(f, g) => f = g
<1> DEFINE kept == {f \in db : ~SameKey(e, f)}
<1>1. db' = kept \cup {e} /\ UNCHANGED <<isOpen, clock>>
  BY DEF Put
<1>2. kept \subseteq db
  OBVIOUS
<1>3. IsFiniteSet(kept \cup {e})
  <2> HIDE DEF kept
  <2> QED
    BY <1>2, FS_Subset, FS_AddElement
<1>4. \A f, g \in db' : SameKey(f, g) => f = g
  <2> SUFFICES ASSUME NEW f \in db', NEW g \in db', SameKey(f, g)
               PROVE  f = g
    OBVIOUS
  <2>1. SameKey(g, f)
    BY DEF SameKey
  <2> QED
    BY <1>1, <2>1
<1> QED
  BY <1>1, <1>3, <1>4

\* Every collection that was stored has its entry, and every entry of a
\* collection was stored by one.
LEMMA DbStep ==
  ASSUME IInv, TypeInv, DbInv, [Next]_vars
  PROVE  DbInv'
<1>1. CASE UNCHANGED <<db, clock, collected>>
  BY <1>1 DEF DbInv, SameKey
<1>2. ASSUME NEW e, Put(e), e.type \in Types, e.spec \in Specs, e.ms = clock,
             \/ e.type = "failure" /\ UNCHANGED collected
             \/ e.type = "stats" /\ collected' = collected \cup {<<e.spec, clock>>}
      PROVE  DbInv'
  <2>1. /\ IsFiniteSet(db)' /\ e \in db' /\ UNCHANGED clock
        /\ \A f \in db' : f = e \/ f \in db
        /\ \A f \in db : f \in db' \/ SameKey(e, f)
        /\ \A f, g \in db' : SameKey(f, g) => f = g
    BY <1>2, PutParts DEF DbInv
  <2>2. \A f \in db' : f.type \in Types /\ f.spec \in Specs /\ f.ms \in 0..clock'
    BY <1>2, <2>1 DEF DbInv
  <2>3. \A f \in db' : f.type = "stats" => <<f.spec, f.ms>> \in collected'
    BY <1>2, <2>1 DEF DbInv
  <2>4. ASSUME NEW c \in collected'
        PROVE  /\ c[1] \in Specs
               /\ \E f \in db' : f.type = "stats" /\ f.spec = c[1] /\ f.ms = c[2]
    <3>1. CASE c \in collected
      <4>1. PICK f \in db : f.type = "stats" /\ f.spec = c[1] /\ f.ms = c[2]
        BY <3>1 DEF DbInv
      <4>2. CASE f \in db'
        BY <3>1, <4>1, <4>2 DEF DbInv
      <4>3. CASE SameKey(e, f)
        BY <2>1, <3>1, <4>1, <4>3 DEF DbInv, SameKey
      <4> QED
        BY <2>1, <4>2, <4>3
    <3>2. CASE c = <<e.spec, clock>> /\ e.type = "stats"
      BY <1>2, <2>1, <3>2
    <3> QED
      BY <1>2, <3>1, <3>2
  <2> QED
    BY <2>1, <2>2, <2>3, <2>4 DEF DbInv, SameKey
<1>3. CASE CollectStore
  <2>1. writer = "store" /\ spec \in Specs /\ "stats" \in Types
    BY <1>3, BadgerAssumption DEF CollectStore, TypeInv
  <2> DEFINE e == [type |-> "stats", spec |-> spec, ms |-> clock,
                   failed |-> ToSet(report.errors) \ {NilError} # {}]
  <2>2. \/ UNCHANGED <<badger, collected>>
        \/ Put(e) /\ collected' = collected \cup {<<spec, clock>>}
    BY <1>3 DEF CollectStore
  <2>3. e.type = "stats" /\ e.spec = spec /\ e.ms = clock
    OBVIOUS
  <2> HIDE DEF e
  <2>4. CASE UNCHANGED <<badger, collected>>
    BY <1>1, <2>4 DEF badger
  <2>5. CASE Put(e) /\ collected' = collected \cup {<<spec, clock>>}
    BY <1>2, <2>1, <2>3, <2>5
  <2> QED
    BY <2>2, <2>4, <2>5
<1>4. CASE WriteFailure
  <2> DEFINE e == [type |-> "failure", spec |-> spec, ms |-> clock, failed |-> TRUE]
  <2>1. Put(e) /\ UNCHANGED collected /\ spec \in Specs /\ "failure" \in Types
    BY <1>4, BadgerAssumption DEF WriteFailure, Stored, IInv, RecorderInv
  <2>2. e.type = "failure" /\ e.spec = spec /\ e.ms = clock
    OBVIOUS
  <2> HIDE DEF e
  <2> QED
    BY <1>2, <2>1, <2>2
<1>5. CASE Time
  <2>1. clock' = clock + 1 /\ UNCHANGED <<db, collected>>
    BY <1>5 DEF Time, Keep, Elapse
  <2> QED
    BY <2>1 DEF DbInv, SameKey
<1>6. CASE Sampling \/ SetConfigEnd \/ CollectBegin \/ CollectCopy \/ CollectTruncate
  BY <1>1, <1>6, SamplingLeaves
  DEF SetConfigEnd, CollectBegin, CollectCopy, CollectTruncate, badger
<1>7. CASE CloseStorage \/ Restart \/ UNCHANGED vars
  BY <1>1, <1>7 DEF CloseStorage, Keep, Close, Restart, Open, vars, badger
<1>8. CASE \E s \in Specs : SetConfigBegin(s)
  BY <1>1, <1>8 DEF SetConfigBegin, badger
<1>9. CASE \E e \in budget.errs : Count(e) \/ RecordBegin(e) \/ RecordEnd(e)
                                    \/ IndexOutOfRange(e)
  BY <1>1, <1>9 DEF Count, RecordBegin, RecordEnd, IndexOutOfRange, badger
<1> QED
  BY <1>3, <1>4, <1>5, <1>6, <1>7, <1>8, <1>9 DEF Next, Sampling

LEMMA StartStates == Init => IInv /\ StateInv
<1> SUFFICES ASSUME Init PROVE IInv /\ StateInv
  OBVIOUS
<1>1. /\ db = {} /\ clock = 0 /\ spec = NoSpec /\ errors = <<>>
      /\ writer = "none" /\ collected = {} /\ process = "up" /\ raced = FALSE
      /\ rpc = [e \in Errs |-> "new"] /\ seen = [e \in Errs |-> <<>>]
      /\ ends = [e \in Errs |-> 0] /\ budget \in Budgets
      /\ report = NoReport /\ counts = [publish |-> 0, consume |-> 0]
  BY DEF Init, Fresh, NoReport
<1>2. IInv
  BY <1>1, CollectorAssumption
  DEF IInv, RecorderInv, SeenInv, PanicsAreKnown, ErrorsMuFree, Window
<1>3. TypeInv
  <2>1. errors \in Seq(Errs) /\ seen \in [Errs -> Seq(Errs)]
    BY <1>1
  <2>2. DOMAIN report = {"errors", "counts", "length"}
    BY <1>1 DEF NoReport
  <2> QED
    BY <1>1, <2>1, <2>2 DEF TypeInv
<1>4. OnceInv
  <2>1. IsInjective(errors) /\ ToSet(errors) = {}
    BY <1>1, Nothing DEF IsInjective
  <2> QED
    BY <1>1, <2>1 DEF OnceInv
<1>5. LimitsInv
  BY <1>1 DEF LimitsInv
<1>6. CountedInv
  <2>1. Pub = {}
    BY <1>1, Nothing DEF Pub
  <2>2. IsFiniteSet(Pub) /\ Cardinality(Pub) = 0
    BY <2>1, FS_EmptySet
  <2>3. DOMAIN counts = {"publish", "consume"} /\ counts.publish = 0
    BY <1>1
  <2> QED
    BY <1>1, <2>2, <2>3 DEF CountedInv, PublishErrorsAreCounted
<1>7. DbInv
  BY <1>1, FS_EmptySet DEF DbInv
<1> QED
  BY <1>2, <1>3, <1>4, <1>5, <1>6, <1>7, SampleStart DEF StateInv

\* In every reachable state, for any errors, limits and budgets, the state
\* of the collector and of the database is as the parts of StateInv say.
THEOREM States == Spec => [](IInv /\ StateInv)
<1>1. IInv /\ StateInv /\ [Next]_vars => (IInv /\ StateInv)'
  BY NextStep, SampleStep, TypeStep, OnceStep, LimitsStep, CountedStep, DbStep
  DEF StateInv
<1> QED
  BY <1>1, StartStates, PTL DEF Spec

\* Lists, lock holders, calls and entries keep their types; the latencies
\* never exceed 10000 and no entry lies in the future.
THEOREM TypeCorrect == Spec => []TypeOK
<1>1. IInv /\ StateInv => TypeOK
  BY DEF IInv, RecorderInv, StateInv, TypeInv, SampleInv, SampleTypes, DbInv,
    TypeOK
<1> QED
  BY <1>1, States, PTL

\* While no recorder overlapped a collection or SetConfig, every recorded
\* error is in the list, in one report or dropped, and only in one of them.
THEOREM ErrorsOnce == Spec => []ReportedOnce
<1>1. ASSUME StateInv, ~raced, NEW e \in Errs, rpc[e] = "done"
      PROVE  ends[e] + Cardinality({i \in 1..Len(errors) : errors[i] = e}) = 1
  <2> DEFINE at == {i \in 1..Len(errors) : errors[i] = e}
  <2>1. errors \in Seq(Errs) /\ IsInjective(errors)
    BY <1>1 DEF StateInv, TypeInv, OnceInv
  <2>2. ends[e] = IF e \in ToSet(errors) THEN 0 ELSE 1
    BY <1>1 DEF StateInv, OnceInv
  <2>3. CASE e \in ToSet(errors)
    <3>1. PICK i \in 1..Len(errors) : errors[i] = e
      BY <2>1, <2>3 DEF ToSet
    <3>2. at = {i}
      BY <2>1, <3>1 DEF IsInjective
    <3>3. Cardinality(at) = 1
      BY <3>2, FS_Singleton
    <3> HIDE DEF at
    <3>4. ends[e] + Cardinality(at) = 1
      BY <2>2, <2>3, <3>3
    <3> QED
      BY <3>4 DEF at
  <2>4. CASE e \notin ToSet(errors)
    <3>1. at = {}
      BY <2>1, <2>4 DEF ToSet
    <3>2. Cardinality(at) = 0
      BY <3>1, FS_EmptySet
    <3> HIDE DEF at
    <3>3. ends[e] + Cardinality(at) = 1
      BY <2>2, <2>4, <3>2
    <3> QED
      BY <3>3 DEF at
  <2> QED
    BY <2>3, <2>4
<1>2. StateInv => ReportedOnce
  BY <1>1 DEF ReportedOnce
<1> QED
  BY <1>2, States, PTL

\* A report never lists more publish errors than it counts, unless a recorder
\* overlapped.
THEOREM Counted == Spec => []PublishErrorsAreCounted
<1>1. StateInv => PublishErrorsAreCounted
  BY DEF StateInv, CountedInv
<1> QED
  BY <1>1, States, PTL

\* The list of errors stays within the limits of the specification unless a
\* recorder overlapped; the samples do, but after a RecordLatency that overlapped
\* SetConfig.
THEOREM Limits == Spec => []WithinLimits
<1>1. StateInv => WithinLimits
  BY DEF StateInv, LimitsInv, SampleInv, SampleCap, WithinLimits, MuFree
<1> QED
  BY <1>1, States, PTL

-----------------------------------------------------------------------------
(* The history.                                                            *)

\* s lists S from the oldest entry to the newest.
Ordered(s, S) ==
  /\ s \in [1..Cardinality(S) -> S] /\ ToSet(s) = S
  /\ \A i, j \in DOMAIN s : i < j => ~Older(s[j], s[i])

\* A finite set of entries has an oldest one.
LEMMA OldestEntry ==
  ASSUME NEW S, S # {}, \A e \in S : e.ms \in Nat
  PROVE  \E e \in S : \A f \in S : ~Older(f, e)
<1>1. {e.ms : e \in S} \subseteq Nat /\ {e.ms : e \in S} # {}
  OBVIOUS
<1>2. PICK n \in {e.ms : e \in S} : \A m \in {e.ms : e \in S} : n <= m
  BY <1>1, LeastNat
<1>3. PICK e \in S : e.ms = n
  BY <1>2
<1>4. ASSUME NEW f \in S PROVE ~(f.ms < e.ms)
  BY <1>1, <1>2, <1>3
<1> QED
  BY <1>4 DEF Older

\* Putting the oldest entry before an ordered list of the others.
LEMMA OldestFirst ==
  ASSUME NEW S, IsFiniteSet(S), \A e \in S : e.ms \in Nat,
         NEW e \in S, \A f \in S : ~Older(f, e),
         NEW t, Ordered(t, S \ {e})
  PROVE  \E s : Ordered(s, S)
<1> DEFINE n == Cardinality(S)
           s == [i \in 1..n |-> IF i = 1 THEN e ELSE t[i - 1]]
<1>1. n \in Nat /\ Cardinality(S \ {e}) = n - 1
  BY FS_RemoveElement, FS_CardinalityType
<1>2. n - 1 \in Nat
  BY <1>1, FS_RemoveElement, FS_CardinalityType
<1>3. /\ t \in [1..n - 1 -> S \ {e}]
      /\ \A f \in S \ {e} : \E i \in 1..n - 1 : t[i] = f
      /\ \A i, j \in 1..n - 1 : i < j => ~Older(t[j], t[i])
  BY <1>1 DEF Ordered, ToSet
<1> HIDE DEF n
<1>4. s \in [1..n -> S]
  BY <1>1, <1>2, <1>3
<1>5. ToSet(s) = S
  <2>1. ASSUME NEW f \in S PROVE \E i \in 1..n : s[i] = f
    <3>1. CASE f = e
      BY <1>1, <1>2, <3>1
    <3>2. CASE f # e
      <4>1. PICK i \in 1..n - 1 : t[i] = f
        BY <1>3, <3>2
      <4>2. i + 1 \in 1..n /\ i + 1 # 1 /\ (i + 1) - 1 = i
        BY <1>1
      <4>3. s[i + 1] = f
        BY <4>1, <4>2
      <4> QED
        BY <4>2, <4>3
    <3> QED
      BY <3>1, <3>2
  <2> QED
    BY <1>4, <2>1 DEF ToSet
<1>6. ASSUME NEW i \in 1..n, NEW j \in 1..n, i < j
      PROVE  ~Older(s[j], s[i])
  <2>1. j # 1 /\ j - 1 \in 1..n - 1
    BY <1>1, <1>6
  <2>2. s[j] = t[j - 1] /\ t[j - 1] \in S
    BY <1>3, <2>1
  <2>3. CASE i = 1
    BY <2>2, <2>3
  <2>4. CASE i # 1
    <3>1. i - 1 \in 1..n - 1 /\ i - 1 < j - 1
      BY <1>1, <1>6, <2>4
    <3>2. s[i] = t[i - 1]
      BY <2>4
    <3> QED
      BY <1>3, <2>1, <2>2, <3>1, <3>2
  <2> QED
    BY <2>3, <2>4
<1> HIDE DEF s
<1>7. Ordered(s, S)
  BY <1>4, <1>5, <1>6 DEF Ordered, n
<1> QED
  BY <1>7

\* The entries of a finite set have an order.
LEMMA OrderExists ==
  ASSUME NEW U, IsFiniteSet(U), \A e \in U : e.ms \in Nat
  PROVE  \E s : Ordered(s, U)
<1> DEFINE Sized(n) == \A S \in SUBSET U : Cardinality(S) = n => \E s : Ordered(s, S)
           T == {n \in Nat : Sized(n)}
<1>1. 0 \in T
  <2> SUFFICES ASSUME NEW S \in SUBSET U, Cardinality(S) = 0
               PROVE  \E s : Ordered(s, S)
    OBVIOUS
  <2>1. S = {}
    BY FS_Subset, FS_EmptySet
  <2>2. <<>> \in [1..Cardinality(S) -> S] /\ ToSet(<<>>) = S
    BY <2>1, Nothing
  <2>3. Ordered(<<>>, S)
    BY <2>2 DEF Ordered
  <2> QED
    BY <2>3
<1>2. ASSUME NEW n \in Nat, n \in T PROVE n + 1 \in T
  <2> SUFFICES ASSUME NEW S \in SUBSET U, Cardinality(S) = n + 1
               PROVE  \E s : Ordered(s, S)
    OBVIOUS
  <2>1. IsFiniteSet(S) /\ S # {} /\ \A e \in S : e.ms \in Nat
    BY FS_Subset, FS_EmptySet
  <2>2. PICK e \in S : \A f \in S : ~Older(f, e)
    BY <2>1, OldestEntry
  <2>3. Cardinality(S \ {e}) = Cardinality(S) - 1
    BY <2>1, FS_RemoveElement
  <2>4. S \ {e} \in SUBSET U /\ Cardinality(S \ {e}) = n
    BY <2>3
  <2>5. PICK t : Ordered(t, S \ {e})
    BY <1>2, <2>4
  <2> QED
    BY <2>1, <2>2, <2>5, OldestFirst
<1>3. Nat \subseteq T
  <2> HIDE DEF T
  <2> QED
    BY <1>1, <1>2, SetInduction
<1>4. Cardinality(U) \in Nat /\ U \in SUBSET U
  BY FS_CardinalityType
<1> QED
  BY <1>3, <1>4

\* Entries that are the same when their times are, as those with one prefix
\* are, are listed once each, the older before the newer.
LEMMA InOrderParts ==
  ASSUME NEW S, IsFiniteSet(S), \A e \in S : e.ms \in Nat,
         \A e, f \in S : e.ms = f.ms => e = f
  PROVE  /\ InOrder(S) \in Seq(S) /\ ToSet(InOrder(S)) = S
         /\ \A i, j \in 1..Len(InOrder(S)) :
              i < j => InOrder(S)[i].ms < InOrder(S)[j].ms
<1> DEFINE s == InOrder(S)
           n == Cardinality(S)
<1>1. Ordered(s, S)
  <2>1. \E r \in [1..n -> S] :
          ToSet(r) = S /\ \A i, j \in DOMAIN r : i < j => ~Older(r[j], r[i])
    BY OrderExists DEF Ordered
  <2> QED
    BY <2>1 DEF InOrder, Ordered
<1> HIDE DEF s
<1>2. n \in Nat /\ IsFiniteSet(1..n) /\ Cardinality(1..n) = n
  <2>1. n \in Nat
    BY FS_CardinalityType
  <2> HIDE DEF n
  <2> QED
    BY <2>1, FS_Interval
<1>3. s \in [1..n -> S] /\ ToSet(s) = S
  BY <1>1 DEF Ordered
<1>4. s \in Surjection(1..n, S)
  BY <1>3 DEF Surjection, ToSet
<1>5. s \in Injection(1..n, S)
  BY <1>2, <1>4, FS_SurjSameCardinalityImpliesInj
<1>6. \A i, j \in 1..n : s[i] = s[j] => i = j
  BY <1>3, <1>5 DEF Injection, IsInjective
<1>7. \A i, j \in 1..n : i < j => ~(s[j].ms < s[i].ms)
  BY <1>1, <1>3 DEF Ordered, Older
<1> HIDE DEF n
<1>8. s \in Seq(S) /\ Len(s) = n
  BY <1>2, <1>3
<1>9. ASSUME NEW i \in 1..n, NEW j \in 1..n, i < j
      PROVE  s[i].ms < s[j].ms
  <2>1. s[i] \in S /\ s[j] \in S /\ s[i] # s[j]
    BY <1>3, <1>6, <1>9
  <2>2. s[i].ms \in Nat /\ s[j].ms \in Nat /\ s[i].ms # s[j].ms
    BY <2>1
  <2> QED
    BY <1>7, <1>9, <2>2
<1> QED
  BY <1>3, <1>8, <1>9 DEF s

\* What a walk over the collections of a specification lists, for any limit.
LEMMA WalkParts ==
  ASSUME DbInv, NEW s \in Specs, NEW limit \in Int
  PROVE  LET h == Walk("stats", s, limit).entries
             kept == {e \in Key("stats", s) : Alive(e)}
         IN /\ h \in Seq(kept)
            /\ limit = 0 \/ \A i \in 1..Len(h) : i <= limit
            /\ limit = 0 => ToSet(h) = kept
            /\ \A i, j \in 1..Len(h) : i < j => h[i].ms < h[j].ms
            /\ \A i \in 1..Len(h), e \in kept :
                 e.ms < h[i].ms => \E j \in 1..Len(h) : h[j] = e
<1> DEFINE kept == {e \in Key("stats", s) : Alive(e)}
           all == InOrder(kept)
           h == Walk("stats", s, limit).entries
<1>1. IsFiniteSet(kept) /\ \A e \in kept : e.ms \in Nat
  <2>1. kept \subseteq db /\ IsFiniteSet(db)
    BY DEF Key, DbInv
  <2>2. IsFiniteSet(kept)
    <3> HIDE DEF kept
    <3> QED
      BY <2>1, FS_Subset
  <2> QED
    BY <2>1, <2>2 DEF DbInv
<1>2. \A e, f \in kept : e.ms = f.ms => e = f
  BY DEF Key, DbInv, SameKey
<1>3. h = IF limit = 0 \/ limit > Len(all) THEN all ELSE SubSeq(all, 1, limit)
  BY DEF Walk
<1> HIDE DEF kept, all, h
<1>4. /\ all \in Seq(kept) /\ ToSet(all) = kept
      /\ \A i, j \in 1..Len(all) : i < j => all[i].ms < all[j].ms
  <2> USE DEF all
  <2> QED
    BY <1>1, <1>2, InOrderParts
<1>5. CASE limit = 0 \/ limit > Len(all)
  <2>1. h = all
    BY <1>3, <1>5
  <2>2. Len(all) \in Nat
    BY <1>4
  <2>3. \A e \in kept : \E j \in 1..Len(h) : h[j] = e
    BY <1>4, <2>1 DEF ToSet
  <2> QED
    BY <1>4, <1>5, <2>1, <2>2, <2>3 DEF h, kept
<1>6. CASE limit # 0 /\ limit <= Len(all)
  <2>1. h = SubSeq(all, 1, limit)
    BY <1>3, <1>4, <1>6
  <2>2. /\ h \in Seq(kept) /\ Len(h) \in Nat
        /\ \A i \in 1..Len(h) : i <= limit /\ i \in 1..Len(all) /\ h[i] = all[i]
    BY <1>4, <1>6, <2>1
  <2>3. ASSUME NEW i \in 1..Len(h), NEW e \in kept, e.ms < h[i].ms
        PROVE  \E j \in 1..Len(h) : h[j] = e
    <3>1. PICK j \in 1..Len(all) : all[j] = e
      BY <1>4 DEF ToSet
    <3>2. i \in 1..Len(all) /\ h[i] = all[i] /\ all[i] \in kept /\ i <= limit
      BY <1>4, <2>2
    <3>3. j < i
      <4>1. e.ms \in Nat /\ h[i].ms \in Nat
        BY <1>1, <3>2
      <4>2. i < j => h[i].ms < e.ms
        BY <1>4, <3>1, <3>2
      <4>3. i # j
        BY <2>3, <3>1, <3>2, <4>1
      <4> QED
        BY <2>3, <3>2, <4>1, <4>2, <4>3
    <3>4. j \in 1..Len(h)
      BY <2>2, <3>3
    <3> QED
      BY <2>2, <3>1, <3>4
  <2> QED
    BY <1>4, <1>6, <2>2, <2>3 DEF h, kept
<1> QED
  <2>1. Len(all) \in Nat
    BY <1>4
  <2> QED
    BY <1>5, <1>6, <2>1

\* A collection is live exactly if the database holds an entry of it that badger
\* does not hide.
LEMMA LiveEntries ==
  ASSUME DbInv, spec \in Specs
  PROVE  LET kept == {e \in Key("stats", spec) : Alive(e)}
         IN /\ \A e \in kept : <<spec, e.ms>> \in Live
            /\ \A c \in Live : \E e \in kept : e.ms = c[2]
<1> DEFINE kept == {e \in Key("stats", spec) : Alive(e)}
<1>1. ASSUME NEW e \in kept
      PROVE  <<spec, e.ms>> \in Live
  BY DEF Key, Alive, Live, DbInv
<1>2. ASSUME NEW c \in Live
      PROVE  \E e \in kept : e.ms = c[2]
  <2>1. PICK e \in db : e.type = "stats" /\ e.spec = spec /\ e.ms = c[2]
    BY DEF Live, DbInv
  <2>2. e \in kept
    BY <2>1 DEF Live, Key, Alive
  <2> QED
    BY <2>1, <2>2
<1> QED
  BY <1>1, <1>2

\* What a client gets lists collections of the collector's own specification,
\* unexpired, each once and in the order they were made, and skips none: under a
\* limit these are the oldest.
THEOREM OwnHistory == Spec => []HistoryIsOwn
<1>1. ASSUME IInv, StateInv, NEW limit \in {-1, 0, 1}
      PROVE  LET h == GetHistory(limit)
             IN /\ limit = 0 \/ \A i \in 1..Len(h) : i <= limit
                /\ \A i \in 1..Len(h) : <<spec, h[i].ms>> \in Live
                /\ \A i, j \in 1..Len(h) : i < j => h[i].ms < h[j].ms
                /\ \A i \in 1..Len(h), c \in Live :
                     c[2] < h[i].ms => \E j \in 1..Len(h) : h[j].ms = c[2]
  <2> DEFINE h == GetHistory(limit)
             w == Walk("stats", spec, limit).entries
             kept == {e \in Key("stats", spec) : Alive(e)}
  <2>1. h = <<>> \/ (spec # NoSpec /\ h = w)
    BY DEF GetHistory
  <2>2. CASE h = <<>>
    <3>1. Len(h) = 0
      BY <2>2
    <3> HIDE DEF h
    <3>2. 1..Len(h) = {}
      BY <3>1
    <3> QED
      BY <3>2 DEF h
  <2>3. CASE spec # NoSpec /\ h = w
    <3>1. spec \in Specs /\ DbInv
      BY <1>1, <2>3 DEF IInv, RecorderInv, StateInv
    <3>2. /\ w \in Seq(kept)
          /\ limit = 0 \/ \A i \in 1..Len(w) : i <= limit
          /\ \A i, j \in 1..Len(w) : i < j => w[i].ms < w[j].ms
          /\ \A i \in 1..Len(w), e \in kept :
               e.ms < w[i].ms => \E j \in 1..Len(w) : w[j] = e
      <4>1. limit \in Int
        OBVIOUS
      <4> QED
        BY <3>1, <4>1, WalkParts
    <3>3. /\ \A e \in kept : <<spec, e.ms>> \in Live
          /\ \A c \in Live : \E e \in kept : e.ms = c[2]
      BY <3>1, LiveEntries
    <3> HIDE DEF h, w, kept
    <3>4. \A i \in 1..Len(w) : w[i] \in kept
      BY <3>2
    <3>5. ASSUME NEW i \in 1..Len(w), NEW c \in Live, c[2] < w[i].ms
          PROVE  \E j \in 1..Len(w) : w[j].ms = c[2]
      BY <3>2, <3>3, <3>5
    <3> QED
      BY <2>3, <3>2, <3>3, <3>4, <3>5 DEF h
  <2> QED
    BY <2>1, <2>2, <2>3
<1>2. IInv /\ StateInv => HistoryIsOwn
  BY <1>1 DEF HistoryIsOwn
<1> QED
  BY <1>2, States, PTL

\* While the storage is open, the history without a limit lists every live
\* collection, also one made before a restart, unless one of the live ones
\* reports an error: then it is empty, and it is empty for no other reason.
THEOREM CompleteHistory == Spec => []HistoryIsComplete
<1>1. ASSUME IInv, StateInv, isOpen, spec # NoSpec
      PROVE  LET h == GetHistory(0)
             IN IF \E e \in db : /\ e.type = "stats" /\ e.spec = spec
                                /\ Alive(e) /\ e.failed
                  THEN h = <<>>
                  ELSE \A c \in Live : \E i \in 1..Len(h) : h[i].ms = c[2]
  <2> DEFINE w == Walk("stats", spec, 0)
             kept == {e \in Key("stats", spec) : Alive(e)}
             bad == \E e \in db : /\ e.type = "stats" /\ e.spec = spec
                                 /\ Alive(e) /\ e.failed
             h == GetHistory(0)
  <2>1. DbInv /\ spec \in Specs
    BY <1>1 DEF IInv, RecorderInv, StateInv
  <2>2. w.entries \in Seq(kept) /\ ToSet(w.entries) = kept
    BY <2>1, WalkParts
  <2>3. h = IF w.failed THEN <<>> ELSE w.entries
    BY <1>1 DEF GetHistory
  <2>4. bad <=> \E e \in kept : Undecodable(e)
    BY DEF Key, Undecodable
  <2>5. w.failed <=> \E i \in 1..Len(w.entries) : Undecodable(w.entries[i])
    <3>1. w.failed = (~isOpen \/ \E i \in 1..Len(w.entries) : Undecodable(w.entries[i]))
      BY DEF Walk
    <3> HIDE DEF w
    <3> QED
      BY <1>1, <3>1, Zenon
  <2>6. \A c \in Live : \E e \in kept : e.ms = c[2]
    BY <2>1, LiveEntries
  <2> HIDE DEF w, kept, bad, h
  <2>7. (\E i \in 1..Len(w.entries) : Undecodable(w.entries[i]))
          <=> \E e \in kept : Undecodable(e)
    BY <2>2 DEF ToSet
  <2>8. CASE bad
    <3>1. w.failed
      BY <2>4, <2>5, <2>7, <2>8, Zenon
    <3>2. h = <<>>
      BY <2>3, <3>1
    <3> QED
      BY <2>8, <3>2 DEF bad, h
  <2>9. CASE ~bad
    <3>1. ~w.failed
      BY <2>4, <2>5, <2>7, <2>9, Zenon
    <3>2. h = w.entries
      BY <2>3, <3>1
    <3>3. ASSUME NEW c \in Live
          PROVE  \E i \in 1..Len(h) : h[i].ms = c[2]
      BY <2>2, <2>6, <3>2 DEF ToSet
    <3> QED
      BY <2>9, <3>3 DEF bad, h
  <2> QED
    BY <2>8, <2>9
<1>2. IInv /\ StateInv => HistoryIsComplete
  BY <1>1 DEF HistoryIsComplete
<1> QED
  BY <1>2, States, PTL
=============================================================================
