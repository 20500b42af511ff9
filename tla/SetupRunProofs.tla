---------------------------- MODULE SetupRunProofs ----------------------------
(***************************************************************************)
(* What a run finds set up, and what repetitions make of an accepted       *)
(* configuration, for all configurations, widths of integers and answers   *)
(* of the server: a valid specification stays one while its products fit,  *)
(* and nothing else makes the process panic, but recording why a consumer  *)
(* did not start when there is no positive max_lines.                      *)
(***************************************************************************)
EXTENDS SetupProofs

-----------------------------------------------------------------------------
(* The numbers.                                                            *)

was == given.config.spec
by == given.config.policy.by

\* A multiplier does not shrink a number.
Grows(f) == by[f][1] >= by[f][2]

\* What Validate says of the configuration and of its multipliers.
GivenInv ==
  /\ IsSpec(was) /\ ValidSpec(was) /\ by \in Fractions
  /\ given.mode \in {"publish", "consume", "both"}
  /\ given.config.policy.enabled =>
       \A f \in SpecNumbers \cup StreamNumbers :
         by[f][1] >= 0 /\ (f # "rampUp" => by[f][1] > 0)

\* Repetitions have only changed the numbers ...
SameInv ==
  /\ DOMAIN spec = DOMAIN was
  /\ \A f \in DOMAIN was \ {"streams", "num"} : spec[f] = was[f]
  /\ Len(spec.streams) = Len(was.streams)
  /\ \A i \in 1..Len(was.streams) :
       /\ DOMAIN spec.streams[i] = DOMAIN was.streams[i]
       /\ \A f \in DOMAIN was.streams[i] \ {"num"} :
            spec.streams[i][f] = was.streams[i][f]

\* ... which are as they were, but for the products; these are not negative as
\* long as they fit, and those of growing multipliers are no smaller.
GrownInv ==
  /\ iter \in 0..MaxIter
  /\ iter = 0 => spec = was
  /\ ~wrapped =>
       /\ \A f \in SpecNumbers \ {"consumeDelay"} :
            spec.num[f] >= 0 /\ (Grows(f) => spec.num[f] >= was.num[f])
       /\ \A i \in 1..Len(was.streams), f \in StreamNumbers :
            /\ spec.streams[i].num[f] >= 0
            /\ Grows(f) => spec.streams[i].num[f] >= was.streams[i].num[f]

NumInv == IInv /\ GivenInv /\ SameInv /\ GrownInv /\ SetupPanicsAreKnown

-----------------------------------------------------------------------------
(* The streams and consumers of a run.                                     *)

\* The i-th stream of group g is on the server, made in this iteration.
Made(g, i) == [config |-> StreamConfig(spec.streams[g], i), since |-> iter] \in server

\* SetupStreams has come past the i-th stream of group g.
Passed(g, i) ==
  \/ pc \in {"consumers", "running"}
  \/ g < group /\ pc = "start"
  \/ g < group - 1 /\ pc \in {"delete", "add"}
  \/ /\ g = group - 1 /\ pc \in {"delete", "add"}
     /\ i <= spec.streams[g].num["count"] - Len(todo)

\* What is to do is the rest of a group, from the stream it has come to.
TodoInv ==
  pc \in {"delete", "add"} =>
    /\ group - 1 \in 1..Len(spec.streams)
    /\ Len(todo) <= spec.streams[group - 1].num["count"]
    /\ \A j \in 1..Len(todo) :
         todo[j] = StreamConfig(spec.streams[group - 1],
                     spec.streams[group - 1].num["count"] - Len(todo) + j)

\* A stream of the name to add is the one to add, from an attempt whose answer
\* was lost.
AddInv ==
  pc = "add" =>
    \A s \in server : s.config.name = Head(todo).name =>
      s = [config |-> Head(todo), since |-> iter]

MadeInv ==
  spec.jetStream /\ DistinctPrefixes =>
    \A g \in 1..Len(spec.streams) : \A i \in 1..spec.streams[g].num["count"] :
      Passed(g, i) => Made(g, i)

StreamsInv == TodoInv /\ AddInv /\ MadeInv

\* The consumers that are subscribed are those that started, until the engine's
\* context may be done: then some of them.
Started == {k \in DOMAIN consumer : consumer[k][1] = "started"}

ConsumerInv ==
  /\ attempt \in 1..Steps
  /\ consumer \in [DOMAIN consumer ->
                     {"check", "call", "started", "failed"} \X (1..Steps)]
  /\ pc \in {"start", "delete", "add", "next"} => bound = {}
  /\ pc = "consumers" =>
       /\ DOMAIN consumer = Consumers
       /\ bound \subseteq Started /\ (bound = Started \/ cancelled)
  /\ pc = "running" => bound \subseteq Consumers /\ (bound = Consumers \/ MayDrain)

\* Streams are no younger than the iteration.
SinceInv == \A s \in server : s.since \in 0..iter

\* Where a run can be.
PhaseInv == pc \in {"start", "delete", "add", "consumers", "running", "cleanup",
                    "next", "over", "panic", "errorPanic"}

RunInv == StreamsInv /\ ConsumerInv /\ SinceInv /\ PhaseInv

-----------------------------------------------------------------------------
(* Repetitions.                                                            *)

\* A product that fits is not negative, nor smaller than the number when the
\* multiplier is at least one.
LEMMA ProductGrows ==
  ASSUME NEW v \in Nat, NEW m \in Int \X (Nat \ {0}), m[1] >= 0,
         NEW saturates, Fits(Truncated(v * m[1], m[2]))
  PROVE  /\ Times(v, m, saturates) >= 0
         /\ m[1] >= m[2] => Times(v, m, saturates) >= v
<1> DEFINE a == m[1]
           n == m[2]
           q == (v * a) \div n
<1>1. a \in Nat /\ n \in Nat /\ n > 0
  OBVIOUS
<1>2. v * a \in Nat
  BY <1>1
<1>3. Truncated(v * a, n) = q
  BY <1>2 DEF Truncated
<1>4. q \in Int /\ v * a < n * (q + 1) /\ n * q <= v * a
  BY <1>1, <1>2
<1>5. Times(v, m, saturates) = q
  BY <1>3 DEF Times
<1> HIDE DEF a, n, q
<1>6. q >= 0
  <2> SUFFICES ASSUME q + 1 <= 0 PROVE FALSE
    BY <1>4
  <2>1. n * (q + 1) <= 0
    BY <1>1, <1>4
  <2> QED
    BY <1>2, <1>4, <2>1, <1>1
<1>7. ASSUME a >= n PROVE q >= v
  <2> SUFFICES ASSUME q + 1 <= v PROVE FALSE
    BY <1>4
  <2>1. n * (q + 1) <= n * v
    BY <1>1, <1>4
  <2>2. n * v <= a * v
    BY <1>1, <1>7
  <2>3. a * v = v * a
    BY <1>1
  <2>4. n * (q + 1) \in Int /\ n * v \in Int /\ a * v \in Int
    BY <1>1, <1>4
  <2> QED
    BY <1>2, <1>4, <2>1, <2>2, <2>3, <2>4
<1> QED
  BY <1>5, <1>6, <1>7 DEF a, n

\* What Validate accepts has no negative number but the delay of consumers.
LEMMA ValidNumbersGrow ==
  ASSUME GivenInv
  PROVE  /\ \A f \in SpecNumbers \ {"consumeDelay"} : was.num[f] \in Nat
         /\ \A i \in 1..Len(was.streams), f \in StreamNumbers :
              was.streams[i].num[f] \in Nat /\ was.streams[i].num[f] > 0
<1>1. IntRange \subseteq Int
  BY DEF IntRange
<1>2. ASSUME NEW f \in SpecNumbers \ {"consumeDelay"} PROVE was.num[f] \in Nat
  <2>1. was.num[f] \in Int
    BY <1>1 DEF GivenInv, IsSpec
  <2>2. f \in PositiveNumbers \/ f = "rampUp"
    BY DEF SpecNumbers
  <2>3. ValidNumbers(was)
    BY DEF GivenInv, ValidSpec
  <2>4. CASE f = "rampUp"
    BY <2>1, <2>3, <2>4 DEF ValidNumbers
  <2>5. CASE f \in PositiveNumbers
    <3>1. was.num[f] > 0
      BY <2>3, <2>5 DEF ValidNumbers
    <3> QED
      BY <2>1, <3>1
  <2> QED
    BY <2>2, <2>4, <2>5
<1>3. ASSUME NEW i \in 1..Len(was.streams), NEW f \in StreamNumbers
      PROVE  was.streams[i].num[f] \in Nat /\ was.streams[i].num[f] > 0
  <2>1. was.streams[i].num[f] \in Int
    <3>1. was.streams[i].num \in [StreamNumbers -> IntRange]
      BY StreamOfSpec DEF GivenInv
    <3> QED
      BY <1>1, <3>1
  <2>2. was.streams[i].num[f] > 0
    BY DEF GivenInv, ValidSpec, ValidStream
  <2> QED
    BY <2>1, <2>2
<1> QED
  BY <1>2, <1>3

\* A repetition multiplies the numbers; what was not negative is not, unless a
\* product has left the width.
LEMMA RepeatGrowsNumbers ==
  ASSUME NumInv, Repeat
  PROVE  SameInv' /\ GrownInv'
<1> DEFINE sat == given.saturates
<1>1. /\ spec' = Multiplied(spec, by, sat) /\ UNCHANGED given
      /\ wrapped' = (wrapped \/ Overflows(spec, by))
      /\ iter' = iter + 1 /\ iter < MaxIter /\ given.config.policy.enabled
  BY DEF Repeat, by
<1>2. IsSpec(spec) /\ IsSpec(was) /\ by \in Fractions
  BY DEF NumInv, IInv, NumbersInv, GivenInv
<1>3. /\ DOMAIN spec' = DOMAIN spec
      /\ \A f \in DOMAIN spec \ {"streams", "num"} : spec'[f] = spec[f]
      /\ spec'.num = [f \in SpecNumbers |-> Times(spec.num[f], by[f], sat)]
      /\ Len(spec'.streams) = Len(spec.streams)
      /\ \A i \in 1..Len(spec.streams) :
           /\ DOMAIN spec'.streams[i] = DOMAIN spec.streams[i]
           /\ \A f \in DOMAIN spec.streams[i] \ {"num"} :
                spec'.streams[i][f] = spec.streams[i][f]
           /\ spec'.streams[i].num =
                [f \in StreamNumbers |->
                   Times(spec.streams[i].num[f], by[f], sat)]
  <2> DEFINE u == Multiplied(spec, by, sat)
  <2>1. u = spec'
    BY <1>1
  <2> HIDE DEF u, sat
  <2>2. /\ DOMAIN u = DOMAIN spec
        /\ \A f \in DOMAIN spec \ {"streams", "num"} : u[f] = spec[f]
        /\ u.num = [f \in SpecNumbers |-> Times(spec.num[f], by[f], sat)]
        /\ Len(u.streams) = Len(spec.streams)
        /\ \A i \in 1..Len(spec.streams) :
             /\ DOMAIN u.streams[i] = DOMAIN spec.streams[i]
             /\ \A f \in DOMAIN spec.streams[i] \ {"num"} :
                  u.streams[i][f] = spec.streams[i][f]
             /\ u.streams[i].num =
                  [f \in StreamNumbers |->
                     Times(spec.streams[i].num[f], by[f], sat)]
    BY <1>2, MultipliedParts DEF u
  <2> QED
    BY <2>1, <2>2
<1>4. was' = was /\ by' = by /\ \A f : Grows(f)' <=> Grows(f)
  BY <1>1 DEF was, by, Grows
<1>5. SameInv'
  <2>1. \A i \in 1..Len(was.streams) :
          /\ DOMAIN spec'.streams[i] = DOMAIN was.streams[i]
          /\ \A f \in DOMAIN was.streams[i] \ {"num"} :
               spec'.streams[i][f] = was.streams[i][f]
    <3> SUFFICES ASSUME NEW i \in 1..Len(was.streams)
                 PROVE  /\ DOMAIN spec'.streams[i] = DOMAIN was.streams[i]
                        /\ \A f \in DOMAIN was.streams[i] \ {"num"} :
                             spec'.streams[i][f] = was.streams[i][f]
      OBVIOUS
    <3>1. /\ DOMAIN spec.streams[i] = DOMAIN was.streams[i]
          /\ \A f \in DOMAIN was.streams[i] \ {"num"} :
               spec.streams[i][f] = was.streams[i][f]
          /\ i \in 1..Len(spec.streams)
      BY DEF NumInv, SameInv
    <3>2. /\ DOMAIN spec'.streams[i] = DOMAIN spec.streams[i]
          /\ \A f \in DOMAIN spec.streams[i] \ {"num"} :
               spec'.streams[i][f] = spec.streams[i][f]
      BY <1>3, <3>1
    <3> QED
      BY <3>1, <3>2
  <2>2. /\ DOMAIN spec' = DOMAIN was /\ Len(spec'.streams) = Len(was.streams)
        /\ \A f \in DOMAIN was \ {"streams", "num"} : spec'[f] = was[f]
    BY <1>3 DEF NumInv, SameInv
  <2> QED
    BY <1>4, <2>1, <2>2 DEF SameInv
<1>6. ASSUME ~wrapped'
      PROVE  /\ \A f \in SpecNumbers \ {"consumeDelay"} :
                  spec'.num[f] >= 0 /\ (Grows(f) => spec'.num[f] >= was.num[f])
             /\ \A i \in 1..Len(was.streams), f \in StreamNumbers :
                  /\ spec'.streams[i].num[f] >= 0
                  /\ Grows(f) => spec'.streams[i].num[f] >= was.streams[i].num[f]
  <2>1. ~wrapped /\ ~Overflows(spec, by)
    BY <1>1, <1>6
  <2>2. IntRange \subseteq Int
    BY DEF IntRange
  <2>3. ASSUME NEW f \in SpecNumbers \ {"consumeDelay"}
        PROVE  spec'.num[f] >= 0 /\ (Grows(f) => spec'.num[f] >= was.num[f])
    <3>1. spec.num[f] \in Nat /\ (Grows(f) => spec.num[f] >= was.num[f])
      <4>1. spec.num[f] \in Int
        BY <1>2, <2>2 DEF IsSpec
      <4> QED
        BY <2>1, <4>1 DEF NumInv, GrownInv
    <3>2. by[f] \in Int \X (Nat \ {0}) /\ by[f][1] >= 0
      BY <1>1, <1>2 DEF NumInv, GivenInv, Fractions
    <3>3. Fits(Truncated(spec.num[f] * by[f][1], by[f][2]))
      BY <2>1 DEF Overflows
    <3>4. spec'.num[f] = Times(spec.num[f], by[f], sat)
      BY <1>3
    <3>5. /\ Times(spec.num[f], by[f], sat) >= 0
          /\ by[f][1] >= by[f][2] => Times(spec.num[f], by[f], sat) >= spec.num[f]
      BY <3>1, <3>2, <3>3, ProductGrows
    <3>6. was.num[f] \in Nat
      BY ValidNumbersGrow DEF NumInv
    <3>7. spec'.num[f] \in Int
      <4>1. IsSpec(spec')
        BY <1>1, <1>2, StillSpec
      <4> QED
        BY <2>2, <4>1 DEF IsSpec
    <3> QED
      BY <3>1, <3>4, <3>5, <3>6, <3>7 DEF Grows
  <2>4. ASSUME NEW i \in 1..Len(was.streams), NEW f \in StreamNumbers
        PROVE  /\ spec'.streams[i].num[f] >= 0
               /\ Grows(f) => spec'.streams[i].num[f] >= was.streams[i].num[f]
    <3>0. i \in 1..Len(spec.streams)
      BY DEF NumInv, SameInv
    <3>1. /\ spec.streams[i].num[f] \in Nat
          /\ Grows(f) => spec.streams[i].num[f] >= was.streams[i].num[f]
      <4>1. spec.streams[i].num \in [StreamNumbers -> IntRange]
        BY <1>2, <3>0, StreamOfSpec
      <4>2. spec.streams[i].num[f] \in Int
        BY <2>2, <4>1
      <4> QED
        BY <2>1, <4>2 DEF NumInv, GrownInv
    <3>2. by[f] \in Int \X (Nat \ {0}) /\ by[f][1] >= 0
      BY <1>1, <1>2 DEF NumInv, GivenInv, Fractions
    <3>3. Fits(Truncated(spec.streams[i].num[f] * by[f][1], by[f][2]))
      <4>1. i \in DOMAIN spec.streams
        BY <1>2, <3>0 DEF IsSpec
      <4> QED
        BY <2>1, <4>1 DEF Overflows
    <3>4. spec'.streams[i].num[f] = Times(spec.streams[i].num[f], by[f], sat)
      <4>1. spec'.streams[i].num =
              [g \in StreamNumbers |-> Times(spec.streams[i].num[g], by[g], sat)]
        BY <1>3, <3>0
      <4> HIDE DEF sat
      <4> QED
        BY <4>1
    <3>5. /\ Times(spec.streams[i].num[f], by[f], sat) >= 0
          /\ by[f][1] >= by[f][2] =>
               Times(spec.streams[i].num[f], by[f], sat) >= spec.streams[i].num[f]
      BY <3>1, <3>2, <3>3, ProductGrows
    <3>6. was.streams[i].num[f] \in Nat
      BY ValidNumbersGrow DEF NumInv
    <3>7. spec'.streams[i].num[f] \in Int
      <4>1. IsSpec(spec') /\ i \in 1..Len(spec'.streams)
        BY <1>1, <1>2, <1>3, <3>0, StillSpec
      <4>2. spec'.streams[i].num \in [StreamNumbers -> IntRange]
        BY <4>1, StreamOfSpec
      <4> QED
        BY <2>2, <4>2
    <3> QED
      BY <3>1, <3>4, <3>5, <3>6, <3>7 DEF Grows
  <2> QED
    BY <2>3, <2>4
<1>7. iter' \in 0..MaxIter /\ iter' # 0
  BY <1>1, SetupAssumption DEF NumInv, GrownInv
<1>8. GrownInv'
  BY <1>4, <1>6, <1>7 DEF GrownInv
<1> QED
  BY <1>5, <1>8

-----------------------------------------------------------------------------
(* What ends in a panic.                                                   *)

\* As long as the products fit, every group can be named and a message made.
LEMMA NoNegatives ==
  ASSUME NumInv, ~wrapped
  PROVE  /\ \A g \in DOMAIN spec.streams : Nameable(spec.streams[g])
         /\ spec.num["messageSize"] >= 0
<1>1. DOMAIN spec.streams = 1..Len(was.streams)
  BY DEF NumInv, IInv, NumbersInv, IsSpec, SameInv
<1>2. ASSUME NEW g \in DOMAIN spec.streams PROVE Nameable(spec.streams[g])
  <2>1. "count" \in StreamNumbers
    BY DEF StreamNumbers
  <2> QED
    BY <1>1, <2>1 DEF NumInv, GrownInv, Nameable
<1>3. spec.num["messageSize"] >= 0
  <2>1. "messageSize" \in SpecNumbers \ {"consumeDelay"}
    BY DEF SpecNumbers, PositiveNumbers
  <2> QED
    BY <2>1 DEF NumInv, GrownInv
<1> QED
  BY <1>2, <1>3

\* Only a negative number or a rate beyond one message per nanosecond panics.
LEMMA PanicCauses ==
  ASSUME NumInv, [Next]_vars, pc # "panic", pc' = "panic"
  PROVE  wrapped \/ spec.num["publishRate"] > Shortest
<1> SUFFICES ASSUME ~wrapped PROVE spec.num["publishRate"] > Shortest
  OBVIOUS
<1>0. /\ DOMAIN spec.streams = 1..Len(spec.streams)
      /\ group \in Nat \ {0} /\ Len(spec.streams) \in Nat
  BY DEF NumInv, IInv, NumbersInv, IsSpec
<1>1. CASE NextGroup
  <2>1. group \in DOMAIN spec.streams
    BY <1>0, <1>1 DEF NextGroup
  <2>2. Nameable(spec.streams[group])
    BY <2>1, NoNegatives
  <2> QED
    BY <1>1, <2>2 DEF NextGroup
<1>2. CASE CreateWorkers
  BY <1>2, NoNegatives DEF CreateWorkers
<1>3. CASE TickerPanics
  BY <1>3 DEF TickerPanics
<1>4. CASE CleanupGroup
  <2>1. CASE spec.jetStream /\ group <= Len(spec.streams)
    <3>1. group \in DOMAIN spec.streams
      BY <1>0, <2>1
    <3>2. Nameable(spec.streams[group])
      BY <3>1, NoNegatives
    <3> QED
      BY <1>4, <2>1, <3>2 DEF CleanupGroup
  <2> QED
    BY <1>4, <2>1 DEF CleanupGroup
<1>5. CASE PassCheck \/ SetupCancelled \/ DeleteStream \/ AddStream
  BY <1>5 DEF PassCheck, SetupCancelled, DeleteStream, AddStream, Retry, GiveUp
<1>6. CASE Consuming
  BY <1>6, ConsumersApart
<1>7. CASE ConsumersDone \/ Cancel \/ RunEnds \/ CleanupStream \/ Repeat
           \/ RepeatOver \/ UNCHANGED vars
  BY <1>7 DEF ConsumersDone, Cancel, RunEnds, CleanupStream, Repeat,
              RepeatOver, vars
<1> QED
  BY <1>1, <1>2, <1>3, <1>4, <1>5, <1>6, <1>7 DEF Next, StartStep, Consuming

\* Only recording why a consumer failed panics for want of lines.
LEMMA ErrorPanicCauses ==
  ASSUME NumInv, [Next]_vars, pc # "errorPanic", pc' = "errorPanic"
  PROVE  spec.maxLines <= 0
<1>1. spec.maxLines \in Int
  BY DEF NumInv, IInv, NumbersInv, IsSpec, IntRange
<1>2. ASSUME NEW k, Fail(k) PROVE spec.maxLines <= 0
  BY <1>1, <1>2 DEF Fail, Become
<1>3. CASE ConsumerStep
  <2>1. PICK k \in DOMAIN consumer : ConsumerCheck(k) \/ ConsumerStart(k)
    BY <1>3 DEF ConsumerStep
  <2>2. CASE Fail(k)
    BY <1>2, <2>2
  <2>3. CASE ~Fail(k)
    <3>1. UNCHANGED pc
      BY <2>1, <2>3, Zenon DEF ConsumerCheck, ConsumerStart, Become
    <3> QED
      BY <3>1
  <2> QED
    BY <2>2, <2>3
<1>4. CASE \E k \in bound : ConsumerDrains(k)
  BY <1>4 DEF ConsumerDrains
<1>5. CASE NextGroup \/ CreateWorkers \/ TickerPanics \/ CleanupGroup
  BY <1>5 DEF NextGroup, CreateWorkers, TickerPanics, CleanupGroup, Panic, PanicAs
<1>6. CASE PassCheck \/ SetupCancelled \/ DeleteStream \/ AddStream
  BY <1>6 DEF PassCheck, SetupCancelled, DeleteStream, AddStream, Retry, GiveUp
<1>7. CASE ConsumersDone \/ Cancel \/ RunEnds \/ CleanupStream \/ Repeat
           \/ RepeatOver \/ UNCHANGED vars
  BY <1>7 DEF ConsumersDone, Cancel, RunEnds, CleanupStream, Repeat,
              RepeatOver, vars
<1> QED
  BY <1>3, <1>4, <1>5, <1>6, <1>7 DEF Next, StartStep

\* Only Repeat touches the specification.
LEMMA SpecStays ==
  ASSUME [Next]_vars, ~Repeat
  PROVE  UNCHANGED <<given, spec, iter, wrapped>>
<1>1. CASE NextGroup
  BY <1>1 DEF NextGroup, Panic, PanicAs
<1>2. CASE CreateWorkers \/ TickerPanics
  BY <1>2 DEF CreateWorkers, TickerPanics, Panic, PanicAs
<1>3. CASE PassCheck \/ SetupCancelled \/ DeleteStream \/ AddStream
  BY <1>3 DEF PassCheck, SetupCancelled, DeleteStream, AddStream
<1>4. CASE Consuming
  BY <1>4, ConsumersApart
<1>5. CASE ConsumersDone \/ Cancel \/ RunEnds \/ CleanupGroup \/ CleanupStream
  BY <1>5 DEF ConsumersDone, Cancel, RunEnds, CleanupGroup, CleanupStream
<1>6. CASE RepeatOver \/ UNCHANGED vars
  BY <1>6 DEF RepeatOver, vars
<1> QED
  BY <1>1, <1>2, <1>3, <1>4, <1>5, <1>6 DEF Next, StartStep, Consuming

\* A panic is final.
LEMMA PanicIsFinal ==
  ASSUME [Next]_vars, pc \in {"panic", "errorPanic"}
  PROVE  ~Repeat /\ UNCHANGED pc
<1>1. ~NextGroup /\ ~PassCheck /\ ~SetupCancelled /\ ~DeleteStream /\ ~AddStream
  BY DEF NextGroup, PassCheck, SetupCancelled, DeleteStream, AddStream
<1>2. ~CreateWorkers /\ ~ConsumersDone /\ ~TickerPanics /\ ~RunEnds
  BY DEF CreateWorkers, SetupOver, ConsumersDone, TickerPanics, RunEnds
<1>3. ~Consuming
  BY DEF Consuming, ConsumerStep, ConsumerCheck, ConsumerStart, ConsumerDrains, MayDrain
<1>4. ~CleanupGroup /\ ~CleanupStream /\ ~Repeat /\ ~RepeatOver
  BY DEF CleanupGroup, CleanupStream, Repeat, RepeatOver
<1>5. Cancel \/ UNCHANGED vars
  BY <1>1, <1>2, <1>3, <1>4 DEF Next, StartStep, Consuming
<1> QED
  BY <1>4, <1>5 DEF Cancel, vars

\* Every step keeps what is known of the numbers.
LEMMA NumStep == NumInv /\ [Next]_vars => NumInv'
<1> SUFFICES ASSUME NumInv, [Next]_vars PROVE NumInv'
  OBVIOUS
<1>1. IInv'
  BY NamesStep DEF NumInv
<1>2. GivenInv' /\ SameInv' /\ GrownInv'
  <2>1. CASE Repeat
    <3>1. UNCHANGED given
      BY <2>1 DEF Repeat
    <3>2. GivenInv'
      BY <3>1 DEF NumInv, GivenInv, was, by
    <3> QED
      BY <2>1, <3>2, RepeatGrowsNumbers
  <2>2. CASE ~Repeat
    <3>1. UNCHANGED <<given, spec, iter, wrapped>>
      BY <2>2, SpecStays
    <3>2. UNCHANGED <<was, by>>
      BY <3>1 DEF was, by
    <3> QED
      BY <3>1, <3>2 DEF NumInv, GivenInv, SameInv, GrownInv, Grows
  <2> QED
    BY <2>1, <2>2
<1>3. SetupPanicsAreKnown'
  <2> SUFFICES ASSUME pc' \in {"panic", "errorPanic"}
               PROVE  SetupPanicsAreKnown'
    BY DEF SetupPanicsAreKnown
  <2>1. ~Repeat
    BY DEF Repeat
  <2>2. UNCHANGED <<spec, wrapped, Shortest>>
    BY <2>1, SpecStays DEF Shortest
  <2>3. pc' = "panic" => wrapped \/ spec.num["publishRate"] > Shortest
    BY PanicCauses DEF NumInv, SetupPanicsAreKnown
  <2>4. pc' = "errorPanic" => spec.maxLines <= 0
    BY ErrorPanicCauses DEF NumInv, SetupPanicsAreKnown
  <2> QED
    BY <2>2, <2>3, <2>4 DEF SetupPanicsAreKnown
<1> QED
  BY <1>1, <1>2, <1>3 DEF NumInv

\* An accepted configuration is a valid one with its defaults filled in.
LEMMA InitNumInv == Init => GivenInv /\ SameInv /\ GrownInv /\ SetupPanicsAreKnown
<1> SUFFICES ASSUME Init
             PROVE  GivenInv /\ SameInv /\ GrownInv /\ SetupPanicsAreKnown
  OBVIOUS
<1>1. PICK c \in Candidates :
        /\ ValidConfig(c.config) /\ IsSpec(c.config.spec)
        /\ given.config = Filled(c.config) /\ given.mode = c.mode
        /\ c.config \in [spec : {c.config.spec}, storage : {c.config.storage},
                         policy : [enabled : BOOLEAN, by : Fractions]]
  BY GivenParts
<1> DEFINE t == c.config.spec
           p == c.config.policy
<1>2. /\ IsSpec(was) /\ DOMAIN was = DOMAIN t /\ by \in Fractions
      /\ \A f \in DOMAIN t \ {"clientPrefix"} : was[f] = t[f]
      /\ given.config.policy.enabled = p.enabled
      /\ \A f \in SpecNumbers \cup StreamNumbers :
           by[f] = IF p.enabled /\ f # "rampUp" /\ p.by[f][1] <= 0
                     THEN <<1, 1>> ELSE p.by[f]
  BY <1>1, FilledParts DEF was, by
<1>3. ValidSpec(t) /\ ValidPolicy(p) /\ p \in [enabled : BOOLEAN, by : Fractions]
  BY <1>1 DEF ValidConfig
<1>4. SpecFields \subseteq DOMAIN t
  BY <1>1 DEF IsSpec
<1> HIDE DEF t, p
<1>5. ValidSpec(was)
  <2>1. \A f \in SpecFields \ {"clientPrefix"} : was[f] = t[f]
    BY <1>2, <1>4
  <2>2. /\ was.name = t.name /\ was.url = t.url /\ was.streams = t.streams
        /\ was.num = t.num
        /\ was.publisherPrefix = t.publisherPrefix
        /\ was.consumerPrefix = t.consumerPrefix
        /\ was.durablePrefix = t.durablePrefix
        /\ was.consumerType = t.consumerType /\ was.ackPolicy = t.ackPolicy
        /\ was.burst = t.burst /\ was.pattern = t.pattern
    BY <2>1 DEF SpecFields
  <2> QED
    BY <1>3, <2>2 DEF ValidSpec, ValidPublishers, ValidConsumers, ValidNumbers,
                      Synchronized
<1>6. ASSUME p.enabled, NEW f \in SpecNumbers \cup StreamNumbers
      PROVE  by[f][1] >= 0 /\ (f # "rampUp" => by[f][1] > 0)
  <2>1. p.by[f] \in Int \X (Nat \ {0})
    BY <1>3 DEF Fractions
  <2>2. CASE f = "rampUp"
    BY <1>2, <1>3, <1>6, <2>1, <2>2 DEF ValidPolicy
  <2>3. CASE f # "rampUp"
    BY <1>2, <1>6, <2>1, <2>3
  <2> QED
    BY <2>2, <2>3
<1>7. given.mode \in {"publish", "consume", "both"}
  BY <1>1, SetupAssumption
<1>8. GivenInv
  BY <1>2, <1>5, <1>6, <1>7 DEF GivenInv
<1>9. spec = was /\ iter = 0 /\ pc = "start"
  BY DEF Init, was
<1>10. IntRange \subseteq Int
  BY DEF IntRange
<1>11. GrownInv
  BY <1>8, <1>9, ValidNumbersGrow, SetupAssumption DEF GrownInv
<1> QED
  BY <1>8, <1>9, <1>11 DEF SameInv, SetupPanicsAreKnown

\* What is known of the numbers holds in every reachable state.
THEOREM Numbers == Spec => []NumInv
<1>1. Init /\ IInv => NumInv
  BY InitNumInv DEF NumInv
<1> QED
  BY <1>1, NumStep, Invariance, PTL DEF Spec

\* Setting up, growing and running a specification does not panic while the
\* products fit and the rate is below one message per nanosecond - no list of
\* negative length and no negative message size is ever asked for - and recording
\* why a consumer failed does so only without a positive max_lines.
THEOREM KnownSetupPanics == Spec => []SetupPanicsAreKnown
<1>1. NumInv => SetupPanicsAreKnown
  BY DEF NumInv
<1> QED
  BY <1>1, Numbers, PTL

-----------------------------------------------------------------------------
(* What repetitions keep.                                                  *)

\* A specification whose multipliers all grow stays valid while the products
\* fit: positive numbers stay positive, and the rest is as it was accepted.
LEMMA StaysValid ==
  ASSUME NumInv, ~wrapped, \A f \in PositiveNumbers \cup StreamNumbers : Grows(f)
  PROVE  ValidSpec(spec)
<1>0. IsSpec(spec) /\ IsSpec(was) /\ ValidSpec(was) /\ IntRange \subseteq Int
  BY DEF NumInv, IInv, NumbersInv, GivenInv, IntRange
<1>1. /\ spec.name = was.name /\ spec.url = was.url
      /\ spec.publisherPrefix = was.publisherPrefix
      /\ spec.consumerPrefix = was.consumerPrefix
      /\ spec.durablePrefix = was.durablePrefix
      /\ spec.consumerType = was.consumerType /\ spec.ackPolicy = was.ackPolicy
      /\ spec.burst = was.burst /\ spec.pattern = was.pattern
  BY <1>0 DEF NumInv, SameInv, IsSpec, SpecFields
<1>2. ASSUME NEW i \in 1..Len(was.streams)
      PROVE  /\ ValidStream(spec.streams[i])
             /\ spec.streams[i].prefix = was.streams[i].prefix
  <2> DEFINE s == was.streams[i]
             t == spec.streams[i]
  <2>1. \A f \in StreamFields \ {"num"} : t[f] = s[f]
    BY <1>0, StreamOfSpec DEF NumInv, SameInv
  <2>2. ValidStream(s)
    BY <1>0 DEF ValidSpec
  <2>3. \A f \in StreamNumbers : t.num[f] > 0
    <3> SUFFICES ASSUME NEW f \in StreamNumbers PROVE t.num[f] > 0
      OBVIOUS
    <3>1. t.num[f] \in Int
      <4>1. i \in 1..Len(spec.streams)
        BY DEF NumInv, SameInv
      <4>2. t.num \in [StreamNumbers -> IntRange]
        BY <1>0, <4>1, StreamOfSpec
      <4> QED
        BY <1>0, <4>2
    <3>2. s.num[f] \in Nat /\ s.num[f] > 0
      BY ValidNumbersGrow DEF NumInv
    <3>3. t.num[f] >= s.num[f]
      BY DEF NumInv, GrownInv
    <3> QED
      BY <3>1, <3>2, <3>3
  <2> HIDE DEF s, t
  <2>4. /\ t.prefix = s.prefix /\ t.subjects = s.subjects
        /\ t.retention = s.retention /\ t.storage = s.storage
        /\ t.discard = s.discard /\ t.maxAge = s.maxAge
        /\ t.discardNewPerSubject = s.discardNewPerSubject /\ t.limit = s.limit
    BY <2>1 DEF StreamFields
  <2>5. ValidStream(t) /\ t.prefix = s.prefix
    BY <2>2, <2>3, <2>4 DEF ValidStream
  <2> QED
    BY <2>5 DEF s, t
<1>3. /\ spec.streams # <<>> /\ Len(spec.streams) = Len(was.streams)
      /\ \A i \in 1..Len(spec.streams) : ValidStream(spec.streams[i])
  <2>1. Len(was.streams) # 0
    <3>1. was.streams # <<>>
      BY <1>0 DEF ValidSpec
    <3>2. was.streams \in Seq(ToSet(was.streams))
      BY <1>0 DEF IsSpec
    <3> QED
      BY <3>1, <3>2
  <2>2. Len(spec.streams) = Len(was.streams)
    BY DEF NumInv, SameInv
  <2>3. spec.streams # <<>>
    BY <1>0, <2>1, <2>2
  <2> QED
    BY <1>2, <2>2, <2>3
<1>4. ValidPublishers(spec) /\ ValidConsumers(spec)
  BY <1>0, <1>1 DEF ValidSpec, ValidPublishers, ValidConsumers
<1>5. ValidNumbers(spec)
  <2>1. ASSUME NEW f \in PositiveNumbers PROVE spec.num[f] > 0
    <3>1. f \in SpecNumbers \ {"consumeDelay"}
      BY DEF SpecNumbers, PositiveNumbers
    <3>2. spec.num[f] \in Int /\ was.num[f] \in Int
      BY <1>0, <3>1 DEF IsSpec
    <3>3. was.num[f] > 0
      BY <1>0 DEF ValidSpec, ValidNumbers
    <3>4. spec.num[f] >= was.num[f]
      BY <3>1 DEF NumInv, GrownInv
    <3> QED
      BY <3>2, <3>3, <3>4
  <2>2. spec.num["rampUp"] >= 0
    <3>1. "rampUp" \in SpecNumbers \ {"consumeDelay"}
      BY DEF SpecNumbers
    <3> QED
      BY <3>1 DEF NumInv, GrownInv
  <2> QED
    BY <2>1, <2>2 DEF ValidNumbers
<1>6. Synchronized(spec)
  BY <1>0, <1>1, <1>2, <1>3 DEF ValidSpec, Synchronized
<1> QED
  BY <1>0, <1>1, <1>3, <1>4, <1>5, <1>6 DEF ValidSpec

\* Multipliers of at least one never make a number of an accepted
\* configuration smaller while the products fit, and then every repetition
\* runs a specification Validate would accept.
THEOREM RepeatsGrow == Spec => []RepeatGrows
<1>1. ASSUME NumInv PROVE RepeatGrows
  <2> SUFFICES ASSUME ~wrapped
               PROVE  /\ \A f \in SpecNumbers \ {"consumeDelay"} :
                           Grows(f) => spec.num[f] >= was.num[f]
                      /\ (\A f \in PositiveNumbers \cup StreamNumbers : Grows(f))
                           => ValidSpec(spec)
    BY DEF RepeatGrows, Grows, was, by
  <2>1. \A f \in SpecNumbers \ {"consumeDelay"} :
          Grows(f) => spec.num[f] >= was.num[f]
    BY <1>1 DEF NumInv, GrownInv
  <2> QED
    BY <1>1, <2>1, StaysValid
<1> QED
  BY <1>1, Numbers, PTL

\* A group of streams with subjects gives its workers something to do.
LEMMA WorkersExist ==
  ASSUME NEW t, NEW prefix, NEW number \in Int, number > 0,
         NEW i \in DOMAIN t.streams, t.streams[i].prefix = prefix,
         t.streams[i].num["count"] \in Int, t.streams[i].num["count"] > 0,
         t.streams[i].subjects # {}
  PROVE  Workers(t, prefix, number) # {}
<1> DEFINE s == t.streams[i]
           c == StreamConfig(s, 1)
           mine == {g \in DOMAIN t.streams : t.streams[g].prefix = prefix}
           on == UNION {ToSet(OfGroup(t.streams[g])) : g \in mine}
<1>1. c \in on
  <2>1. 1 \in DOMAIN OfGroup(s) /\ OfGroup(s)[1] = c
    BY DEF OfGroup
  <2>2. c \in ToSet(OfGroup(s))
    BY <2>1 DEF ToSet
  <2> QED
    BY <2>2
<1>2. PICK x : x \in c.subjects
  <2>1. PICK template : template \in s.subjects
    OBVIOUS
  <2>2. Subject(template, 1) \in c.subjects
    BY <2>1 DEF StreamConfig
  <2> QED
    BY <2>2
<1>3. 1 \in 1..number
  OBVIOUS
<1>4. Workers(t, prefix, number) =
        UNION {{d.name} \X d.subjects \X (1..number) : d \in on}
  BY DEF Workers
<1> HIDE DEF s, c, mine, on
<1>5. <<c.name, x, 1>> \in {c.name} \X c.subjects \X (1..number)
  BY <1>2, <1>3
<1> QED
  BY <1>1, <1>4, <1>5

\* Validate lets no configuration pass that would run idle: the first run of
\* every accepted configuration has the workers the mode asks for.
THEOREM AcceptedConfigsWork == Spec => []AcceptedHasWork
<1>1. ASSUME NumInv PROVE AcceptedHasWork
  <2> SUFFICES ASSUME iter = 0
               PROVE  /\ given.mode # "consume" => Publishers # {}
                      /\ given.mode # "publish" => Consumers # {}
    BY DEF AcceptedHasWork
  <2>1. spec = was /\ IsSpec(spec) /\ ValidSpec(spec)
    BY <1>1 DEF NumInv, GrownInv, GivenInv
  <2>2. PICK i \in 1..Len(spec.streams) :
          spec.streams[i].prefix = spec.publisherPrefix
    BY <2>1 DEF ValidSpec, Synchronized
  <2>3. /\ ValidStream(spec.streams[i]) /\ i \in DOMAIN spec.streams
        /\ spec.consumerPrefix = spec.publisherPrefix
    <3>1. DOMAIN spec.streams = 1..Len(spec.streams)
      BY <2>1 DEF IsSpec
    <3>2. ValidStream(spec.streams[i])
      BY <2>1 DEF ValidSpec
    <3>3. spec.consumerPrefix = spec.publisherPrefix
      BY <2>1 DEF ValidSpec, Synchronized
    <3> QED
      BY <3>1, <3>2, <3>3
  <2>4. /\ spec.streams[i].num["count"] \in Int
        /\ spec.streams[i].num["count"] > 0
        /\ spec.streams[i].subjects # {}
    BY <2>1, <2>3, StreamOfSpec DEF ValidStream, StreamNumbers
  <2>5. \A f \in {"publishers", "consumers"} :
          spec.num[f] \in Int /\ spec.num[f] > 0
    <3>1. {"publishers", "consumers"} \subseteq PositiveNumbers
          /\ PositiveNumbers \subseteq SpecNumbers /\ IntRange \subseteq Int
      BY DEF PositiveNumbers, SpecNumbers, IntRange
    <3> QED
      BY <2>1, <3>1 DEF ValidSpec, ValidNumbers, IsSpec
  <2>6. Workers(spec, spec.publisherPrefix, spec.num["publishers"]) # {}
    BY <2>2, <2>3, <2>4, <2>5, WorkersExist
  <2>7. Workers(spec, spec.consumerPrefix, spec.num["consumers"]) # {}
    BY <2>2, <2>3, <2>4, <2>5, WorkersExist
  <2> QED
    BY <2>6, <2>7 DEF Publishers, Consumers
<1> QED
  BY <1>1, Numbers, PTL

-----------------------------------------------------------------------------
(* The steps of a run: its streams.                                        *)

\* The specification's streams have distinct indices and natural numbers.
LEMMA GroupFacts ==
  ASSUME NumInv
  PROVE  /\ DOMAIN spec.streams = 1..Len(spec.streams)
         /\ Len(spec.streams) \in Nat /\ group \in Nat \ {0} /\ iter \in Nat
         /\ \A g \in 1..Len(spec.streams) : spec.streams[g].num["count"] \in Int
         /\ Len(todo) \in Nat /\ (Len(todo) = 0 <=> todo = <<>>)
         /\ todo # <<>> => Head(todo) = todo[1]
<1>1. /\ IsSpec(spec) /\ todo \in Seq(ToSet(todo)) /\ group \in Nat \ {0}
      /\ iter \in 0..MaxIter
  BY DEF NumInv, IInv, NumbersInv, GrownInv
<1>2. \A g \in 1..Len(spec.streams) : spec.streams[g].num["count"] \in Int
  BY <1>1, StreamOfSpec
<1>3. DOMAIN spec.streams = 1..Len(spec.streams) /\ Len(spec.streams) \in Nat
  BY <1>1 DEF IsSpec
<1>4. /\ Len(todo) \in Nat /\ (Len(todo) = 0 <=> todo = <<>>)
      /\ todo # <<>> => Head(todo) = todo[1]
  BY <1>1
<1>5. iter \in Nat
  BY <1>1, SetupAssumption
<1> QED
  BY <1>1, <1>2, <1>3, <1>4, <1>5

\* Where nothing looks at the list and at the server, nothing is known.
LEMMA StreamsAside ==
  ASSUME pc' \in {"cleanup", "next", "over", "panic", "errorPanic"}
  PROVE  StreamsInv'
BY DEF StreamsInv, TodoInv, AddInv, MadeInv, Passed

\* What these parts look at.
LEMMA StreamsFrame ==
  ASSUME StreamsInv, UNCHANGED <<pc, spec, iter, group, todo, server>>
  PROVE  StreamsInv'
BY DEF StreamsInv, TodoInv, AddInv, MadeInv, Passed, Made, DistinctPrefixes

\* The next group is all to do.
LEMMA GroupBegins ==
  ASSUME NumInv, StreamsInv, NextGroup
  PROVE  StreamsInv'
<1>1. CASE ~Nameable(spec.streams[group])
  BY <1>1, StreamsAside DEF NextGroup, Panic, PanicAs
<1>2. CASE Nameable(spec.streams[group])
  <2> DEFINE n == spec.streams[group].num["count"]
  <2>1. /\ todo' = OfGroup(spec.streams[group]) /\ group' = group + 1
        /\ pc = "start" /\ pc' = IF todo' = <<>> THEN "start" ELSE "delete"
        /\ group <= Len(spec.streams) /\ UNCHANGED <<spec, iter, server>>
    BY <1>2 DEF NextGroup
  <2>2. group \in 1..Len(spec.streams) /\ group' - 1 = group /\ group \in Nat
    BY <2>1, GroupFacts
  <2>3. n \in Nat
    BY <1>2, <2>2, GroupFacts DEF Nameable
  <2>4. /\ Len(todo') = n
        /\ \A j \in 1..n : todo'[j] = StreamConfig(spec.streams[group], j)
    BY <2>1, <2>3 DEF OfGroup
  <2>5. todo' = <<>> => n = 0
    BY <2>4
  <2> HIDE DEF n
  <2>6. TodoInv'
    <3>1. \A j \in 1..n : n - n + j = j
      BY <2>3
    <3> QED
      BY <2>1, <2>2, <2>3, <2>4, <3>1 DEF TodoInv, n
  <2>7. MadeInv'
    <3> SUFFICES ASSUME spec.jetStream, DistinctPrefixes,
                        NEW g \in 1..Len(spec.streams),
                        NEW i \in 1..spec.streams[g].num["count"], Passed(g, i)'
                 PROVE  Made(g, i)
      BY <2>1 DEF MadeInv, Made, DistinctPrefixes
    <3>1. g < group + 1 /\ (g = group => n = 0)
      BY <2>1, <2>2, <2>3, <2>4, <2>5, GroupFacts DEF Passed, n
    <3>2. g # group
      BY <3>1 DEF n
    <3>3. Passed(g, i)
      BY <2>1, <2>2, <3>1, <3>2 DEF Passed
    <3> QED
      BY <3>3 DEF StreamsInv, MadeInv
  <2>8. AddInv'
    BY <2>1 DEF AddInv
  <2> QED
    BY <2>6, <2>7, <2>8 DEF StreamsInv
<1> QED
  BY <1>1, <1>2

\* The stream SetupStreams has come to, and how its name differs from those of
\* the streams it has come past.
LEMMA HeadOfGroup ==
  ASSUME NumInv, StreamsInv, pc \in {"delete", "add"}
  PROVE  LET g == group - 1
             k == spec.streams[g].num["count"] - Len(todo) + 1
         IN /\ g \in 1..Len(spec.streams)
            /\ k \in 1..spec.streams[g].num["count"]
            /\ Head(todo) = StreamConfig(spec.streams[g], k)
            /\ DistinctPrefixes =>
                 \A h \in 1..Len(spec.streams) :
                   \A i \in 1..spec.streams[h].num["count"] :
                     Passed(h, i) =>
                       StreamConfig(spec.streams[h], i).name # Head(todo).name
<1> DEFINE g == group - 1
           n == spec.streams[g].num["count"]
           k == n - Len(todo) + 1
<1>1. /\ g \in 1..Len(spec.streams) /\ Len(todo) <= n
      /\ \A j \in 1..Len(todo) :
           todo[j] = StreamConfig(spec.streams[g], n - Len(todo) + j)
  BY DEF StreamsInv, TodoInv
<1>2. Len(todo) \in Nat /\ Len(todo) >= 1 /\ Head(todo) = todo[1]
  <2>1. todo # <<>>
    BY DEF NumInv, IInv, NumbersInv
  <2> QED
    BY <2>1, GroupFacts
<1>3. n \in Int
  BY <1>1, GroupFacts
<1>4. k \in 1..n /\ Head(todo) = StreamConfig(spec.streams[g], k)
  <2>1. k \in 1..n
    <3> HIDE DEF n
    <3> QED
      BY <1>1, <1>2, <1>3
  <2>2. 1 \in 1..Len(todo)
    BY <1>2
  <2>3. todo[1] = StreamConfig(spec.streams[g], n - Len(todo) + 1)
    BY <1>1, <2>2
  <2> QED
    BY <1>2, <2>1, <2>3
<1>5. ASSUME DistinctPrefixes, NEW h \in 1..Len(spec.streams),
             NEW i \in 1..spec.streams[h].num["count"], Passed(h, i)
      PROVE  StreamConfig(spec.streams[h], i).name # Head(todo).name
  <2>1. /\ StreamConfig(spec.streams[h], i).name = <<spec.streams[h].prefix, i>>
        /\ Head(todo).name = <<spec.streams[g].prefix, k>>
    BY <1>4 DEF StreamConfig
  <2>2. h < g \/ (h = g /\ i <= n - Len(todo))
    BY <1>5 DEF Passed
  <2>3. CASE h < g
    <3>1. h # g
      BY <1>1, <2>3
    <3>2. spec.streams[h].prefix # spec.streams[g].prefix
      BY <1>1, <1>5, <3>1, GroupFacts DEF DistinctPrefixes
    <3> QED
      BY <2>1, <3>2
  <2>4. CASE h = g /\ i <= n - Len(todo)
    <3>1. i # k
      BY <1>2, <1>3, <2>4
    <3> QED
      BY <2>1, <3>1
  <2> QED
    BY <2>2, <2>3, <2>4
<1> QED
  BY <1>1, <1>4, <1>5

\* Deleting the stream it has come to leaves the others.
LEMMA DeletionSpares ==
  ASSUME NumInv, StreamsInv, pc = "delete", UNCHANGED <<spec, iter, group, todo>>,
         server' \in {server, Without(Head(todo).name)},
         pc' \in {"delete", "add"}
  PROVE  TodoInv' /\ MadeInv'
<1>1. TodoInv'
  BY DEF StreamsInv, TodoInv
<1>2. MadeInv'
  <2> SUFFICES ASSUME spec.jetStream, DistinctPrefixes,
                      NEW g \in 1..Len(spec.streams),
                      NEW i \in 1..spec.streams[g].num["count"], Passed(g, i)'
               PROVE  [config |-> StreamConfig(spec.streams[g], i), since |-> iter]
                        \in server'
    BY DEF MadeInv, Made, DistinctPrefixes
  <2>1. Passed(g, i)
    BY DEF Passed
  <2>2. Made(g, i)
    BY <2>1 DEF StreamsInv, MadeInv
  <2>3. StreamConfig(spec.streams[g], i).name # Head(todo).name
    BY <2>1, HeadOfGroup
  <2> QED
    BY <2>2, <2>3 DEF Made, Without
<1> QED
  BY <1>1, <1>2

\* A stream is deleted, or another attempt is made.
LEMMA StreamDeleted ==
  ASSUME NumInv, StreamsInv, DeleteStream
  PROVE  StreamsInv'
<1>1. /\ pc = "delete" /\ UNCHANGED <<spec, iter>>
      /\ server' \in {server, Without(Head(todo).name)}
  BY DEF DeleteStream
<1>2. CASE /\ server' = Without(Head(todo).name) /\ pc' = "add"
           /\ UNCHANGED <<group, todo>>
  <2>1. AddInv'
    BY <1>2 DEF AddInv, Without
  <2> QED
    BY <1>1, <1>2, <2>1, DeletionSpares DEF StreamsInv
<1>3. CASE Retry
  <2>1. CASE UNCHANGED <<pc, group, todo>>
    BY <1>1, <2>1, DeletionSpares DEF StreamsInv, AddInv
  <2>2. CASE GiveUp
    BY <2>2, StreamsAside DEF GiveUp
  <2> QED
    BY <1>3, <2>1, <2>2 DEF Retry
<1> QED
  BY <1>2, <1>3 DEF DeleteStream

\* The stream that is added is there and of this iteration.
LEMMA AddedIsThere ==
  ASSUME StreamsInv, pc = "add"
  PROVE  /\ [config |-> Head(todo), since |-> iter] \in With(Head(todo))
         /\ server \subseteq With(Head(todo))
         /\ \A s \in With(Head(todo)) : s.config.name = Head(todo).name =>
              s = [config |-> Head(todo), since |-> iter]
<1>1. CASE Head(todo).name \in Names
  BY <1>1 DEF With, Names, StreamsInv, AddInv
<1>2. CASE Head(todo).name \notin Names
  BY <1>2 DEF With, Names
<1> QED
  BY <1>1, <1>2

\* A stream is added, or another attempt is made.
LEMMA StreamAdded ==
  ASSUME NumInv, StreamsInv, AddStream
  PROVE  StreamsInv'
<1>1. pc = "add" /\ UNCHANGED <<spec, iter>> /\ server' \in {server, With(Head(todo))}
  BY DEF AddStream
<1>2. CASE /\ server' = With(Head(todo)) /\ todo' = Tail(todo) /\ UNCHANGED group
           /\ pc' = IF Tail(todo) = <<>> THEN "start" ELSE "delete"
  <2> DEFINE g == group - 1
             n == spec.streams[g].num["count"]
             k == n - Len(todo) + 1
  <2>1. /\ g \in 1..Len(spec.streams) /\ k \in 1..n
        /\ Head(todo) = StreamConfig(spec.streams[g], k)
    BY <1>1, HeadOfGroup
  <2>2. /\ todo # <<>> /\ todo \in Seq(ToSet(todo))
        /\ Len(todo) \in Nat /\ Len(todo) >= 1 /\ n \in Int
    BY <1>1, <2>1, GroupFacts DEF NumInv, IInv, NumbersInv
  <2>3. /\ Len(todo') = Len(todo) - 1
        /\ \A j \in 1..Len(todo') : todo'[j] = todo[j + 1]
        /\ Tail(todo) = <<>> <=> Len(todo) = 1
    <3>1. /\ Tail(todo) \in Seq(ToSet(todo)) /\ Len(Tail(todo)) = Len(todo) - 1
          /\ \A j \in 1..Len(Tail(todo)) : Tail(todo)[j] = todo[j + 1]
      BY <2>2, HeadTailProperties
    <3>2. Tail(todo) = <<>> <=> Len(Tail(todo)) = 0
      BY <3>1, EmptySeq, Zenon
    <3> QED
      BY <1>2, <2>2, <3>1, <3>2
  <2>4. /\ Len(todo) <= n
        /\ \A j \in 1..Len(todo) :
             todo[j] = StreamConfig(spec.streams[g], n - Len(todo) + j)
    BY <1>1 DEF StreamsInv, TodoInv
  <2>5. UNCHANGED <<g, n>>
    BY <1>1, <1>2
  <2> HIDE DEF n
  <2>6. TodoInv'
    <3>1. \A j \in 1..Len(todo') :
            todo'[j] = StreamConfig(spec.streams[g], n - Len(todo') + j)
      <4> SUFFICES ASSUME NEW j \in 1..Len(todo')
                   PROVE  todo'[j] = StreamConfig(spec.streams[g], n - Len(todo') + j)
        OBVIOUS
      <4>1. j + 1 \in 1..Len(todo) /\ n - Len(todo) + (j + 1) = n - Len(todo') + j
        BY <2>2, <2>3
      <4> QED
        BY <2>3, <2>4, <4>1
    <3>2. Len(todo') <= n
      BY <2>2, <2>3, <2>4
    <3> QED
      BY <1>1, <1>2, <2>1, <3>1, <3>2 DEF TodoInv, n
  <2>7. MadeInv'
    <3> SUFFICES ASSUME spec.jetStream, DistinctPrefixes,
                        NEW h \in 1..Len(spec.streams),
                        NEW i \in 1..spec.streams[h].num["count"], Passed(h, i)'
                 PROVE  [config |-> StreamConfig(spec.streams[h], i), since |-> iter]
                          \in server'
      BY <1>1 DEF MadeInv, Made, DistinctPrefixes
    <3>1. Passed(h, i) \/ (h = g /\ i = k)
      <4>1. group \in Nat /\ h \in Nat /\ i \in Int
        BY <2>1, GroupFacts
      <4>2. CASE pc' = "start"
        <5>1. h < group /\ Len(todo) = 1
          BY <1>2, <2>3, <4>2 DEF Passed
        <5>2. h < group - 1 \/ (h = g /\ i <= n)
          BY <4>1, <5>1 DEF n
        <5> QED
          BY <1>1, <2>2, <4>1, <5>1, <5>2 DEF Passed, n
      <4>3. CASE pc' = "delete"
        <5>1. h < group - 1 \/ (h = g /\ i <= n - Len(todo'))
          BY <1>1, <1>2, <4>3 DEF Passed, n
        <5> QED
          <6>1. CASE h < group - 1
            BY <1>1, <6>1 DEF Passed
          <6>2. CASE h = g /\ i <= n - Len(todo)
            BY <1>1, <6>2 DEF Passed, n
          <6>3. i <= n - Len(todo') => i <= n - Len(todo) \/ i = k
            <7>1. n \in Int /\ Len(todo) \in Nat /\ Len(todo') = Len(todo) - 1
              BY <2>2, <2>3
            <7> QED
              BY <4>1, <7>1
          <6> QED
            BY <5>1, <6>1, <6>2, <6>3
      <4> QED
        BY <1>2, <4>2, <4>3
    <3>2. CASE Passed(h, i)
      <4>1. Made(h, i)
        BY <3>2 DEF StreamsInv, MadeInv
      <4> QED
        BY <1>1, <1>2, <4>1, AddedIsThere DEF Made
    <3>3. CASE h = g /\ i = k
      BY <1>1, <1>2, <2>1, <3>3, AddedIsThere
    <3> QED
      BY <3>1, <3>2, <3>3
  <2>8. AddInv'
    BY <1>2 DEF AddInv
  <2> QED
    BY <2>6, <2>7, <2>8 DEF StreamsInv
<1>3. CASE Retry
  <2>1. CASE UNCHANGED <<pc, group, todo>>
    <3>1. AddInv'
      BY <1>1, <2>1, AddedIsThere DEF AddInv, StreamsInv
    <3>2. TodoInv'
      BY <1>1, <2>1 DEF TodoInv, StreamsInv
    <3>3. server \subseteq server'
      BY <1>1, AddedIsThere
    <3>4. MadeInv'
      BY <1>1, <2>1, <3>3 DEF MadeInv, Made, Passed, DistinctPrefixes, StreamsInv
    <3> QED
      BY <3>1, <3>2, <3>4 DEF StreamsInv
  <2>2. CASE GiveUp
    BY <2>2, StreamsAside DEF GiveUp
  <2> QED
    BY <1>3, <2>1, <2>2 DEF Retry
<1> QED
  BY <1>2, <1>3 DEF AddStream

\* All groups are over when the workers are made.
LEMMA WorkersFindStreams ==
  ASSUME NumInv, StreamsInv, CreateWorkers
  PROVE  StreamsInv'
<1>1. pc = "start" /\ (spec.jetStream => group > Len(spec.streams))
  BY DEF CreateWorkers, SetupOver
<1>2. CASE pc' = "panic"
  BY <1>2, StreamsAside
<1>3. CASE pc' = "consumers" /\ UNCHANGED <<spec, iter, group, todo, server>>
  <2>1. TodoInv' /\ AddInv'
    BY <1>3 DEF TodoInv, AddInv
  <2>2. MadeInv'
    <3> SUFFICES ASSUME spec.jetStream, DistinctPrefixes,
                        NEW g \in 1..Len(spec.streams),
                        NEW i \in 1..spec.streams[g].num["count"]
                 PROVE  Made(g, i)
      BY <1>3 DEF MadeInv, Made, DistinctPrefixes
    <3>1. g < group
      BY <1>1, GroupFacts
    <3>2. Passed(g, i)
      BY <1>1, <3>1 DEF Passed
    <3> QED
      BY <3>2 DEF StreamsInv, MadeInv
  <2> QED
    BY <2>1, <2>2 DEF StreamsInv
<1> QED
  BY <1>2, <1>3 DEF CreateWorkers, Panic, PanicAs

\* Every step keeps what is known of the streams of the run.
LEMMA StreamsStep == NumInv /\ StreamsInv /\ [Next]_vars => StreamsInv'
<1> SUFFICES ASSUME NumInv, StreamsInv, [Next]_vars PROVE StreamsInv'
  OBVIOUS
<1>1. CASE PassCheck \/ Cancel \/ UNCHANGED vars
  BY <1>1, StreamsFrame DEF PassCheck, Cancel, vars, progress
<1>2. CASE Consuming
  <2>1. pc' \in {pc, "errorPanic"} /\ UNCHANGED <<spec, iter, group, todo, server>>
    BY <1>2, ConsumersApart
  <2> QED
    BY <2>1, StreamsFrame, StreamsAside
<1>3. CASE SetupCancelled \/ TickerPanics \/ RunEnds \/ RepeatOver
  BY <1>3, StreamsAside
  DEF SetupCancelled, GiveUp, TickerPanics, Panic, PanicAs, RunEnds, RepeatOver
<1>4. CASE CleanupGroup \/ CleanupStream
  BY <1>4, StreamsAside DEF CleanupGroup, CleanupStream
<1>5. CASE ConsumersDone
  <2>1. CASE pc' = "running"
    BY <1>5, <2>1
    DEF ConsumersDone, StreamsInv, TodoInv, AddInv, MadeInv, Passed, Made,
        DistinctPrefixes
  <2>2. CASE pc' = "cleanup"
    BY <2>2, StreamsAside
  <2> QED
    BY <1>5, <2>1, <2>2 DEF ConsumersDone
<1>6. CASE Repeat
  <2>1. pc' = "start" /\ group' = 1
    BY <1>6 DEF Repeat
  <2>2. \A g \in 1..Len(spec'.streams) : ~(g < 1)
    OBVIOUS
  <2> QED
    BY <2>1, <2>2 DEF StreamsInv, TodoInv, AddInv, MadeInv, Passed
<1> QED
  BY <1>1, <1>2, <1>3, <1>4, <1>5, <1>6, GroupBegins, StreamDeleted, StreamAdded,
     WorkersFindStreams DEF Next, StartStep, Consuming

-----------------------------------------------------------------------------
(* The steps of a run: its consumers, and the rest.                        *)

\* A failed call is tried again, within the attempts, or Start gives up.
LEMMA RetryAttempts ==
  ASSUME attempt \in 1..Steps, Retry
  PROVE  attempt' \in 1..Steps /\ pc' \in {pc, "cleanup"}
BY SetupAssumption DEF Retry, GiveUp

\* One consumer changes its state, and is subscribed when it has started.
LEMMA ConsumerMoves ==
  ASSUME ConsumerInv, pc = "consumers", NEW k \in DOMAIN consumer,
         consumer[k][1] # "started",
         NEW state \in {"check", "call", "started", "failed"} \X (1..Steps),
         consumer' = [consumer EXCEPT ![k] = state],
         bound' = IF state[1] = "started" THEN bound \cup {k} ELSE bound,
         UNCHANGED <<pc, attempt, given, spec, cancelled>>
  PROVE  ConsumerInv'
<1>1. /\ DOMAIN consumer = Consumers /\ attempt \in 1..Steps
      /\ bound \subseteq Started /\ (bound = Started \/ cancelled)
      /\ consumer \in [Consumers ->
                          {"check", "call", "started", "failed"} \X (1..Steps)]
  BY DEF ConsumerInv
<1>2. Consumers' = Consumers
  BY DEF Consumers
<1>3. /\ DOMAIN consumer' = Consumers
      /\ consumer' \in [Consumers ->
                           {"check", "call", "started", "failed"} \X (1..Steps)]
  BY <1>1
<1>4. Started' = IF state[1] = "started" THEN Started \cup {k} ELSE Started
  <2>1. \A c \in Consumers :
          consumer'[c] = IF c = k THEN state ELSE consumer[c]
    BY <1>1
  <2> QED
    BY <1>1, <1>3, <2>1 DEF Started
<1> QED
  BY <1>1, <1>2, <1>3, <1>4 DEF ConsumerInv

\* Nothing is known of the consumers after a panic.
LEMMA ConsumersPanic ==
  ASSUME ConsumerInv, pc' = "errorPanic", UNCHANGED <<attempt, consumer>>
  PROVE  ConsumerInv'
BY DEF ConsumerInv

\* A consumer looks at its context, or one of its attempts ends.
LEMMA ConsumerKeeps ==
  ASSUME ConsumerInv, ConsumerStep
  PROVE  ConsumerInv'
<1>1. PICK k \in DOMAIN consumer : ConsumerCheck(k) \/ ConsumerStart(k)
  BY DEF ConsumerStep
<1>2. pc = "consumers" /\ consumer[k][1] \in {"check", "call"}
  BY <1>1 DEF ConsumerCheck, ConsumerStart
<1>3. /\ consumer[k] \in {"check", "call", "started", "failed"} \X (1..Steps)
      /\ consumer[k][2] \in 1..Steps /\ Steps \in Nat \ {0}
  BY SetupAssumption DEF ConsumerInv
<1>4. ASSUME NEW state \in {"check", "call", "started", "failed"} \X (1..Steps),
             Become(k, state),
             bound' = IF state[1] = "started" THEN bound \cup {k} ELSE bound
      PROVE  ConsumerInv'
  <2>1. /\ consumer' = [consumer EXCEPT ![k] = state]
        /\ UNCHANGED <<pc, attempt, given, spec, cancelled>>
    BY <1>4 DEF Become
  <2> QED
    BY <1>2, <1>4, <2>1, ConsumerMoves
<1>5. ASSUME NEW what \in {"call", "check", "failed"}, NEW n \in 1..Steps,
             Become(k, <<what, n>>), UNCHANGED bound
      PROVE  ConsumerInv'
  <2> DEFINE state == <<what, n>>
  <2>1. /\ state \in {"check", "call", "started", "failed"} \X (1..Steps)
        /\ state[1] # "started"
    OBVIOUS
  <2>2. Become(k, state)
    BY <1>5
  <2> HIDE DEF state
  <2> QED
    BY <1>4, <1>5, <2>1, <2>2
<1>6. CASE Fail(k)
  <2>1. CASE PanicAs("errorPanic")
    BY <2>1, ConsumersPanic DEF PanicAs, progress
  <2>2. CASE Become(k, <<"failed", consumer[k][2]>>) /\ UNCHANGED bound
    BY <1>3, <1>5, <2>2
  <2> QED
    BY <1>6, <2>1, <2>2 DEF Fail
<1>7. CASE Become(k, <<"call", consumer[k][2]>>) /\ UNCHANGED bound
  BY <1>3, <1>5, <1>7
<1>8. CASE Become(k, <<"started", 1>>) /\ bound' = bound \cup {k}
  <2> DEFINE state == <<"started", 1>>
  <2>1. /\ state \in {"check", "call", "started", "failed"} \X (1..Steps)
        /\ state[1] = "started"
    BY <1>3
  <2>2. Become(k, state)
    BY <1>8
  <2> HIDE DEF state
  <2> QED
    BY <1>4, <1>8, <2>1, <2>2
<1>9. CASE /\ consumer[k][2] < Steps /\ UNCHANGED bound
           /\ Become(k, <<"check", consumer[k][2] + 1>>)
  <2>1. consumer[k][2] + 1 \in 1..Steps
    BY <1>3, <1>9
  <2> QED
    BY <1>5, <1>9, <2>1
<1> QED
  BY <1>1, <1>6, <1>7, <1>8, <1>9, Zenon DEF ConsumerCheck, ConsumerStart

\* A consumer is drained, which the engine's context allows.
LEMMA DrainKeeps ==
  ASSUME ConsumerInv, \E k \in bound : ConsumerDrains(k)
  PROVE  ConsumerInv'
<1>1. /\ MayDrain /\ bound' \subseteq bound
      /\ UNCHANGED <<pc, attempt, consumer, given, spec, cancelled>>
  BY DEF ConsumerDrains, progress
<1>2. UNCHANGED <<Consumers, Publishers, Started>>
  BY <1>1 DEF Consumers, Publishers, Started
<1>3. MayDrain'
  BY <1>1, <1>2 DEF MayDrain
<1>4. pc = "consumers" => cancelled
  BY <1>1 DEF MayDrain
<1> QED
  BY <1>1, <1>2, <1>3, <1>4 DEF ConsumerInv

\* Every step keeps what is known of the consumers and of where the run is.
LEMMA ConsumersStep ==
  NumInv /\ ConsumerInv /\ PhaseInv /\ [Next]_vars => ConsumerInv' /\ PhaseInv'
<1> SUFFICES ASSUME NumInv, ConsumerInv, PhaseInv, [Next]_vars
             PROVE  ConsumerInv' /\ PhaseInv'
  OBVIOUS
<1>1. CASE /\ UNCHANGED <<pc, attempt, given, spec, consumer, bound>>
           /\ cancelled => cancelled'
  <2>1. UNCHANGED <<Consumers, Publishers, Started>>
    BY <1>1 DEF Consumers, Publishers, Started
  <2>2. MayDrain => MayDrain'
    BY <1>1, <2>1 DEF MayDrain
  <2> QED
    BY <1>1, <2>1, <2>2 DEF ConsumerInv, PhaseInv
<1>2. CASE PassCheck \/ Cancel \/ UNCHANGED vars
  BY <1>1, <1>2 DEF PassCheck, Cancel, vars, progress
<1>3. CASE NextGroup
  <2>1. /\ UNCHANGED <<attempt, consumer, bound>> /\ pc = "start"
        /\ pc' \in {"start", "delete", "panic"}
    BY <1>3 DEF NextGroup, Panic, PanicAs, progress
  <2> QED
    BY <2>1 DEF ConsumerInv, PhaseInv
<1>4. CASE SetupCancelled
  BY <1>4, SetupAssumption DEF SetupCancelled, GiveUp, ConsumerInv, PhaseInv
<1>5. CASE DeleteStream \/ AddStream
  <2>1. /\ UNCHANGED <<consumer, bound>> /\ pc \in {"delete", "add"}
        /\ attempt \in 1..Steps
    BY <1>5 DEF DeleteStream, AddStream, ConsumerInv
  <2>2. (attempt' = 1 /\ pc' \in {"add", "start", "delete"}) \/ Retry
    BY <1>5 DEF DeleteStream, AddStream
  <2>3. attempt' \in 1..Steps /\ pc' \in {"delete", "add", "start", "cleanup"}
    BY <2>1, <2>2, RetryAttempts, SetupAssumption
  <2> QED
    BY <2>1, <2>3 DEF ConsumerInv, PhaseInv
<1>6. CASE CreateWorkers
  <2>1. CASE pc' = "panic" /\ UNCHANGED <<attempt, consumer>>
    BY <2>1 DEF ConsumerInv, PhaseInv
  <2>2. CASE /\ consumer' = [k \in Consumers |-> <<"check", 1>>]
             /\ pc' = "consumers" /\ UNCHANGED <<attempt, given, spec, bound>>
    <3>1. bound = {} /\ attempt \in 1..Steps
      BY <1>6 DEF CreateWorkers, SetupOver, ConsumerInv
    <3>2. Consumers' = Consumers
      BY <2>2 DEF Consumers
    <3>3. <<"check", 1>> \in {"check", "call", "started", "failed"} \X (1..Steps)
          /\ <<"check", 1>>[1] # "started"
      BY SetupAssumption
    <3>4. /\ DOMAIN consumer' = Consumers
          /\ \A k \in Consumers : consumer'[k] = <<"check", 1>>
          /\ consumer' \in [Consumers ->
                               {"check", "call", "started", "failed"} \X (1..Steps)]
      BY <2>2, <3>3
    <3>5. bound' = Started'
      BY <2>2, <3>1, <3>3, <3>4 DEF Started
    <3> QED
      BY <2>2, <3>1, <3>2, <3>4, <3>5 DEF ConsumerInv, PhaseInv
  <2> QED
    BY <1>6, <2>1, <2>2 DEF CreateWorkers, Panic, PanicAs, progress
<1>7. CASE Consuming
  BY <1>7, ConsumerKeeps, DrainKeeps, ConsumersApart DEF Consuming, PhaseInv
<1>8. CASE ConsumersDone
  <2>1. /\ UNCHANGED <<given, spec, attempt, consumer, bound, cancelled>>
        /\ pc = "consumers" /\ pc' \in {"running", "cleanup"}
        /\ pc' = "running" => \A k \in DOMAIN consumer : consumer[k][1] = "started"
    BY <1>8 DEF ConsumersDone
  <2>2. Consumers' = Consumers
    BY <2>1 DEF Consumers
  <2>3. pc' = "running" =>
          bound \subseteq Consumers /\ (bound = Consumers \/ MayDrain')
    BY <2>1 DEF ConsumerInv, Started, MayDrain
  <2> QED
    BY <2>1, <2>2, <2>3 DEF ConsumerInv, PhaseInv
<1>9. CASE CleanupGroup
  <2>1. /\ consumer' = <<>> /\ bound' = {} /\ UNCHANGED attempt
        /\ pc' \in {"cleanup", "panic", "next"}
    BY <1>9 DEF CleanupGroup
  <2>2. \A S : <<>> \in [DOMAIN <<>> -> S]
    OBVIOUS
  <2> QED
    BY <2>1, <2>2 DEF ConsumerInv, PhaseInv
<1>10. CASE TickerPanics \/ RunEnds \/ CleanupStream
  <2>1. /\ UNCHANGED <<attempt, consumer>> /\ pc' \in {"panic", "cleanup"}
    BY <1>10 DEF TickerPanics, RunEnds, CleanupStream, Panic, PanicAs, progress
  <2> QED
    BY <2>1 DEF ConsumerInv, PhaseInv
<1>11. CASE Repeat \/ RepeatOver
  <2>1. /\ UNCHANGED <<attempt, consumer, bound>> /\ pc = "next"
        /\ pc' \in {"start", "over"}
    BY <1>11 DEF Repeat, RepeatOver, progress
  <2> QED
    BY <2>1 DEF ConsumerInv, PhaseInv
<1> QED
  BY <1>2, <1>3, <1>4, <1>5, <1>6, <1>7, <1>8, <1>9, <1>10, <1>11
  DEF Next, StartStep, Consuming

\* No stream is of an iteration to come.
LEMMA SinceStep == NumInv /\ SinceInv /\ [Next]_vars => SinceInv'
<1> SUFFICES ASSUME NumInv, SinceInv, [Next]_vars PROVE SinceInv'
  OBVIOUS
<1>1. iter \in Nat
  BY GroupFacts
<1>2. iter' \in {iter, iter + 1}
  <2>1. CASE Repeat
    BY <2>1 DEF Repeat
  <2>2. CASE ~Repeat
    BY <2>2, SpecStays
  <2> QED
    BY <2>1, <2>2
<1>3. \A s \in server' : s \in server \/ s.since = iter
  <2>1. CASE DeleteStream \/ CleanupStream
    BY <2>1 DEF DeleteStream, CleanupStream, Without
  <2>2. CASE AddStream
    <3>1. server' \in {server, With(Head(todo))}
      BY <2>2 DEF AddStream
    <3> QED
      BY <3>1 DEF With
  <2>3. CASE Consuming
    BY <2>3, ConsumersApart
  <2>4. CASE NextGroup \/ PassCheck \/ SetupCancelled \/ CreateWorkers
             \/ ConsumersDone \/ Cancel
    BY <2>4 DEF NextGroup, PassCheck, SetupCancelled, CreateWorkers,
                ConsumersDone, Cancel, Panic, PanicAs
  <2>5. CASE TickerPanics \/ RunEnds \/ CleanupGroup \/ Repeat \/ RepeatOver
             \/ UNCHANGED vars
    BY <2>5 DEF TickerPanics, RunEnds, CleanupGroup, Repeat, RepeatOver, Panic, PanicAs,
                vars
  <2> QED
    BY <2>1, <2>2, <2>3, <2>4, <2>5 DEF Next, StartStep, Consuming
<1> QED
  BY <1>1, <1>2, <1>3 DEF SinceInv

-----------------------------------------------------------------------------
(* What holds in every run.                                                *)

\* What is known of a run holds in every reachable state.
THEOREM Runs == Spec => [](NumInv /\ RunInv)
<1>1. Init => RunInv
  <2> SUFFICES ASSUME Init PROVE RunInv
    OBVIOUS
  <2>1. pc = "start" /\ group = 1 /\ server = {} /\ bound = {}
        /\ consumer = <<>> /\ attempt = 1 /\ iter = 0
    BY DEF Init
  <2>2. StreamsInv
    <3>1. \A g \in 1..Len(spec.streams) : ~(g < 1)
      OBVIOUS
    <3> QED
      BY <2>1, <3>1 DEF StreamsInv, TodoInv, AddInv, MadeInv, Passed
  <2>3. ConsumerInv
    <3>1. \A S : <<>> \in [DOMAIN <<>> -> S]
      OBVIOUS
    <3> QED
      BY <2>1, <3>1, SetupAssumption DEF ConsumerInv
  <2> QED
    BY <2>1, <2>2, <2>3 DEF RunInv, SinceInv, PhaseInv
<1>2. NumInv /\ RunInv /\ [Next]_vars => RunInv'
  BY StreamsStep, ConsumersStep, SinceStep DEF RunInv
<1> QED
  BY <1>1, <1>2, Numbers, PTL DEF Spec

\* The type of every variable; numbers never leave their width, and attempts
\* never exceed those of exponentialBackoff.
THEOREM TypeCorrect == Spec => []TypeOK
<1>1. ASSUME NumInv, RunInv PROVE TypeOK
  <2>1. \A f \in SpecNumbers : Fits(spec.num[f])
    BY <1>1 DEF NumInv, IInv, NumbersInv, IsSpec, Fits
  <2>2. iter \in 0..MaxIter
    BY <1>1 DEF NumInv, GrownInv
  <2>3. /\ attempt \in 1..Steps
        /\ \A k \in DOMAIN consumer :
             consumer[k] \in {"check", "call", "started", "failed"} \X (1..Steps)
    BY <1>1 DEF RunInv, ConsumerInv
  <2> QED
    BY <1>1, <2>1, <2>2, <2>3 DEF RunInv, PhaseInv, SinceInv, TypeOK
<1> QED
  BY <1>1, Runs, PTL

\* When a run begins to publish, each stream of a specification of distinct
\* prefixes exists and was made in this iteration, after however many retries,
\* lost answers and repetitions, and each of its consumers is subscribed - while
\* it runs too, until the engine's context may be done.
THEOREM RunsAreReady == Spec => []ReadyWhenRunning
<1>1. ASSUME NumInv, RunInv PROVE ReadyWhenRunning
  <2> SUFFICES ASSUME pc = "running", DistinctPrefixes
               PROVE  /\ spec.jetStream => \A g \in DOMAIN spec.streams :
                           \A i \in 1..spec.streams[g].num["count"] : Made(g, i)
                      /\ bound \subseteq Consumers
                      /\ bound = Consumers \/ MayDrain
    BY DEF ReadyWhenRunning, Made
  <2>1. \A g, i : Passed(g, i)
    BY DEF Passed
  <2> QED
    BY <1>1, <2>1, GroupFacts DEF RunInv, StreamsInv, MadeInv, ConsumerInv
<1> QED
  BY <1>1, Runs, PTL
=============================================================================
