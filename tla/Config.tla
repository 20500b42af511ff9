-------------------------------- MODULE Config --------------------------------
(***************************************************************************)
(* Configurations: what Validate accepts and fills in, how a repetition    *)
(* multiplies a specification, and which streams it asks the server for.   *)
(* A string that is not looked into is a value of a small set, with ""     *)
(* for one that is missing; an optional number is a set of at most one.    *)
(* The numbers of a stream and of a specification are functions from       *)
(* field names; IntMax stands for the largest int32 and int64.             *)
(***************************************************************************)
EXTENDS Integers, SequencesExt

CONSTANT IntMax

ASSUME IntAssumption == IntMax \in Nat \ {0}

StreamNumbers == {"count", "replicas", "messages"}

\* Those that must be positive, and those that need not.
PositiveNumbers == {"duration", "ackWait", "maxAckPending", "consumers",
                    "publishers", "publishRate", "messageSize"}
SpecNumbers == PositiveNumbers \cup {"rampUp", "consumeDelay"}

StreamLimits == {"maxMsgs", "maxBytes", "maxMsgsPerSubject", "maxConsumers"}

-----------------------------------------------------------------------------
(* Validation.                                                             *)

\* StreamSpec.Validate.
ValidStream(s) ==
  /\ s.prefix # "" /\ s.subjects # {}
  /\ \A f \in StreamNumbers : s.num[f] > 0
  /\ s.retention \in {"", "limits", "interest", "workqueue"}
  /\ s.storage \in {"", "file", "memory"}
  /\ s.discard \in {"", "old", "new"}
  /\ ~(s.discard = "old" /\ TRUE \in s.discardNewPerSubject)
  /\ s.maxAge # "malformed"
  /\ \A f \in StreamLimits : \A n \in s.limit[f] : n >= -1

\* PublisherConfig.Validate, ConsumerConfig.Validate, BehaviorConfig.Validate.
ValidPublishers(t) ==
  /\ t.publisherPrefix # "" /\ t.burst > 0
  /\ t.pattern \in {"steady", "random"}

ValidConsumers(t) ==
  /\ t.consumerPrefix # "" /\ t.durablePrefix # ""
  /\ t.consumerType \in {"push", "pull"}
  /\ t.ackPolicy # ""

\* Mutant of ValidNumbers: only zero is refused.
NonzeroNumbers(t) == \A f \in PositiveNumbers : t.num[f] # 0

ValidNumbers(t) ==
  /\ \A f \in PositiveNumbers : t.num[f] > 0
  /\ t.num["rampUp"] >= 0

\* Mutant of Synchronized: publishers and consumers agree, with no stream.
OnlyPrefixesAgree(t) == t.publisherPrefix = t.consumerPrefix

\* validateStreamSynchronization.
Synchronized(t) ==
  /\ t.publisherPrefix = t.consumerPrefix
  /\ \E i \in 1..Len(t.streams) : t.streams[i].prefix = t.publisherPrefix

\* LoadTestSpec.Validate.
ValidSpec(t) ==
  /\ t.name # "" /\ t.url # ""
  /\ t.streams # <<>> /\ \A i \in 1..Len(t.streams) : ValidStream(t.streams[i])
  /\ ValidPublishers(t) /\ ValidConsumers(t) /\ ValidNumbers(t)
  /\ Synchronized(t)

\* RepeatPolicy.Validate; a multiplier is a fraction <<m, n>>, and one that is
\* missing is 0.
ValidPolicy(p) == p.enabled => p.by["rampUp"][1] >= 0

\* Config.Validate, of a configuration with one specification.
ValidConfig(c) ==
  /\ ValidSpec(c.spec)
  /\ ValidPolicy(c.policy)
  /\ c.storage \in {"", "badger", "file", "stdout"}

\* The defaults Validate fills in; ramp_up_multiplier has none.
Filled(c) ==
  [c EXCEPT
    !.policy.by = [f \in DOMAIN @ |->
      IF c.policy.enabled /\ f # "rampUp" /\ @[f][1] <= 0 THEN <<1, 1>>
                                                         ELSE @[f]],
    !.storage = IF @ = "" THEN "badger" ELSE @,
    !.spec.clientPrefix = IF @ = "" THEN "load-tester" ELSE @]

-----------------------------------------------------------------------------
(* Repetition.                                                             *)

IntRange == -(IntMax + 1)..IntMax

Fits(x) == x \in IntRange

\* The quotient of x and n, truncated toward zero.
Truncated(x, n) == IF x < 0 THEN -((-x) \div n) ELSE x \div n

\* Mutant of Times: the product is not brought back to the width.
TimesUnbounded(v, m, saturates) == Truncated(v * m[1], m[2])

\* Mutant of Times: the division comes first.
TimesDividedFirst(v, m, saturates) == Truncated(v, m[2]) * m[1]

\* int32(float64(v) * m), and the same with int64.  A product out of range is
\* the smallest integer on amd64 and the nearest one on arm64.
Times(v, m, saturates) ==
  LET x == Truncated(v * m[1], m[2])
  IN IF Fits(x) THEN x
     ELSE IF saturates /\ x > 0 THEN IntMax ELSE -(IntMax + 1)

\* The loop over the streams of LoadTestSpec.ApplyMultipliers.
MultipliedStream(s, by, saturates) ==
  [s EXCEPT !.num = [f \in StreamNumbers |-> Times(s.num[f], by[f], saturates)]]

\* LoadTestSpec.ApplyMultipliers, on the specification itself.
Multiplied(t, by, saturates) ==
  [t EXCEPT
    !.streams = [i \in DOMAIN t.streams |->
                   MultipliedStream(t.streams[i], by, saturates)],
    !.num = [f \in SpecNumbers |-> Times(t.num[f], by[f], saturates)]]

-----------------------------------------------------------------------------
(* What is asked of the server.                                            *)

Given(S, default) == IF S = {} THEN default ELSE CHOOSE x \in S : TRUE

OneOf(x, S, default) == IF x \in S THEN x ELSE default

\* FormatSubject: a template without a placeholder is the same subject for
\* every stream of the group.
Subject(template, i) ==
  IF template.indexed THEN <<template.text, i>> ELSE <<template.text, 0>>

\* The nats.StreamConfig of the i-th stream of group s, by the Get functions.
StreamConfig(s, i) ==
  [name      |-> <<s.prefix, i>>,
   subjects  |-> {Subject(template, i) : template \in s.subjects},
   replicas  |-> s.num["replicas"],
   retention |-> OneOf(s.retention, {"interest", "workqueue"}, "limits"),
   storage   |-> OneOf(s.storage, {"file"}, "memory"),
   discard   |-> OneOf(s.discard, {"new"}, "old"),
   discardNewPerSubject |-> Given(s.discardNewPerSubject, FALSE),
   maxAge    |-> OneOf(s.maxAge, {"1m", "1h"}, "1m"),
   limit     |-> [f \in StreamLimits |-> Given(s.limit[f], -1)]]

\* GetFormattedStreamNames cannot make a list of negative length.
Nameable(s) == s.num["count"] >= 0

\* The configurations of the streams of group s, in order.
OfGroup(s) == [i \in 1..s.num["count"] |-> StreamConfig(s, i)]

\* CreatePublishers and CreateConsumers make one worker, times number, for
\* each subject of each stream of the groups that have their prefix.
Workers(t, prefix, number) ==
  LET mine == {g \in DOMAIN t.streams : t.streams[g].prefix = prefix}
      on   == UNION {ToSet(OfGroup(t.streams[g])) : g \in mine}
  IN UNION {{c.name} \X c.subjects \X (1..number) : c \in on}
=============================================================================
