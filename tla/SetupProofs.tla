------------------------------ MODULE SetupProofs ------------------------------
(***************************************************************************)
(* That Start stops calling the server once it is cancelled, and that a    *)
(* run takes down what it set up, for all configurations, however the      *)
(* server answers and whatever the repetitions make of the numbers.        *)
(***************************************************************************)
EXTENDS Setup, SequenceTheorems, TLAPS

-----------------------------------------------------------------------------
(* The goroutines of consumers.                                            *)

\* A consumer starts, fails to, or is drained.
Consuming == ConsumerStep \/ \E k \in bound : ConsumerDrains(k)

\* What concerns the consumers changes nothing else, unless it panics.
LEMMA ConsumersApart ==
  ASSUME Consuming
  PROVE  /\ pc' \in {pc, "errorPanic"}
         /\ UNCHANGED <<given, spec, iter, group, todo, armed, attempt, server,
                        failed, cancelled, late, wrapped>>
<1>1. ASSUME NEW k, Fail(k)
      PROVE  /\ pc' \in {pc, "errorPanic"}
             /\ UNCHANGED <<given, spec, iter, group, todo, armed, attempt, server,
                            failed, cancelled, late, wrapped>>
  BY <1>1 DEF Fail, Become, PanicAs, progress
<1>2. ASSUME NEW k, ConsumerCheck(k) \/ ConsumerStart(k)
      PROVE  /\ pc' \in {pc, "errorPanic"}
             /\ UNCHANGED <<given, spec, iter, group, todo, armed, attempt, server,
                            failed, cancelled, late, wrapped>>
  BY <1>1, <1>2, Zenon DEF ConsumerCheck, ConsumerStart, Become
<1>3. ASSUME NEW k, ConsumerDrains(k)
      PROVE  /\ pc' = pc
             /\ UNCHANGED <<given, spec, iter, group, todo, armed, attempt, server,
                            failed, cancelled, late, wrapped>>
  BY <1>3 DEF ConsumerDrains, progress
<1> QED
  BY <1>2, <1>3 DEF Consuming, ConsumerStep

-----------------------------------------------------------------------------
(* Calls after the cancellation.                                           *)

\* Only a call that had passed the check of its context is late, and after
\* it there is no other: each further attempt checks again.
LateInv ==
  /\ late \in {0, 1}
  /\ ~cancelled => late = 0
  /\ late = 1 => ~armed

\* The next calls of SetupStreams look at the context.
LEMMA LateStep == LateInv /\ [Next]_vars => LateInv'
<1> SUFFICES ASSUME LateInv, [Next]_vars PROVE LateInv'
  OBVIOUS
<1>1. CASE DeleteStream \/ AddStream
  <2>1. armed /\ LateCall /\ UNCHANGED cancelled
    BY <1>1 DEF DeleteStream, AddStream
  <2>2. armed' = FALSE
    BY <1>1 DEF DeleteStream, AddStream, Retry, GiveUp
  <2> QED
    BY <2>1, <2>2 DEF LateInv, LateCall
<1>2. CASE PassCheck \/ Cancel
  BY <1>2 DEF PassCheck, Cancel, LateInv, progress
<1>3. CASE SetupCancelled
  BY <1>3 DEF SetupCancelled, GiveUp, LateInv
<1>4. CASE NextGroup \/ CreateWorkers \/ ConsumersDone \/ Consuming
  <2>1. UNCHANGED <<cancelled, late, armed>>
    <3>1. CASE NextGroup
      BY <3>1 DEF NextGroup, Panic, PanicAs, progress
    <3>2. CASE CreateWorkers \/ ConsumersDone
      BY <3>2 DEF CreateWorkers, ConsumersDone, Panic, PanicAs, progress
    <3>3. CASE Consuming
      BY <3>3, ConsumersApart
    <3> QED
      BY <1>4, <3>1, <3>2, <3>3
  <2> QED
    BY <2>1 DEF LateInv
<1>5. CASE \/ TickerPanics \/ RunEnds \/ CleanupGroup \/ CleanupStream \/ Repeat
           \/ RepeatOver \/ UNCHANGED vars
  <2>1. UNCHANGED <<cancelled, late, armed>>
    <3>1. CASE TickerPanics \/ RunEnds \/ Repeat
      BY <3>1 DEF TickerPanics, RunEnds, Repeat, Panic, PanicAs, progress
    <3>2. CASE CleanupGroup \/ CleanupStream
      BY <3>2 DEF CleanupGroup, CleanupStream
    <3>3. CASE RepeatOver \/ UNCHANGED vars
      BY <3>3 DEF RepeatOver, progress, vars
    <3> QED
      BY <1>5, <3>1, <3>2, <3>3
  <2> QED
    BY <2>1 DEF LateInv
<1> QED
  BY <1>1, <1>2, <1>3, <1>4, <1>5 DEF Next, StartStep, Consuming

\* After the cancellation SetupStreams makes at most one call, the one it was
\* about to make, for every configuration and number of attempts.
THEOREM CallsStop == Spec => []StopsCalling
<1>1. Init => LateInv
  BY DEF Init, LateInv
<1>2. LateInv => StopsCalling
  BY DEF LateInv, StopsCalling
<1> QED
  BY <1>1, <1>2, LateStep, PTL DEF Spec

-----------------------------------------------------------------------------
(* Lists and numbers.                                                      *)

\* A list is one of its own elements.
LEMMA ListOfOwn ==
  ASSUME NEW S, NEW q \in Seq(S)
  PROVE  q \in Seq(ToSet(q))
<1>1. Len(q) \in Nat /\ DOMAIN q = 1..Len(q) /\ q \in [1..Len(q) -> S]
  OBVIOUS
<1>2. q \in [1..Len(q) -> ToSet(q)]
  BY <1>1 DEF ToSet
<1> QED
  BY <1>1, <1>2

\* The first stream of a list and the rest are all of it.
LEMMA FirstAndRest ==
  ASSUME NEW s, s \in Seq(ToSet(s)), s # <<>>
  PROVE  /\ ToSet(s) = {Head(s)} \cup ToSet(Tail(s))
         /\ Tail(s) \in Seq(ToSet(Tail(s)))
<1>1. /\ Tail(s) \in Seq(ToSet(s)) /\ Len(Tail(s)) = Len(s) - 1
      /\ \A i \in 1..Len(Tail(s)) : Tail(s)[i] = s[i + 1]
  BY HeadTailProperties
<1>2. Len(s) \in Nat /\ Len(s) >= 1 /\ DOMAIN s = 1..Len(s) /\ Head(s) = s[1]
  OBVIOUS
<1>3. DOMAIN Tail(s) = 1..(Len(s) - 1)
  BY <1>1, <1>2
<1>4. ToSet(s) \subseteq {Head(s)} \cup ToSet(Tail(s))
  <2> SUFFICES ASSUME NEW i \in 1..Len(s), i # 1
               PROVE  s[i] \in ToSet(Tail(s))
    BY <1>2 DEF ToSet
  <2>1. i - 1 \in 1..(Len(s) - 1) /\ (i - 1) + 1 = i
    BY <1>2
  <2>2. Tail(s)[i - 1] = s[i]
    BY <1>1, <2>1
  <2> QED
    BY <1>3, <2>1, <2>2 DEF ToSet
<1>5. {Head(s)} \cup ToSet(Tail(s)) \subseteq ToSet(s)
  <2>1. s[1] \in ToSet(s)
    BY <1>2 DEF ToSet
  <2>2. \A i \in 1..(Len(s) - 1) : i + 1 \in 1..Len(s)
    BY <1>2
  <2> QED
    BY <1>1, <1>2, <1>3, <2>1, <2>2 DEF ToSet
<1>6. Tail(s) \in Seq(ToSet(Tail(s)))
  BY <1>1, ListOfOwn
<1> QED
  BY <1>4, <1>5, <1>6

\* A group whose number is an integer has a list of configurations, which is
\* empty for a negative one.
LEMMA GroupIsList ==
  ASSUME NEW s, s.num["count"] \in Int
  PROVE  OfGroup(s) \in Seq(ToSet(OfGroup(s)))
<1> DEFINE n == IF s.num["count"] < 0 THEN 0 ELSE s.num["count"]
<1>1. n \in Nat /\ 1..s.num["count"] = 1..n
  OBVIOUS
<1>2. OfGroup(s) = [i \in 1..n |-> StreamConfig(s, i)]
  BY <1>1 DEF OfGroup
<1> HIDE DEF n
<1> QED
  BY <1>1, <1>2 DEF ToSet

\* A product is brought back to the width of its field.
LEMMA TimesFits ==
  ASSUME NEW v \in Int, NEW m \in Int \X (Nat \ {0}), NEW saturates
  PROVE  Times(v, m, saturates) \in IntRange
<1>1. IntMax \in IntRange /\ -(IntMax + 1) \in IntRange
  BY IntAssumption DEF IntRange
<1> QED
  BY <1>1 DEF Times, Fits

\* A repetition changes the numbers of a specification and of its streams, and
\* nothing else.
LEMMA MultipliedParts ==
  ASSUME NEW t, IsSpec(t), NEW by \in Fractions, NEW saturates,
         NEW u, u = Multiplied(t, by, saturates)
  PROVE  /\ DOMAIN u = DOMAIN t
         /\ \A f \in DOMAIN t \ {"streams", "num"} : u[f] = t[f]
         /\ u.num = [f \in SpecNumbers |-> Times(t.num[f], by[f], saturates)]
         /\ Len(u.streams) = Len(t.streams)
         /\ DOMAIN u.streams = 1..Len(t.streams)
         /\ u.streams \in Seq(ToSet(u.streams))
         /\ \A i \in 1..Len(t.streams) :
              /\ DOMAIN u.streams[i] = DOMAIN t.streams[i]
              /\ \A f \in DOMAIN t.streams[i] \ {"num"} :
                   u.streams[i][f] = t.streams[i][f]
              /\ u.streams[i].num =
                   [f \in StreamNumbers |->
                      Times(t.streams[i].num[f], by[f], saturates)]
<1> DEFINE num == [f \in SpecNumbers |-> Times(t.num[f], by[f], saturates)]
           list == [i \in DOMAIN t.streams |->
                      MultipliedStream(t.streams[i], by, saturates)]
<1>1. "streams" \in DOMAIN t /\ "num" \in DOMAIN t
  BY DEF IsSpec, SpecFields
<1>2. u = [t EXCEPT !.streams = list, !.num = num]
  BY DEF Multiplied
<1>3. DOMAIN t.streams = 1..Len(t.streams) /\ Len(t.streams) \in Nat
  BY DEF IsSpec
<1>4. ASSUME NEW i \in 1..Len(t.streams)
      PROVE  /\ DOMAIN list[i] = DOMAIN t.streams[i]
             /\ \A f \in DOMAIN t.streams[i] \ {"num"} :
                  list[i][f] = t.streams[i][f]
             /\ list[i].num = [f \in StreamNumbers |->
                                 Times(t.streams[i].num[f], by[f], saturates)]
  <2> DEFINE s == t.streams[i]
             new == [f \in StreamNumbers |-> Times(s.num[f], by[f], saturates)]
  <2>1. "num" \in DOMAIN s
    BY <1>3 DEF IsSpec, StreamFields, ToSet
  <2>2. list[i] = [s EXCEPT !.num = new]
    BY <1>3 DEF MultipliedStream
  <2> HIDE DEF s, new, list
  <2>3. /\ DOMAIN list[i] = DOMAIN s /\ list[i].num = new
        /\ \A f \in DOMAIN s \ {"num"} : list[i][f] = s[f]
    BY <2>1, <2>2
  <2> QED
    BY <2>3 DEF s, new
<1>5. Len(list) = Len(t.streams) /\ DOMAIN list = 1..Len(t.streams)
      /\ list \in Seq(ToSet(list))
  BY <1>3 DEF ToSet
<1> HIDE DEF num, list
<1>6. /\ DOMAIN u = DOMAIN t /\ u.streams = list /\ u.num = num
      /\ \A f \in DOMAIN t \ {"streams", "num"} : u[f] = t[f]
  BY <1>1, <1>2
<1> QED
  BY <1>4, <1>5, <1>6 DEF num

\* A stream of a specification has its fields and numbers.
LEMMA StreamOfSpec ==
  ASSUME NEW t, IsSpec(t), NEW i \in 1..Len(t.streams)
  PROVE  /\ StreamFields \subseteq DOMAIN t.streams[i]
         /\ t.streams[i].num \in [StreamNumbers -> IntRange]
         /\ t.streams[i].num["count"] \in Int
<1>1. t.streams[i] \in ToSet(t.streams)
  BY DEF IsSpec, ToSet
<1>2. t.streams[i].num \in [StreamNumbers -> IntRange]
  BY <1>1 DEF IsSpec
<1>3. "count" \in StreamNumbers /\ IntRange \subseteq Int
  BY DEF StreamNumbers, IntRange
<1> QED
  BY <1>1, <1>2, <1>3 DEF IsSpec

\* A repeated specification is a specification.
LEMMA StillSpec ==
  ASSUME NEW t, IsSpec(t), NEW by \in Fractions, NEW saturates
  PROVE  /\ IsSpec(Multiplied(t, by, saturates))
         /\ Multiplied(t, by, saturates).jetStream = t.jetStream
<1> DEFINE u == Multiplied(t, by, saturates)
<1>0. IntRange \subseteq Int
  BY DEF IntRange
<1>1. /\ DOMAIN u = DOMAIN t
      /\ \A f \in DOMAIN t \ {"streams", "num"} : u[f] = t[f]
      /\ u.num = [f \in SpecNumbers |-> Times(t.num[f], by[f], saturates)]
      /\ Len(u.streams) = Len(t.streams)
      /\ DOMAIN u.streams = 1..Len(t.streams)
      /\ u.streams \in Seq(ToSet(u.streams))
      /\ \A i \in 1..Len(t.streams) :
           /\ DOMAIN u.streams[i] = DOMAIN t.streams[i]
           /\ u.streams[i].num =
                [f \in StreamNumbers |->
                   Times(t.streams[i].num[f], by[f], saturates)]
  BY MultipliedParts
<1> HIDE DEF u
<1>2. \A f \in SpecNumbers : Times(t.num[f], by[f], saturates) \in IntRange
  <2> SUFFICES ASSUME NEW f \in SpecNumbers
               PROVE  Times(t.num[f], by[f], saturates) \in IntRange
    OBVIOUS
  <2>1. t.num[f] \in Int
    BY <1>0 DEF IsSpec
  <2>2. by[f] \in Int \X (Nat \ {0})
    BY DEF Fractions
  <2> QED
    BY <2>1, <2>2, TimesFits
<1>3. u.num \in [SpecNumbers -> IntRange]
  BY <1>1, <1>2
<1>4. ASSUME NEW i \in 1..Len(t.streams)
      PROVE  /\ StreamFields \subseteq DOMAIN u.streams[i]
             /\ u.streams[i].num \in [StreamNumbers -> IntRange]
  <2>0. t.streams[i].num \in [StreamNumbers -> IntRange]
    BY StreamOfSpec
  <2>1. \A f \in StreamNumbers : t.streams[i].num[f] \in Int
    BY <1>0, <2>0
  <2>2. \A f \in StreamNumbers : by[f] \in Int \X (Nat \ {0})
    BY DEF Fractions
  <2>3. \A f \in StreamNumbers :
          Times(t.streams[i].num[f], by[f], saturates) \in IntRange
    BY <2>1, <2>2, TimesFits
  <2>4. StreamFields \subseteq DOMAIN t.streams[i]
    BY StreamOfSpec
  <2>5. u.streams[i].num = [f \in StreamNumbers |->
                              Times(t.streams[i].num[f], by[f], saturates)]
    BY <1>1
  <2>6. u.streams[i].num \in [StreamNumbers -> IntRange]
    BY <2>3, <2>5
  <2> QED
    BY <1>1, <2>4, <2>6
<1>5. \A s \in ToSet(u.streams) :
        StreamFields \subseteq DOMAIN s /\ s.num \in [StreamNumbers -> IntRange]
  BY <1>1, <1>4 DEF ToSet
<1>6. SpecFields \subseteq DOMAIN u /\ u.maxLines \in IntRange
  BY <1>1 DEF IsSpec, SpecFields
<1>7. u.jetStream = t.jetStream
  <2>1. "jetStream" \in DOMAIN t \ {"streams", "num"}
    BY DEF IsSpec, SpecFields
  <2> QED
    BY <1>1, <2>1
<1> QED
  BY <1>1, <1>3, <1>5, <1>6, <1>7 DEF IsSpec, u

\* What Validate fills in.
LEMMA FilledParts ==
  ASSUME NEW c, NEW spec0, NEW storage0, IsSpec(c.spec),
         c \in [spec : {spec0}, storage : {storage0},
                policy : [enabled : BOOLEAN, by : Fractions]]
  PROVE  LET d == Filled(c)
         IN /\ IsSpec(d.spec) /\ DOMAIN d.spec = DOMAIN c.spec
            /\ \A f \in DOMAIN c.spec \ {"clientPrefix"} : d.spec[f] = c.spec[f]
            /\ d.policy.enabled = c.policy.enabled
            /\ d.policy.by \in Fractions
            /\ \A f \in SpecNumbers \cup StreamNumbers :
                 d.policy.by[f] = IF /\ c.policy.enabled /\ f # "rampUp"
                                     /\ c.policy.by[f][1] <= 0
                                    THEN <<1, 1>> ELSE c.policy.by[f]
<1> DEFINE d == Filled(c)
           by == [f \in DOMAIN c.policy.by |->
                    IF c.policy.enabled /\ f # "rampUp" /\ c.policy.by[f][1] <= 0
                      THEN <<1, 1>> ELSE c.policy.by[f]]
           prefix == IF c.spec.clientPrefix = "" THEN "load-tester"
                                                  ELSE c.spec.clientPrefix
<1>1. /\ d.policy = [c.policy EXCEPT !.by = by]
      /\ d.spec = [c.spec EXCEPT !.clientPrefix = prefix]
  BY DEF Filled
<1>2. c.policy \in [enabled : BOOLEAN, by : Fractions]
  OBVIOUS
<1>3. by \in Fractions
  <2>1. <<1, 1>> \in Int \X (Nat \ {0})
    OBVIOUS
  <2> QED
    BY <1>2, <2>1 DEF Fractions
<1>4. DOMAIN c.policy.by = SpecNumbers \cup StreamNumbers
  BY <1>2 DEF Fractions
<1>5. \A f \in SpecNumbers \cup StreamNumbers :
        by[f] = IF c.policy.enabled /\ f # "rampUp" /\ c.policy.by[f][1] <= 0
                  THEN <<1, 1>> ELSE c.policy.by[f]
  BY <1>4
<1> HIDE DEF by, prefix
<1>6. /\ DOMAIN d.spec = DOMAIN c.spec
      /\ \A f \in DOMAIN c.spec \ {"clientPrefix"} : d.spec[f] = c.spec[f]
  BY <1>1
<1>7. {"num", "streams", "maxLines"} \subseteq DOMAIN c.spec \ {"clientPrefix"}
  BY DEF IsSpec, SpecFields
<1>8. IsSpec(d.spec)
  BY <1>6, <1>7 DEF IsSpec
<1>9. d.policy.enabled = c.policy.enabled /\ d.policy.by = by
  BY <1>1, <1>2
<1> QED
  BY <1>3, <1>5, <1>6, <1>8, <1>9

-----------------------------------------------------------------------------
(* What is left on the server.                                             *)

\* Numbers and lists are what they should be.
NumbersInv ==
  /\ IsSpec(spec) /\ given.config.policy.by \in Fractions
  /\ group \in Nat \ {0}
  /\ todo \in Seq(ToSet(todo))
  /\ pc \in {"start", "consumers", "running", "next"} => todo = <<>>
  /\ pc \in {"delete", "add"} => todo # <<>> /\ spec.jetStream
  /\ pc = "running" => group = 1

NamesIn(list) == {c.name : c \in ToSet(list)}

\* The names of the groups from the given one on; none without JetStream.
NamesFrom(lo) ==
  IF spec.jetStream
    THEN UNION {NamesIn(OfGroup(spec.streams[g])) :
                  g \in {h \in DOMAIN spec.streams : lo <= h}}
    ELSE {}

\* SetupStreams adds nothing that the clean-up does not come by, and what is
\* behind the clean-up is gone or failed.
NamesInv ==
  /\ pc \in {"delete", "add"} => NamesIn(todo) \subseteq NamesFrom(1)
  /\ pc \in {"start", "delete", "add", "consumers", "running"}
       => Names \subseteq failed \cup NamesFrom(1)
  /\ pc = "cleanup" => Names \subseteq failed \cup NamesIn(todo) \cup NamesFrom(group)
  /\ OnlyFailedAreLeft

IInv == NumbersInv /\ NamesInv

\* The names a deletion leaves, and those an addition gives.
LEMMA NamesLeft ==
  ASSUME NEW name
  PROVE  {s.config.name : s \in Without(name)} = Names \ {name}
BY DEF Without, Names

LEMMA NamesAdded ==
  ASSUME NEW c
  PROVE  {s.config.name : s \in With(c)} = Names \cup {c.name}
<1>1. CASE c.name \in Names
  BY <1>1 DEF With, Names
<1>2. CASE c.name \notin Names
  <2>1. With(c) = server \cup {[config |-> c, since |-> iter]}
    BY <1>2 DEF With
  <2>2. [config |-> c, since |-> iter].config.name = c.name
    OBVIOUS
  <2> QED
    BY <2>1, <2>2 DEF Names
<1> QED
  BY <1>1, <1>2

\* The next group has a list, and its names are those the groups have that
\* are not among the later ones.
LEMMA GroupNames ==
  ASSUME NumbersInv, spec.jetStream, group <= Len(spec.streams)
  PROVE  LET list == OfGroup(spec.streams[group])
         IN /\ list \in Seq(ToSet(list))
            /\ NamesIn(list) \subseteq NamesFrom(1)
            /\ NamesFrom(group) = NamesIn(list) \cup NamesFrom(group + 1)
<1>1. /\ DOMAIN spec.streams = 1..Len(spec.streams) /\ Len(spec.streams) \in Nat
      /\ group \in Nat \ {0}
  BY DEF NumbersInv, IsSpec
<1>2. group \in DOMAIN spec.streams /\ 1 <= group
  BY <1>1
<1>3. spec.streams[group].num["count"] \in Int
  BY <1>1, <1>2, StreamOfSpec DEF NumbersInv
<1>4. {h \in DOMAIN spec.streams : group <= h}
        = {group} \cup {h \in DOMAIN spec.streams : group + 1 <= h}
  BY <1>1, <1>2
<1>5. NamesFrom(group)
        = NamesIn(OfGroup(spec.streams[group])) \cup NamesFrom(group + 1)
  BY <1>4 DEF NamesFrom
<1>6. NamesIn(OfGroup(spec.streams[group])) \subseteq NamesFrom(1)
  BY <1>2 DEF NamesFrom
<1> QED
  BY <1>3, <1>5, <1>6, GroupIsList

\* The first of the list and the others.
LEMMA ListNames ==
  ASSUME NumbersInv, todo # <<>>
  PROVE  /\ NamesIn(todo) = {Head(todo).name} \cup NamesIn(Tail(todo))
         /\ Tail(todo) \in Seq(ToSet(Tail(todo)))
<1>1. /\ ToSet(todo) = {Head(todo)} \cup ToSet(Tail(todo))
      /\ Tail(todo) \in Seq(ToSet(Tail(todo)))
  BY FirstAndRest DEF NumbersInv
<1> QED
  BY <1>1 DEF NamesIn

\* No stream is on an empty list.
LEMMA NoNames == NamesIn(<<>>) = {} /\ <<>> \in Seq(ToSet(<<>>))
BY DEF NamesIn, ToSet

\* NamesFrom and NamesIn keep their value with the variables they look at.
LEMMA NamesStay ==
  ASSUME UNCHANGED spec
  PROVE  \A lo : NamesFrom(lo)' = NamesFrom(lo)
BY DEF NamesFrom

\* A failed attempt: the names on the server are still accounted for, whether
\* SetupStreams tries again or gives up.
LEMMA RetryKeeps ==
  ASSUME IInv, pc \in {"delete", "add"}, Retry, UNCHANGED <<given, spec, failed>>,
         Names' \subseteq Names \cup NamesFrom(1)
  PROVE  IInv'
<1> USE NoNames, NamesStay
<1>1. CASE UNCHANGED <<pc, group, todo>>
  BY <1>1 DEF IInv, NumbersInv, NamesInv, OnlyFailedAreLeft
<1>2. CASE GiveUp
  BY <1>2 DEF GiveUp, IInv, NumbersInv, NamesInv, OnlyFailedAreLeft
<1> QED
  BY <1>1, <1>2 DEF Retry

\* Every step keeps the names accounted for.
LEMMA NamesStep == IInv /\ [Next]_vars => IInv'
<1> SUFFICES ASSUME IInv, [Next]_vars PROVE IInv'
  OBVIOUS
<1> USE NoNames, NamesStay
<1>1. CASE UNCHANGED <<pc, given, spec, group, todo, server, failed>>
  BY <1>1
  DEF IInv, NumbersInv, NamesInv, OnlyFailedAreLeft, Names
<1>2. CASE NextGroup
  <2>1. CASE ~Nameable(spec.streams[group])
    BY <1>2, <2>1
    DEF NextGroup, Panic, PanicAs, progress, IInv, NumbersInv, NamesInv,
        OnlyFailedAreLeft
  <2>2. CASE Nameable(spec.streams[group])
    <3>1. /\ todo' = OfGroup(spec.streams[group]) /\ group' = group + 1
          /\ pc = "start" /\ pc' = IF todo' = <<>> THEN "start" ELSE "delete"
          /\ spec.jetStream
          /\ UNCHANGED <<given, spec, server, failed>>
      BY <1>2, <2>2 DEF NextGroup
    <3>2. todo' \in Seq(ToSet(todo')) /\ NamesIn(todo') \subseteq NamesFrom(1)
      BY <1>2, <3>1, GroupNames DEF NextGroup, IInv
    <3>3. NumbersInv'
      BY <3>1, <3>2 DEF IInv, NumbersInv
    <3>4. NamesInv'
      BY <3>1, <3>2 DEF IInv, NamesInv, OnlyFailedAreLeft, Names
    <3> QED
      BY <3>3, <3>4 DEF IInv
  <2> QED
    BY <2>1, <2>2
<1>3. CASE PassCheck \/ Cancel
  BY <1>1, <1>3 DEF PassCheck, Cancel, progress
<1>4. CASE SetupCancelled
  BY <1>4
  DEF SetupCancelled, GiveUp, IInv, NumbersInv, NamesInv, OnlyFailedAreLeft, Names
<1>5. CASE DeleteStream
  <2>1. UNCHANGED <<given, spec>> /\ pc = "delete"
    BY <1>5 DEF DeleteStream
  <2>2. CASE /\ server' = Without(Head(todo).name)
             /\ failed' = failed \ {Head(todo).name}
             /\ pc' = "add" /\ UNCHANGED <<group, todo>>
    <3>1. Names' = Names \ {Head(todo).name}
      BY <2>2, NamesLeft DEF Names
    <3> QED
      BY <2>1, <2>2, <3>1 DEF IInv, NumbersInv, NamesInv, OnlyFailedAreLeft
  <2>3. CASE server' \in {server, Without(Head(todo).name)} /\ Retry /\ UNCHANGED failed
    <3>1. Names' \subseteq Names
      BY <2>3, NamesLeft DEF Names
    <3> QED
      BY <2>1, <2>3, <3>1, RetryKeeps
  <2> QED
    BY <1>5, <2>2, <2>3 DEF DeleteStream
<1>6. CASE AddStream
  <2>1. UNCHANGED <<given, spec, failed>> /\ pc = "add"
    BY <1>6 DEF AddStream
  <2>2. /\ Head(todo).name \in NamesFrom(1)
        /\ NamesIn(Tail(todo)) \subseteq NamesFrom(1)
        /\ Tail(todo) \in Seq(ToSet(Tail(todo)))
    BY <2>1, ListNames DEF IInv, NumbersInv, NamesInv
  <2>3. server' \in {server, With(Head(todo))}
    BY <1>6 DEF AddStream
  <2>4. Names' \subseteq Names \cup NamesFrom(1)
    BY <2>2, <2>3, NamesAdded DEF Names
  <2>5. CASE /\ todo' = Tail(todo) /\ UNCHANGED group
             /\ pc' = IF Tail(todo) = <<>> THEN "start" ELSE "delete"
    BY <2>1, <2>2, <2>4, <2>5 DEF IInv, NumbersInv, NamesInv, OnlyFailedAreLeft
  <2>6. CASE Retry
    BY <2>1, <2>4, <2>6, RetryKeeps
  <2> QED
    BY <1>6, <2>5, <2>6 DEF AddStream
<1>7. CASE CreateWorkers
  BY <1>7
  DEF CreateWorkers, SetupOver, Panic, PanicAs, progress, IInv, NumbersInv, NamesInv,
      OnlyFailedAreLeft, Names
<1>8. CASE Consuming
  <2>1. /\ pc' \in {pc, "errorPanic"}
        /\ UNCHANGED <<given, spec, group, todo, server, failed>>
    BY <1>8, ConsumersApart
  <2>2. CASE pc' = "errorPanic"
    BY <2>1, <2>2 DEF IInv, NumbersInv, NamesInv, OnlyFailedAreLeft
  <2> QED
    BY <1>1, <2>1, <2>2
<1>9. CASE ConsumersDone \/ TickerPanics \/ RunEnds
  <2>1. CASE ConsumersDone
    BY <2>1
    DEF ConsumersDone, IInv, NumbersInv, NamesInv, OnlyFailedAreLeft, Names
  <2>2. CASE TickerPanics
    BY <2>2
    DEF TickerPanics, Panic, PanicAs, progress, IInv, NumbersInv, NamesInv,
        OnlyFailedAreLeft, Names
  <2>3. CASE RunEnds
    BY <2>3 DEF RunEnds, IInv, NumbersInv, NamesInv, OnlyFailedAreLeft, Names
  <2> QED
    BY <1>9, <2>1, <2>2, <2>3
<1>10. CASE CleanupGroup
  <2>1. UNCHANGED <<given, spec, server, failed>> /\ pc = "cleanup" /\ todo = <<>>
    BY <1>10 DEF CleanupGroup
  <2>2. CASE spec.jetStream /\ group <= Len(spec.streams)
    <3>1. /\ todo' = OfGroup(spec.streams[group]) /\ group' = group + 1
          /\ pc' \in {"cleanup", "panic"}
      BY <1>10, <2>1, <2>2 DEF CleanupGroup
    <3>2. /\ todo' \in Seq(ToSet(todo'))
          /\ NamesFrom(group) = NamesIn(todo') \cup NamesFrom(group')
      BY <2>2, <3>1, GroupNames DEF IInv
    <3> QED
      BY <2>1, <3>1, <3>2 DEF IInv, NumbersInv, NamesInv, OnlyFailedAreLeft, Names
  <2>3. CASE ~(spec.jetStream /\ group <= Len(spec.streams))
    <3>1. pc' = "next" /\ UNCHANGED <<todo, group>>
      BY <1>10, <2>3 DEF CleanupGroup
    <3>2. NamesFrom(group) = {}
      BY <2>3 DEF NamesFrom, IInv, NumbersInv, IsSpec
    <3> QED
      BY <2>1, <3>1, <3>2 DEF IInv, NumbersInv, NamesInv, OnlyFailedAreLeft, Names
  <2> QED
    BY <2>2, <2>3
<1>11. CASE CleanupStream
  <2>1. /\ UNCHANGED <<pc, given, spec, group>> /\ pc = "cleanup"
        /\ todo' = Tail(todo)
    BY <1>11 DEF CleanupStream
  <2>2. /\ NamesIn(todo) = {Head(todo).name} \cup NamesIn(Tail(todo))
        /\ Tail(todo) \in Seq(ToSet(Tail(todo)))
    BY <1>11, ListNames DEF CleanupStream, IInv
  <2>3. Names' \ failed' \subseteq (Names \ failed) \ {Head(todo).name}
    BY <1>11, NamesLeft DEF CleanupStream, Names
  <2> QED
    BY <2>1, <2>2, <2>3 DEF IInv, NumbersInv, NamesInv, OnlyFailedAreLeft
<1>12. CASE Repeat
  <2>1. /\ UNCHANGED <<given, todo, server, failed>>
        /\ pc = "next" /\ pc' = "start" /\ group' = 1
        /\ spec' = Multiplied(spec, given.config.policy.by, given.saturates)
    BY <1>12 DEF Repeat
  <2>2. IsSpec(spec')
    BY <2>1, StillSpec DEF IInv, NumbersInv
  <2>3. NumbersInv'
    BY <2>1, <2>2 DEF IInv, NumbersInv
  <2>4. NamesInv'
    BY <2>1 DEF IInv, NamesInv, OnlyFailedAreLeft, Names
  <2> QED
    BY <2>3, <2>4 DEF IInv
<1>13. CASE RepeatOver
  BY <1>13
  DEF RepeatOver, progress, IInv, NumbersInv, NamesInv, OnlyFailedAreLeft, Names
<1>14. CASE UNCHANGED vars
  BY <1>1, <1>14 DEF vars, progress
<1> QED
  BY <1>2, <1>3, <1>4, <1>5, <1>6, <1>7, <1>8, <1>9, <1>10, <1>11, <1>12, <1>13,
     <1>14 DEF Next, StartStep, Consuming

\* What Init posts is a specification with its defaults filled in.
LEMMA GivenParts ==
  ASSUME Init
  PROVE  \E c \in Candidates :
           /\ ValidConfig(c.config) /\ IsSpec(c.config.spec)
           /\ given.config = Filled(c.config) /\ given.mode = c.mode
           /\ c.config \in [spec : {c.config.spec}, storage : {c.config.storage},
                             policy : [enabled : BOOLEAN, by : Fractions]]
<1>1. PICK c \in Candidates :
        ValidConfig(c.config) /\ given = [c EXCEPT !.config = Filled(@)]
  BY DEF Init
<1>2. /\ c \in [config : {c.config}, mode : {"publish", "consume", "both"},
                 saturates : BOOLEAN]
      /\ c.config \in [spec : {c.config.spec}, storage : {c.config.storage},
                        policy : [enabled : BOOLEAN, by : Fractions]]
      /\ IsSpec(c.config.spec)
  BY SetupAssumption
<1>3. given.config = Filled(c.config) /\ given.mode = c.mode
  BY <1>1, <1>2
<1> QED
  BY <1>1, <1>2, <1>3

\* The names are accounted for in every reachable state.
THEOREM Invariance == Spec => []IInv
<1>1. Init => IInv
  <2> SUFFICES ASSUME Init PROVE IInv
    OBVIOUS
  <2>1. IsSpec(given.config.spec) /\ given.config.policy.by \in Fractions
    BY GivenParts, FilledParts
  <2> QED
    BY <2>1, NoNames
    DEF Init, IInv, NumbersInv, NamesInv, OnlyFailedAreLeft, Names
<1> QED
  BY <1>1, NamesStep, PTL DEF Spec

\* When a run is over, whatever failed and whatever earlier runs had, every
\* stream left is one whose deletion failed.
THEOREM StreamsAreCleanedUp == Spec => []OnlyFailedAreLeft
<1>1. IInv => OnlyFailedAreLeft
  BY DEF IInv, NamesInv
<1> QED
  BY <1>1, Invariance, PTL
=============================================================================
