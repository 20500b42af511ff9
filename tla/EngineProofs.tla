----------------------------- MODULE EngineProofs -----------------------------
(***************************************************************************)
(* Safety of the engine for any number of specs and any environments.  The *)
(* heart is that a goroutine of an errgroup belongs to the group that Stop *)
(* waits for, unless its start failed: then nobody waits for it.           *)
(***************************************************************************)
EXTENDS Engine, TLAPS

Starting == {"setConfig", "group", "streams", "publishers", "consumers", "ramp",
             "running"}
HasGroup == {"streams", "publishers", "consumers", "ramp", "running"}
Stopping == {"stop", "wait", "cleanup", "closeConn"}

\* Where the worker is, and what Start has set by then.
PlaceInv ==
  /\ pc \in Starting => spec <= env.specs
  /\ pc \in Stopping /\ onward = "next" => spec <= env.specs
  /\ pc \in Starting \ {"setConfig"} => statsSpec = spec /\ loadSpec = spec
  /\ pc \in HasGroup => group = spec

\* An errgroup's goroutine is of the spec at hand, and Stop will wait for it.
GroupInv ==
  \A s \in LoadSpecs, k \in GroupKinds :
    Alive(s, k) =>
      \/ s \in unwaited
      \/ /\ pc \in HasGroup \cup {"stop", "wait"}
         /\ s = spec /\ s = group /\ s = statsSpec

StorageInv ==
  /\ storage = "closed" => pc = "end"
  /\ NoLateWrite

\* An open connection is the engine's, until it is forgotten; the streams are
\* those of the engine's specification, and those that cleanup failed to delete.
LeftInv ==
  /\ \A s \in LoadSpecs : conns[s] \in {"up", "down"} =>
       s \in forgotten \/ (conn = s /\ pc \in Starting \cup Stopping)
  /\ pc \in Starting => conn = spec
  /\ streams # {} => env.jetStream
  /\ \A s \in streams :
       \/ s \in undeleted
       \/ s = loadSpec /\ pc \in HasGroup \cup {"stop", "wait", "cleanup"}

\* A goroutine is of a spec that is over, whose context is cancelled, or of the
\* spec at hand, whose context is the one that e.cancel cancels.
CancelInv ==
  /\ \A s \in LoadSpecs, k \in Kinds :
       Alive(s, k) => s < spec \/ (s = spec /\ s = group)
  /\ \A s \in LoadSpecs : s < spec => s \in ctxDone
  /\ pc \in {"wait", "closeConn", "closeStorage", "end"} =>
       group \in {0} \cup ctxDone

IInv == /\ TypeOK /\ PlaceInv /\ GroupInv /\ StorageInv /\ StatsAreOwn /\ LeftInv
        /\ CancelInv

GorType == gor \in [LoadSpecs -> [Kinds -> {"off", "on", "busy", "ended"}]]

-----------------------------------------------------------------------------
(* Goroutines.                                                             *)

\* What a step of the worker does to the goroutines: nothing, or it starts
\* some of the spec at hand, while Start is at work.
LEMMA WorkerStarts ==
  ASSUME WorkerStep
  PROVE  \/ UNCHANGED gor
         \/ /\ pc \in {"group", "publishers", "consumers", "ramp"}
            /\ \/ \E k \in {"collector", "publisher", "ramp"} :
                    gor' = [gor EXCEPT ![spec][k] = "on"]
               \/ \E st \in {"off", "on"} :
                    gor' = [gor EXCEPT ![spec]["consumer"] = st,
                                       ![spec]["cleaner"] = st]
<1>1. CASE NewGroup \/ CreatePublishers \/ StartRamp
  BY <1>1 DEF NewGroup, CreatePublishers, StartRamp, Start
<1>2. CASE CreateConsumers \/ CreateConsumersFails
  BY <1>2 DEF CreateConsumers, CreateConsumersFails
<1> QED
  BY <1>1, <1>2
  DEF WorkerStep, Connect, ConnectFails, SpecsOver, SetConfig, SetupStreams,
      SetupStreamsFails, TimerFires, CtxDone, StopCancels, StopWaits, Cleanup,
      CloseConn, CloseStorage

\* Who runs after it ran before, or is of the spec that Start is at.
LEMMA WorkerGoroutines ==
  ASSUME TypeOK, PlaceInv, WorkerStep
  PROVE  /\ GorType'
         /\ \A s \in LoadSpecs, k \in Kinds :
              Alive(s, k)' =>
                \/ Alive(s, k)
                \/ s = spec /\ pc \in {"group", "publishers", "consumers", "ramp"}
<1>1. GorType
  BY DEF TypeOK, GorType
<1>2. CASE UNCHANGED gor
  BY <1>1, <1>2 DEF GorType, Alive
<1>3. ASSUME pc \in {"group", "publishers", "consumers", "ramp"}
      PROVE  spec \in LoadSpecs
  <2>1. spec \in Nat \ {0} /\ spec <= env.specs /\ env.specs \in LoadSpecs
    BY <1>3, EngineAssumption DEF PlaceInv, Starting, TypeOK, LoadSpecs
  <2> QED
    BY <2>1, EngineAssumption DEF LoadSpecs
<1>4. ASSUME pc \in {"group", "publishers", "consumers", "ramp"},
             NEW k \in {"collector", "publisher", "ramp"},
             gor' = [gor EXCEPT ![spec][k] = "on"]
      PROVE  /\ GorType'
             /\ \A s \in LoadSpecs, j \in Kinds :
                  Alive(s, j)' => Alive(s, j) \/ s = spec
  <2>1. k \in Kinds
    BY DEF Kinds, GroupKinds
  <2>2. /\ GorType'
        /\ \A s \in LoadSpecs, j \in Kinds :
             gor'[s][j] = IF s = spec /\ j = k THEN "on" ELSE gor[s][j]
    BY <1>1, <1>3, <1>4, <2>1 DEF GorType
  <2> QED
    BY <2>1, <2>2 DEF Alive
<1>5. ASSUME pc \in {"group", "publishers", "consumers", "ramp"},
             NEW st \in {"off", "on"},
             gor' = [gor EXCEPT ![spec]["consumer"] = st, ![spec]["cleaner"] = st]
      PROVE  /\ GorType'
             /\ \A s \in LoadSpecs, j \in Kinds :
                  Alive(s, j)' => Alive(s, j) \/ s = spec
  <2>1. /\ "consumer" \in Kinds /\ "cleaner" \in Kinds
        /\ spec \in LoadSpecs /\ st \in {"off", "on", "busy", "ended"}
    BY <1>3, <1>5 DEF Kinds, GroupKinds
  <2>2. /\ GorType'
        /\ \A s \in LoadSpecs, j \in Kinds :
             gor'[s][j] = IF s = spec /\ j \in {"consumer", "cleaner"}
                            THEN st ELSE gor[s][j]
    BY <1>1, <1>5, <2>1 DEF GorType
  <2> QED
    BY <2>1, <2>2 DEF Alive
<1> QED
  BY <1>2, <1>4, <1>5, WorkerStarts

\* A goroutine's own step: nobody comes to life, and the worker's state stays.
LEMMA GoroutineStep ==
  ASSUME TypeOK, NEW s \in LoadSpecs, NEW k \in Kinds, Goroutine(s, k)
  PROVE  /\ GorType'
         /\ \A t \in LoadSpecs, j \in Kinds : Alive(t, j)' => Alive(t, j)
         /\ UNCHANGED unchangedByGoroutines
         /\ \/ UNCHANGED <<misfiled, late>>
            \/ /\ k \in {"collector", "publisher"} /\ Alive(s, k)
               /\ FileUnder(s, k)
               /\ \/ UNCHANGED late
                  \/ storage = "closed" /\ k = "collector" /\ late' = late \cup {s}
<1>1. GorType
  BY DEF TypeOK, GorType
<1>2. ASSUME NEW st \in {"off", "on", "busy", "ended"},
             gor' = [gor EXCEPT ![s][k] = st],
             st \in {"off", "ended"} \/ Alive(s, k)
      PROVE  /\ GorType'
             /\ \A t \in LoadSpecs, j \in Kinds : Alive(t, j)' => Alive(t, j)
  <2>1. /\ GorType'
        /\ \A t \in LoadSpecs, j \in Kinds :
             gor'[t][j] = IF t = s /\ j = k THEN st ELSE gor[t][j]
    BY <1>1, <1>2 DEF GorType
  <2> QED
    BY <1>2, <2>1 DEF Alive
<1>3. CASE k = "collector" /\ Collect(s)
  <2>1. UNCHANGED gor \/ gor' = [gor EXCEPT ![s][k] = "ended"]
    BY <1>3 DEF Collect
  <2>2. GorType' /\ \A t \in LoadSpecs, j \in Kinds : Alive(t, j)' => Alive(t, j)
    BY <1>1, <1>2, <2>1 DEF GorType, Alive
  <2>3. /\ UNCHANGED late \/ (storage = "closed" /\ late' = late \cup {s})
        /\ FileUnder(s, k) /\ Alive(s, k)
    BY <1>3 DEF Collect, WriteStats, Alive
  <2> QED
    BY <1>3, <2>2, <2>3 DEF Collect
<1>4. CASE \/ k = "publisher" /\ Send(s)
           \/ k = "consumer" /\ Fetch(s)
  <2>1. /\ gor' = [gor EXCEPT ![s][k] = "busy"] /\ Alive(s, k)
        /\ UNCHANGED <<unchangedByGoroutines, misfiled, late>>
    BY <1>4 DEF Send, Fetch, Set, Alive
  <2> QED
    BY <1>2, <2>1
<1>5. CASE k \in {"publisher", "consumer"} /\ Record(s, k)
  <2>1. /\ gor' = [gor EXCEPT ![s][k] = "on"] /\ Alive(s, k)
        /\ UNCHANGED <<unchangedByGoroutines, late>>
        /\ (k = "publisher" /\ FileUnder(s, k)) \/ UNCHANGED misfiled
    BY <1>5 DEF Record, Set, Alive
  <2> QED
    BY <1>2, <1>5, <2>1
<1>6. CASE End(s, k)
  <2>1. /\ gor' = [gor EXCEPT ![s][k] = "ended"]
        /\ UNCHANGED <<unchangedByGoroutines, misfiled, late>>
    BY <1>6 DEF End, Set
  <2> QED
    BY <1>2, <2>1
<1> QED
  BY <1>3, <1>4, <1>5, <1>6 DEF Goroutine

\* A publisher that fails ends, and cancels its spec's context.
LEMMA FailsStep ==
  ASSUME TypeOK, NEW s \in LoadSpecs, PublisherFails(s)
  PROVE  /\ GorType'
         /\ \A t \in LoadSpecs, j \in Kinds : Alive(t, j)' => Alive(t, j)
         /\ ctxDone' = ctxDone \cup {s}
         /\ UNCHANGED <<pc, spec, onward, cfgDone, engine, conns, statsSpec,
                        misfiled, left, store>>
<1>1. GorType /\ "publisher" \in Kinds
  BY DEF TypeOK, GorType, Kinds, GroupKinds
<1>2. gor' = [gor EXCEPT ![s]["publisher"] = "ended"]
  BY DEF PublisherFails, Set
<1>3. /\ GorType'
      /\ \A t \in LoadSpecs, j \in Kinds :
           gor'[t][j] = IF t = s /\ j = "publisher" THEN "ended" ELSE gor[t][j]
  BY <1>1, <1>2 DEF GorType
<1> QED
  BY <1>3 DEF Alive, PublisherFails

-----------------------------------------------------------------------------
(* The invariant is inductive: one lemma per conjunct.                     *)

\* The spec at hand is one of the configuration's.
LEMMA SpecRange ==
  ASSUME TypeOK
  PROVE  /\ env.specs \in LoadSpecs /\ spec \in Nat \ {0}
         /\ {0} \cup LoadSpecs \subseteq 0..MaxSpecs /\ 0 \notin LoadSpecs
         /\ spec <= env.specs => spec \in LoadSpecs /\ spec + 1 \in 1..(env.specs + 1)
         /\ spec # spec + 1
<1>1. env \in [specs : LoadSpecs, jetStream : BOOLEAN, publishing : BOOLEAN,
               consuming : BOOLEAN, drops : BOOLEAN]
  BY EngineAssumption DEF TypeOK
<1>2. env.specs \in 1..MaxSpecs /\ MaxSpecs \in Nat
  BY <1>1, EngineAssumption DEF LoadSpecs
<1> QED
  BY <1>2 DEF TypeOK, LoadSpecs

\* The variables stay in their ranges.
LEMMA TypeStep ==
  ASSUME TypeOK, PlaceInv, Next
  PROVE  TypeOK'
<1> USE SpecRange
<1>0. UNCHANGED env
  BY DEF Next
<1>1. CASE CancelConfig
  BY <1>0, <1>1 DEF CancelConfig, TypeOK, engine, left, store
<1>2. CASE WorkerStep
  <2>1. GorType'
    BY <1>2, WorkerGoroutines
  <2>2. CASE Connect
    BY <1>0, <2>1, <2>2 DEF Connect, SpecLeft, TypeOK, GorType, WorkerSteps, left,
                             store
  <2>3. CASE ConnectFails
    <3>1. /\ ctxDone' \subseteq LoadSpecs /\ spec' \in 1..(env.specs + 1)
          /\ misfiled' \subseteq Recorders \X LoadSpecs
          /\ pc' = "connect"
          /\ UNCHANGED <<onward, cfgDone, engine, conns, statsSpec, left, store>>
      BY <2>3 DEF ConnectFails, NextSpec, SpecLeft, TypeOK, Recorders
    <3> QED
      BY <1>0, <2>1, <3>1 DEF TypeOK, GorType, WorkerSteps, engine, left, store
  <2>4. CASE SpecsOver \/ TimerFires \/ CtxDone \/ StopWaits \/ CloseStorage
    BY <1>0, <2>1, <2>4
    DEF SpecsOver, TimerFires, CtxDone, StopWaits, CloseStorage, TypeOK, GorType,
        WorkerSteps, engine, left, store
  <2>5. CASE SetConfig \/ NewGroup
    BY <1>0, <2>1, <2>5
    DEF SetConfig, NewGroup, PlaceInv, Starting, TypeOK, GorType, WorkerSteps,
        left, store
  <2>6. CASE SetupStreams \/ SetupStreamsFails
    BY <1>0, <2>1, <2>6
    DEF SetupStreams, SetupStreamsFails, PlaceInv, Starting, TypeOK, GorType,
        WorkerSteps, engine, store
  <2>7. CASE CreatePublishers \/ CreateConsumers \/ CreateConsumersFails \/ StartRamp
    BY <1>0, <2>1, <2>7
    DEF CreatePublishers, CreateConsumers, CreateConsumersFails, StartRamp,
        PlaceInv, Starting, TypeOK, GorType, WorkerSteps, engine, left, store
  <2>8. CASE StopCancels \/ Cleanup
    <3>1. group # 0 => group \in LoadSpecs
      BY DEF TypeOK, LoadSpecs
    <3>2. ctxDone' \subseteq LoadSpecs
      BY <2>8, <3>1 DEF StopCancels, Cleanup, EngineCancel, TypeOK
    <3> QED
      BY <1>0, <2>1, <2>8, <3>2
      DEF StopCancels, Cleanup, TypeOK, GorType, WorkerSteps, engine, left, store
  <2>9. CASE CloseConn
    <3>0. conn # 0 => conn \in LoadSpecs
      BY DEF TypeOK, LoadSpecs
    <3>1. /\ conns' \in [LoadSpecs -> {"none", "up", "down", "closed"}]
          /\ forgotten' \subseteq LoadSpecs
      <4>1. CASE conn # 0 /\ conns[conn] = "up"
        BY <2>9, <4>1 DEF CloseConn, ReleaseConn, TypeOK
      <4>2. CASE ~(conn # 0 /\ conns[conn] = "up")
        BY <2>9, <3>0, <4>2 DEF CloseConn, ReleaseConn, TypeOK
      <4> QED
        BY <4>1, <4>2
    <3>2. /\ ctxDone' \subseteq LoadSpecs /\ spec' \in 1..(env.specs + 1)
          /\ pc' \in WorkerSteps
      BY <2>9 DEF CloseConn, PlaceInv, Stopping, TypeOK, WorkerSteps
    <3> QED
      BY <1>0, <2>1, <2>9, <3>1, <3>2 DEF CloseConn, TypeOK, GorType, left, store
  <2> QED
    BY <1>2, <2>2, <2>3, <2>4, <2>5, <2>6, <2>7, <2>8, <2>9 DEF WorkerStep
<1>3. ASSUME NEW s \in LoadSpecs, NetworkChanges(s)
      PROVE  TypeOK'
  BY <1>0, <1>3 DEF NetworkChanges, TypeOK, engine, left, store
<1>4. ASSUME NEW s \in LoadSpecs, NEW k \in Kinds, Goroutine(s, k)
      PROVE  TypeOK'
  <2>1. GorType' /\ UNCHANGED unchangedByGoroutines
    BY <1>4, GoroutineStep
  <2>2. misfiled' \subseteq Recorders \X LoadSpecs
    BY <1>4, GoroutineStep DEF FileUnder, TypeOK, Recorders
  <2>3. late' \subseteq LoadSpecs
    BY <1>4, GoroutineStep DEF TypeOK
  <2> QED
    BY <1>0, <2>1, <2>2, <2>3
    DEF unchangedByGoroutines, TypeOK, GorType, engine, left, store
<1>5. ASSUME NEW s \in LoadSpecs, PublisherFails(s)
      PROVE  TypeOK'
  BY <1>0, <1>5, FailsStep DEF TypeOK, GorType, engine, left, store
<1> QED
  BY <1>1, <1>2, <1>3, <1>4, <1>5 DEF Next

\* Start's assignments hold from the step that makes them.
LEMMA PlaceStep ==
  ASSUME TypeOK, PlaceInv, Next
  PROVE  PlaceInv'
<1>0. UNCHANGED env
  BY DEF Next
<1>1. CASE UNCHANGED <<pc, spec, onward, statsSpec, engine>>
  BY <1>0, <1>1 DEF PlaceInv, engine
<1>2. CASE WorkerStep
  <2>1. CASE Connect \/ ConnectFails \/ SpecsOver \/ SetConfig \/ NewGroup
    BY <1>0, <2>1
    DEF Connect, ConnectFails, SpecsOver, SetConfig, NewGroup, NextSpec, SpecLeft,
        PlaceInv, Starting, HasGroup, Stopping, engine
  <2>2. CASE \/ SetupStreams \/ SetupStreamsFails \/ CreatePublishers
             \/ CreateConsumers \/ CreateConsumersFails \/ StartRamp
    BY <1>0, <2>2
    DEF SetupStreams, SetupStreamsFails, CreatePublishers, CreateConsumers,
        CreateConsumersFails, StartRamp, PlaceInv, Starting, HasGroup, Stopping, engine
  <2>3. CASE \/ TimerFires \/ CtxDone \/ StopCancels \/ StopWaits \/ Cleanup
             \/ CloseConn \/ CloseStorage
    BY <1>0, <2>3
    DEF TimerFires, CtxDone, StopCancels, StopWaits, Cleanup, CloseConn,
        CloseStorage, PlaceInv, Starting, HasGroup, Stopping, engine
  <2> QED
    BY <1>2, <2>1, <2>2, <2>3 DEF WorkerStep
<1>3. CASE CancelConfig \/ \E s \in LoadSpecs : NetworkChanges(s)
  BY <1>1, <1>3 DEF CancelConfig, NetworkChanges
<1>4. CASE \E s \in LoadSpecs, k \in Kinds : Goroutine(s, k)
  BY <1>1, <1>4, GoroutineStep DEF unchangedByGoroutines
<1>5. CASE \E s \in LoadSpecs : PublisherFails(s)
  BY <1>1, <1>5, FailsStep
<1> QED
  BY <1>2, <1>3, <1>4, <1>5 DEF Next

\* Nobody alive is forgotten: Stop waits for the group, and Start's error path
\* is the only way around it.
LEMMA GroupStep ==
  ASSUME TypeOK, PlaceInv, GroupInv, Next
  PROVE  GroupInv'
<1> USE SpecRange
<1>1. CASE UNCHANGED <<pc, spec, group, statsSpec, gor, unwaited>>
  BY <1>1 DEF GroupInv, Alive
<1>2. CASE WorkerStep
  <2> SUFFICES ASSUME NEW s \in LoadSpecs, NEW k \in GroupKinds, Alive(s, k)'
               PROVE  \/ s \in unwaited'
                      \/ /\ pc' \in HasGroup \cup {"stop", "wait"}
                         /\ s = spec' /\ s = group' /\ s = statsSpec'
    BY DEF GroupInv
  <2>1. \/ Alive(s, k)
        \/ s = spec /\ pc \in {"group", "publishers", "consumers", "ramp"}
    BY <1>2, WorkerGoroutines DEF Kinds
  <2>2. \/ s \in unwaited
        \/ /\ pc \in HasGroup \cup {"stop", "wait"}
           /\ s = spec /\ s = group /\ s = statsSpec
        \/ pc = "group" /\ s = spec /\ s = statsSpec
    BY <2>1 DEF GroupInv, PlaceInv, HasGroup, Starting
  <2>3. CASE Connect \/ ConnectFails \/ SpecsOver \/ SetConfig \/ NewGroup
    BY <2>2, <2>3
    DEF Connect, ConnectFails, SpecsOver, SetConfig, NewGroup, HasGroup, left, store
  <2>4. CASE SetupStreams \/ CreatePublishers \/ CreateConsumers \/ StartRamp
    BY <2>2, <2>4
    DEF SetupStreams, CreatePublishers, CreateConsumers, StartRamp, HasGroup,
        engine, left, store
  <2>5. CASE SetupStreamsFails \/ CreateConsumersFails
    BY <2>2, <2>5 DEF SetupStreamsFails, CreateConsumersFails
  <2>6. CASE TimerFires \/ CtxDone \/ StopCancels
    BY <2>2, <2>6 DEF TimerFires, CtxDone, StopCancels, HasGroup, engine, left, store
  <2>7. CASE StopWaits
    <3>1. Alive(s, k)
      BY <2>1, <2>7 DEF StopWaits
    <3>2. s \in unwaited \/ s = group
      BY <2>2, <2>7 DEF StopWaits
    <3> QED
      BY <2>7, <3>1, <3>2 DEF StopWaits, GroupWaited, left, store
  <2>8. CASE Cleanup \/ CloseConn \/ CloseStorage
    BY <2>2, <2>8 DEF Cleanup, CloseConn, CloseStorage, HasGroup, left, store
  <2> QED
    BY <1>2, <2>3, <2>4, <2>5, <2>6, <2>7, <2>8 DEF WorkerStep
<1>3. CASE CancelConfig \/ \E s \in LoadSpecs : NetworkChanges(s)
  BY <1>1, <1>3 DEF CancelConfig, NetworkChanges, engine, left, store
<1>4. ASSUME NEW s \in LoadSpecs, NEW k \in Kinds, Goroutine(s, k)
      PROVE  GroupInv'
  <2>1. \A t \in LoadSpecs, j \in GroupKinds : Alive(t, j)' => Alive(t, j)
    BY <1>4, GoroutineStep DEF Kinds
  <2>2. UNCHANGED <<pc, spec, group, statsSpec, unwaited>>
    BY <1>4, GoroutineStep DEF unchangedByGoroutines, engine, left, store
  <2> QED
    BY <2>1, <2>2 DEF GroupInv
<1>5. ASSUME NEW s \in LoadSpecs, PublisherFails(s)
      PROVE  GroupInv'
  <2>1. \A t \in LoadSpecs, j \in GroupKinds : Alive(t, j)' => Alive(t, j)
    BY <1>5, FailsStep DEF Kinds
  <2>2. UNCHANGED <<pc, spec, group, statsSpec, unwaited>>
    BY <1>5, FailsStep DEF engine, left
  <2> QED
    BY <2>1, <2>2 DEF GroupInv
<1> QED
  BY <1>2, <1>3, <1>4, <1>5 DEF Next

\* Specs whose start failed are remembered, and only Start's error path and
\* goroutines touch what is recorded and written.
LEMMA WorkerLeaves ==
  ASSUME WorkerStep
  PROVE  /\ unwaited \subseteq unwaited'
         /\ misfiled' \subseteq misfiled \cup {<<"failure", spec>>}
         /\ UNCHANGED late
         /\ (UNCHANGED storage /\ pc # "end") \/ pc' = "end"
BY DEF WorkerStep, Connect, ConnectFails, SpecsOver, SetConfig, NewGroup,
       SetupStreams, SetupStreamsFails, CreatePublishers, CreateConsumers,
       CreateConsumersFails, StartRamp, TimerFires, CtxDone, StopCancels,
       StopWaits, Cleanup, CloseConn, CloseStorage, left, store

\* A collector that writes late, or under a spec that is not its own, is of a
\* start that failed.
LEMMA RecordsStep ==
  ASSUME TypeOK, GroupInv, StorageInv, StatsAreOwn, Next
  PROVE  StorageInv' /\ StatsAreOwn'
<1>1. CASE UNCHANGED <<pc, misfiled, storage, late, unwaited>>
  BY <1>1 DEF StorageInv, NoLateWrite, StatsAreOwn
<1>2. CASE WorkerStep
  <2>1. StorageInv'
    BY <1>2, WorkerLeaves DEF StorageInv, NoLateWrite
  <2>2. ASSUME NEW k \in {"collector", "publisher"}, NEW s \in LoadSpecs
        PROVE  <<k, s>> \in misfiled' => <<k, s>> \in misfiled
    BY <1>2, WorkerLeaves
  <2>3. StatsAreOwn'
    BY <1>2, <2>2, WorkerLeaves DEF StatsAreOwn
  <2> QED
    BY <2>1, <2>3
<1>3. CASE CancelConfig \/ \E s \in LoadSpecs : NetworkChanges(s)
  BY <1>1, <1>3 DEF CancelConfig, NetworkChanges, left, store
<1>4. ASSUME NEW s \in LoadSpecs, NEW k \in Kinds, Goroutine(s, k)
      PROVE  StorageInv' /\ StatsAreOwn'
  <2>1. UNCHANGED <<pc, statsSpec, storage, unwaited>>
    BY <1>4, GoroutineStep DEF unchangedByGoroutines, left
  <2>2. CASE UNCHANGED <<misfiled, late>>
    BY <1>1, <2>1, <2>2
  <2>3. CASE /\ k \in {"collector", "publisher"} /\ Alive(s, k)
             /\ FileUnder(s, k)
             /\ \/ UNCHANGED late
                \/ k = "collector" /\ storage = "closed" /\ late' = late \cup {s}
    <3>1. s \in unwaited \/ (s = statsSpec /\ pc # "end")
      BY <2>3 DEF GroupInv, GroupKinds, HasGroup
    <3>2. StatsAreOwn'
      BY <2>1, <2>3, <3>1 DEF FileUnder, StatsAreOwn
    <3>3. StorageInv'
      BY <2>1, <2>3, <3>1 DEF StorageInv, NoLateWrite
    <3> QED
      BY <3>2, <3>3
  <2> QED
    BY <1>4, <2>2, <2>3, GoroutineStep
<1>5. CASE \E s \in LoadSpecs : PublisherFails(s)
  BY <1>1, <1>5, FailsStep DEF left, store
<1> QED
  BY <1>2, <1>3, <1>4, <1>5 DEF Next

\* Cleanup deletes every stream of the spec at hand or notes that it could not,
\* CloseConn closes the engine's connection or forgets it.
LEMMA LeftStep ==
  ASSUME TypeOK, PlaceInv, LeftInv, Next
  PROVE  LeftInv'
<1> USE SpecRange
<1>0. UNCHANGED env
  BY DEF Next
<1>1. CASE UNCHANGED <<pc, spec, conn, conns, loadSpec, left>>
  BY <1>0, <1>1 DEF LeftInv, left
<1>2. ASSUME WorkerStep
      PROVE  LeftInv'
  <2>1. conns \in [LoadSpecs -> {"none", "up", "down", "closed"}]
    BY DEF TypeOK
  <2>2. CASE Connect
    <3>1. /\ \A s \in LoadSpecs : conns[s] \in {"up", "down"} => s \in forgotten
          /\ streams \subseteq undeleted /\ spec \in LoadSpecs
      BY <2>2 DEF Connect, SpecLeft, LeftInv, Starting, HasGroup, Stopping
    <3>2. \A s \in LoadSpecs : s # spec => conns'[s] = conns[s]
      BY <2>1, <2>2, <3>1 DEF Connect
    <3> QED
      BY <1>0, <2>2, <3>1, <3>2 DEF Connect, LeftInv, Starting, left
  <2>3. CASE ConnectFails \/ SpecsOver \/ SetConfig \/ NewGroup
    BY <1>0, <2>3
    DEF ConnectFails, SpecsOver, SetConfig, NewGroup, NextSpec, LeftInv, Starting,
        HasGroup, Stopping, engine, left
  <2>4. CASE SetupStreams \/ SetupStreamsFails
    <3>1. conn = spec /\ spec = loadSpec /\ pc' \in {"publishers", "cleanup"}
      BY <2>4 DEF SetupStreams, SetupStreamsFails, PlaceInv, LeftInv, Starting
    <3>2. /\ streams' \subseteq streams \cup {spec}
          /\ streams' # streams => env.jetStream
          /\ UNCHANGED <<spec, engine, conns, undeleted, forgotten>>
          /\ pc = "streams"
      BY <2>4 DEF SetupStreams, SetupStreamsFails
    <3> QED
      BY <1>0, <3>1, <3>2 DEF LeftInv, Starting, HasGroup, Stopping, engine
  <2>5. CASE \/ CreatePublishers \/ CreateConsumers \/ CreateConsumersFails
             \/ StartRamp
    BY <1>0, <2>5
    DEF CreatePublishers, CreateConsumers, CreateConsumersFails, StartRamp,
        LeftInv, Starting, HasGroup, Stopping, engine, left
  <2>6. CASE TimerFires \/ CtxDone \/ StopCancels \/ StopWaits
    BY <1>0, <2>6
    DEF TimerFires, CtxDone, StopCancels, StopWaits, LeftInv, Starting, HasGroup,
        Stopping, engine, left
  <2>7. CASE Cleanup
    <3>1. PICK failed \in SUBSET (streams \cap {loadSpec}) :
            /\ streams' = IF env.jetStream THEN (streams \ {loadSpec}) \cup failed
                                           ELSE streams
            /\ undeleted' = undeleted \cup failed
      BY <2>7 DEF Cleanup
    <3>2. streams' \subseteq streams /\ streams' \subseteq undeleted'
      BY <3>1 DEF LeftInv
    <3> QED
      BY <1>0, <2>7, <3>2
      DEF Cleanup, LeftInv, Starting, HasGroup, Stopping, engine
  <2>8. CASE CloseConn
    <3>1. streams' \subseteq undeleted' /\ (streams' # {} => env.jetStream)
      BY <2>8 DEF CloseConn, LeftInv, HasGroup
    <3>2. \A s \in LoadSpecs : conns'[s] \in {"up", "down"} => s \in forgotten'
      <4>1. CASE conn # 0 /\ conns[conn] = "up"
        BY <2>1, <2>8, <4>1 DEF CloseConn, ReleaseConn, LeftInv
      <4>2. CASE conn # 0 /\ conns[conn] # "up"
        BY <2>8, <4>2 DEF CloseConn, ReleaseConn, LeftInv
      <4>3. CASE conn = 0
        BY <2>8, <4>3 DEF CloseConn, ReleaseConn, LeftInv
      <4> QED
        BY <4>1, <4>2, <4>3
    <3>3. pc' \in {"connect", "closeStorage"}
      BY <2>8 DEF CloseConn
    <3> QED
      BY <1>0, <3>1, <3>2, <3>3 DEF LeftInv, Starting
  <2>9. CASE CloseStorage
    BY <1>0, <2>9
    DEF CloseStorage, LeftInv, Starting, HasGroup, Stopping, engine, left
  <2> QED
    BY <1>2, <2>2, <2>3, <2>4, <2>5, <2>6, <2>7, <2>8, <2>9 DEF WorkerStep
<1>3. CASE CancelConfig
  BY <1>1, <1>3 DEF CancelConfig, engine
<1>4. ASSUME NEW s \in LoadSpecs, NetworkChanges(s)
      PROVE  LeftInv'
  <2>1. /\ conns[s] \in {"up", "down"}
        /\ \A t \in LoadSpecs : t # s => conns'[t] = conns[t]
    BY <1>4 DEF NetworkChanges, TypeOK
  <2> QED
    BY <1>0, <1>4, <2>1 DEF NetworkChanges, LeftInv, engine, left
<1>5. CASE \E s \in LoadSpecs, k \in Kinds : Goroutine(s, k)
  BY <1>1, <1>5, GoroutineStep DEF unchangedByGoroutines, engine
<1>6. CASE \E s \in LoadSpecs : PublisherFails(s)
  BY <1>1, <1>6, FailsStep DEF engine
<1> QED
  BY <1>2, <1>3, <1>4, <1>5, <1>6 DEF Next

\* The contexts of the specs that are over stay cancelled, and whatever takes
\* the worker out of a spec cancels that one's.
LEMMA CancelStep ==
  ASSUME TypeOK, PlaceInv, CancelInv, Next
  PROVE  CancelInv'
<1> USE SpecRange
<1>1. CASE UNCHANGED <<pc, spec, group, ctxDone, gor>>
  BY <1>1 DEF CancelInv, Alive
<1>2. ASSUME WorkerStep
      PROVE  CancelInv'
  <2>1. ASSUME NEW s \in LoadSpecs, NEW k \in Kinds, Alive(s, k)'
        PROVE  s < spec \/ (s = spec /\ (s = group \/ pc = "group"))
    <3>1. \/ Alive(s, k)
          \/ s = spec /\ pc \in {"group", "publishers", "consumers", "ramp"}
      BY <1>2, <2>1, WorkerGoroutines
    <3> QED
      BY <3>1 DEF CancelInv, PlaceInv, HasGroup
  <2>2. CASE \/ Connect \/ SpecsOver \/ SetConfig \/ SetupStreams \/ SetupStreamsFails
             \/ CreatePublishers \/ CreateConsumers \/ CreateConsumersFails
             \/ StartRamp \/ TimerFires \/ CtxDone \/ StopWaits \/ CloseStorage
    <3>1. UNCHANGED <<spec, group, ctxDone>> /\ pc # "group"
      BY <2>2
      DEF Connect, SpecsOver, SetConfig, SetupStreams, SetupStreamsFails,
          CreatePublishers, CreateConsumers, CreateConsumersFails, StartRamp,
          TimerFires, CtxDone, StopWaits, CloseStorage, engine
    <3>2. pc' \in {"wait", "closeConn", "closeStorage", "end"} =>
            pc \in {"wait", "closeConn", "closeStorage", "end"}
      BY <2>2
      DEF Connect, SpecsOver, SetConfig, SetupStreams, SetupStreamsFails,
          CreatePublishers, CreateConsumers, CreateConsumersFails, StartRamp,
          TimerFires, CtxDone, StopWaits, CloseStorage
    <3> QED
      BY <2>1, <3>1, <3>2 DEF CancelInv
  <2>3. CASE NewGroup
    BY <2>1, <2>3 DEF NewGroup, CancelInv
  <2>4. CASE StopCancels \/ Cleanup
    <3>1. /\ ctxDone \subseteq ctxDone' /\ group \in {0} \cup ctxDone'
          /\ UNCHANGED <<spec, group>> /\ pc # "group"
      BY <2>4 DEF StopCancels, Cleanup, EngineCancel, engine
    <3> QED
      BY <2>1, <3>1 DEF CancelInv
  <2>5. CASE ConnectFails \/ (CloseConn /\ onward = "next")
    <3>1. /\ pc' = "connect" /\ pc # "group" /\ spec' = spec + 1
          /\ ctxDone' = ctxDone \cup {spec}
      BY <2>5 DEF ConnectFails, NextSpec, CloseConn
    <3>2. ASSUME NEW s \in LoadSpecs
          PROVE  s < spec' <=> (s < spec \/ s = spec)
      BY <3>1 DEF LoadSpecs
    <3> QED
      BY <2>1, <3>1, <3>2 DEF CancelInv
  <2>6. CASE CloseConn /\ onward # "next"
    BY <2>1, <2>6 DEF CloseConn, CancelInv
  <2> QED
    BY <1>2, <2>2, <2>3, <2>4, <2>5, <2>6 DEF WorkerStep
<1>3. CASE CancelConfig \/ \E s \in LoadSpecs : NetworkChanges(s)
  BY <1>1, <1>3 DEF CancelConfig, NetworkChanges, engine
<1>4. ASSUME NEW s \in LoadSpecs, NEW k \in Kinds, Goroutine(s, k)
      PROVE  CancelInv'
  <2>1. \A t \in LoadSpecs, j \in Kinds : Alive(t, j)' => Alive(t, j)
    BY <1>4, GoroutineStep
  <2>2. UNCHANGED <<pc, spec, group, ctxDone>>
    BY <1>4, GoroutineStep DEF unchangedByGoroutines, engine
  <2> QED
    BY <2>1, <2>2 DEF CancelInv
<1>5. ASSUME NEW s \in LoadSpecs, PublisherFails(s)
      PROVE  CancelInv'
  <2>1. \A t \in LoadSpecs, j \in Kinds : Alive(t, j)' => Alive(t, j)
    BY <1>5, FailsStep
  <2>2. UNCHANGED <<pc, spec, group>> /\ ctxDone \subseteq ctxDone'
    BY <1>5, FailsStep DEF engine
  <2> QED
    BY <2>1, <2>2 DEF CancelInv
<1> QED
  BY <1>2, <1>3, <1>4, <1>5 DEF Next

-----------------------------------------------------------------------------
(* The theorems.                                                           *)

\* IInv holds in every state of an engine, for every list of specs, every mode
\* and every network, whatever of Start fails and whenever it is cancelled.
THEOREM Invariance == Spec => []IInv
<1>1. Init => IInv
  <2> SUFFICES ASSUME Init PROVE IInv
    OBVIOUS
  <2>1. TypeOK
    <3>1. env.specs \in 1..MaxSpecs /\ MaxSpecs \in Nat
      BY EngineAssumption DEF Init, LoadSpecs
    <3>2. spec \in 1..(env.specs + 1) /\ 0 \in 0..MaxSpecs
      BY <3>1 DEF Init
    <3>3. /\ conns \in [LoadSpecs -> {"none", "up", "down", "closed"}]
          /\ gor \in [LoadSpecs -> [Kinds -> {"off", "on", "busy", "ended"}]]
      BY DEF Init
    <3> QED
      BY <3>2, <3>3 DEF Init, TypeOK, WorkerSteps
  <2>2. PlaceInv /\ StorageInv /\ StatsAreOwn
    BY DEF Init, PlaceInv, Starting, HasGroup, Stopping, StorageInv, NoLateWrite,
           StatsAreOwn
  <2>3. GroupInv
    BY DEF Init, GroupInv, Alive, GroupKinds, Kinds
  <2>4. LeftInv
    BY DEF Init, LeftInv, Starting, HasGroup, Stopping
  <2>5. CancelInv
    BY DEF Init, CancelInv, Alive, LoadSpecs
  <2> QED
    BY <2>1, <2>2, <2>3, <2>4, <2>5 DEF IInv
<1>2. IInv /\ [Next]_vars => IInv'
  <2> SUFFICES ASSUME IInv, [Next]_vars PROVE IInv'
    OBVIOUS
  <2>1. CASE Next
    BY <2>1, TypeStep, PlaceStep, GroupStep, RecordsStep, LeftStep, CancelStep
    DEF IInv
  <2>2. CASE UNCHANGED vars
    BY <2>2
    DEF IInv, TypeOK, PlaceInv, GroupInv, Alive, StorageInv, NoLateWrite,
        StatsAreOwn, LeftInv, CancelInv, vars, engine, left, store
  <2> QED
    BY <2>1, <2>2
<1> QED
  BY <1>1, <1>2, PTL DEF Spec

\* Every variable of the engine stays within its type.
THEOREM TypeCorrect == Spec => []TypeOK
<1>1. IInv => TypeOK
  BY DEF IInv
<1> QED
  BY <1>1, Invariance, PTL

\* While the worker is at one spec, an errgroup's goroutine of another is alive
\* only if that one's Start failed: Stop waited for all the others.
THEOREM FailedOverlap == Spec => []OnlyFailedStartsOverlap
<1>1. IInv => OnlyFailedStartsOverlap
  BY DEF IInv, GroupInv, OnlyFailedStartsOverlap
<1> QED
  BY <1>1, Invariance, PTL

\* A storage is written after its Close only by the collector of a spec whose
\* own Start failed half-way.
THEOREM LateWrites == Spec => []NoLateWrite
<1>1. IInv => NoLateWrite
  BY DEF IInv, StorageInv
<1> QED
  BY <1>1, Invariance, PTL

\* SetConfig finds no publisher and no collector loop of another spec, but of
\* those whose own Start failed: all others have what they record filed rightly.
THEOREM OwnStats == Spec => []StatsAreOwn
<1>1. IInv => StatsAreOwn
  BY DEF IInv
<1> QED
  BY <1>1, Invariance, PTL

\* At the end of a configuration only a stream whose deletion failed, and a
\* connection that was down when it was to be closed, are left behind, whatever
\* of Start failed and whenever it was cancelled.
THEOREM NothingLeft == Spec => []NothingIsLeft
<1>1. IInv => NothingIsLeft
  BY DEF IInv, LeftInv, Starting, HasGroup, Stopping, NothingIsLeft
<1> QED
  BY <1>1, Invariance, PTL

\* A goroutine, in an errgroup or in none, that still runs when the worker waits
\* for the errgroup, is past cleanup or is at another spec was told to stop:
\* every way out of a spec cancels the context that its goroutines watch.
LeftBehindIsCancelled ==
  \A s \in LoadSpecs, k \in Kinds :
    /\ Alive(s, k)
    /\ s # spec \/ pc \in {"wait", "closeConn", "closeStorage", "end"}
    => Done(s)

\* However Start failed and wherever the configuration was cancelled, whoever
\* outlives a spec, its errgroup awaited or not, finds its context done.
THEOREM LeftBehind == Spec => []LeftBehindIsCancelled
<1>1. IInv => LeftBehindIsCancelled
  BY DEF IInv, CancelInv, LeftBehindIsCancelled, Done, LoadSpecs
<1> QED
  BY <1>1, Invariance, PTL
=============================================================================
