-------------------------------- MODULE Engine --------------------------------
(***************************************************************************)
(* One engine under one configuration: the worker (processConfig) starts   *)
(* and stops it once per spec, in order.  Each Start connects, points the  *)
(* collector at the spec, makes a new errgroup and starts goroutines: the  *)
(* collector's loop, publishers, consumer clean-ups and the ramp-up in the *)
(* errgroup, pull consumers (and subscription callbacks) outside of it.    *)
(* Stop cancels, waits for the errgroup and cleans up.  The goroutines of  *)
(* one spec are one of each kind here.                                     *)
(***************************************************************************)
EXTENDS Naturals

CONSTANTS MaxSpecs,       \* bound: specs of a configuration, repeats included
          Environments    \* configurations, modes and networks to consider

LoadSpecs == 1..MaxSpecs

\* specs: how many the configuration has; jetStream: use_jetstream; publishing
\* and consuming: --mode; drops: connections may be lost for a while.
ASSUME EngineAssumption ==
  /\ MaxSpecs \in Nat \ {0}
  /\ Environments \subseteq [specs : LoadSpecs, jetStream : BOOLEAN,
                             publishing : BOOLEAN, consuming : BOOLEAN,
                             drops : BOOLEAN]

GroupKinds == {"collector", "publisher", "cleaner", "ramp"}
Kinds == GroupKinds \cup {"consumer"}
Recorders == {"collector", "publisher", "failure"}

VARIABLES
  env,        \* the environment; it does not change
  pc,         \* control point of the worker in Start, processConfig and Stop
  spec,       \* the spec it is at
  onward,     \* where it goes after cleanup: the next spec or storage.Close
  cfgDone,    \* the configuration's context is cancelled
  ctxDone,    \* specs whose own context is cancelled
  group,      \* the spec e.errGroup was made for, 0 for nil
  conn,       \* the spec e.natsConn was made for, 0 for nil
  conns,      \* conns[s]: state of the connection made for s
  loadSpec,   \* e.loadTestSpec, 0 for nil
  gor,        \* gor[s][k]: state of the goroutine of kind k of spec s
  statsSpec,  \* Collector.loadTestSpec, 0 before SetConfig
  storage,    \* "open" or "closed"
  streams,    \* specs whose streams exist on the server
  \* What happened earlier, for the properties only:
  misfiled,   \* <<k, s>>: a k of spec s recorded under another spec
  late,       \* specs whose statistics were written to the closed storage
  unwaited,   \* specs whose start failed after it had begun its errgroup
  undeleted,  \* specs whose streams cleanup failed to delete
  forgotten   \* specs whose connection was not up when it was to be closed

engine == <<group, conn, loadSpec>>
left == <<streams, unwaited, undeleted, forgotten>>
store == <<storage, late>>
vars == <<env, pc, spec, onward, cfgDone, ctxDone, engine, conns, gor,
          statsSpec, misfiled, left, store>>

WorkerSteps == {"connect", "setConfig", "group", "streams", "publishers",
                "consumers", "ramp", "running", "stop", "wait", "cleanup",
                "closeConn", "closeStorage", "end"}

TypeOK ==
  /\ pc \in WorkerSteps
  /\ env \in Environments
  /\ spec \in 1..(env.specs + 1)
  /\ onward \in {"next", "close"}
  /\ cfgDone \in BOOLEAN
  /\ ctxDone \subseteq LoadSpecs
  /\ group \in 0..MaxSpecs /\ conn \in 0..MaxSpecs
  /\ loadSpec \in 0..MaxSpecs
  /\ conns \in [LoadSpecs -> {"none", "up", "down", "closed"}]
  /\ gor \in [LoadSpecs -> [Kinds -> {"off", "on", "busy", "ended"}]]
  /\ statsSpec \in 0..MaxSpecs
  /\ misfiled \subseteq Recorders \X LoadSpecs
  /\ streams \subseteq LoadSpecs /\ unwaited \subseteq LoadSpecs
  /\ undeleted \subseteq LoadSpecs /\ forgotten \subseteq LoadSpecs
  /\ storage \in {"open", "closed"} /\ late \subseteq LoadSpecs

Init ==
  /\ env \in Environments
  /\ pc = "connect" /\ spec = 1 /\ onward = "next"
  /\ cfgDone = FALSE /\ ctxDone = {}
  /\ group = 0 /\ conn = 0 /\ loadSpec = 0
  /\ conns = [s \in LoadSpecs |-> "none"]
  /\ gor = [s \in LoadSpecs |-> [k \in Kinds |-> "off"]]
  /\ statsSpec = 0 /\ streams = {} /\ storage = "open"
  /\ misfiled = {} /\ late = {}
  /\ unwaited = {} /\ undeleted = {} /\ forgotten = {}

Done(s) == cfgDone \/ s \in ctxDone

Alive(s, k) == gor[s][k] \in {"on", "busy"}

Start(k) == gor' = [gor EXCEPT ![spec][k] = "on"]

\* The manager cancels the configuration.
CancelConfig ==
  /\ ~cfgDone
  /\ cfgDone' = TRUE
  /\ UNCHANGED <<pc, spec, onward, ctxDone, engine, conns, gor, statsSpec,
                 misfiled, left, store>>

\* A connection is lost and, later, restored.
NetworkChanges(s) ==
  /\ env.drops
  /\ conns[s] \in {"up", "down"}
  /\ conns' = [conns EXCEPT ![s] = IF @ = "up" THEN "down" ELSE "up"]
  /\ UNCHANGED <<pc, spec, onward, cfgDone, ctxDone, engine, gor, statsSpec,
                 misfiled, left, store>>

-----------------------------------------------------------------------------
(* Engine.Start.                                                           *)

\* processLoadTestSpec returns: its deferred cancel runs, the next spec's turn.
NextSpec ==
  /\ ctxDone' = ctxDone \cup {spec}
  /\ spec' = spec + 1
  /\ pc' = "connect"

\* Mutant of SpecLeft: the loop over the specs runs once too often.
SpecLeftOffByOne == spec <= env.specs + 1

SpecLeft == spec <= env.specs

\* RetryOnFailedConnect: without a server the connection starts reconnecting.
Connect ==
  /\ pc = "connect"
  /\ SpecLeft
  /\ conn' = spec
  /\ \E c \in IF env.drops THEN {"up", "down"} ELSE {"up"} :
       conns' = [conns EXCEPT ![spec] = c]
  /\ pc' = "setConfig"
  /\ UNCHANGED <<spec, onward, cfgDone, ctxDone, group, loadSpec, gor,
                 statsSpec, misfiled, left, store>>

\* WriteFailure files the error under the spec the collector is at, which is
\* still the one before; it drops the error when there is none.
ConnectFails ==
  /\ pc = "connect"
  /\ SpecLeft
  /\ misfiled' = IF statsSpec = 0 THEN misfiled
                                   ELSE misfiled \cup {<<"failure", spec>>}
  /\ NextSpec
  /\ UNCHANGED <<onward, cfgDone, engine, conns, gor, statsSpec, left,
                 store>>

\* All specs are through: the worker's deferred tear-down.
SpecsOver ==
  /\ pc = "connect"
  /\ spec = env.specs + 1
  /\ pc' = "stop" /\ onward' = "close"
  /\ UNCHANGED <<spec, cfgDone, ctxDone, engine, conns, gor, statsSpec,
                 misfiled, left, store>>

SetConfig ==
  /\ pc = "setConfig"
  /\ loadSpec' = spec /\ statsSpec' = spec
  /\ pc' = "group"
  /\ UNCHANGED <<spec, onward, cfgDone, ctxDone, group, conn, conns, gor,
                 misfiled, left, store>>

\* A new errgroup replaces the old one; the collector's loop is its first.
NewGroup ==
  /\ pc = "group"
  /\ group' = spec
  /\ Start("collector")
  /\ pc' = "streams"
  /\ UNCHANGED <<spec, onward, cfgDone, ctxDone, conn, conns, loadSpec,
                 statsSpec, misfiled, left, store>>

SetupStreams ==
  /\ pc = "streams"
  /\ IF env.jetStream
       THEN /\ ~Done(spec)
            /\ conns[spec] = "up"
            /\ streams' = streams \cup {spec}
       ELSE UNCHANGED streams
  /\ pc' = "publishers"
  /\ UNCHANGED <<unwaited, undeleted, forgotten, spec, onward, cfgDone, ctxDone,
                 engine, conns, gor, statsSpec, misfiled, store>>

\* Mutant of SetupStreamsFails: the error path returns without cleanup.
SetupStreamsFailsDirty ==
  /\ pc = "streams"
  /\ env.jetStream
  /\ \E made \in SUBSET {spec} : streams' = streams \cup made
  /\ unwaited' = unwaited \cup {spec}
  /\ NextSpec
  /\ UNCHANGED <<undeleted, forgotten, onward, cfgDone, engine, conns, gor,
                 statsSpec, misfiled, store>>

\* Some of the streams may have been created.
SetupStreamsFails ==
  /\ pc = "streams"
  /\ env.jetStream
  /\ \E made \in SUBSET {spec} : streams' = streams \cup made
  /\ unwaited' = unwaited \cup {spec}
  /\ pc' = "cleanup" /\ onward' = "next"
  /\ UNCHANGED <<undeleted, forgotten, spec, cfgDone, ctxDone, engine, conns,
                 gor, statsSpec, misfiled, store>>

CreatePublishers ==
  /\ pc = "publishers"
  /\ IF env.publishing THEN Start("publisher") ELSE UNCHANGED gor
  /\ pc' = "consumers"
  /\ UNCHANGED <<spec, onward, cfgDone, ctxDone, engine, conns, statsSpec,
                 misfiled, left, store>>

CreateConsumers ==
  /\ pc = "consumers"
  /\ IF env.consuming
       THEN /\ ~Done(spec)
            /\ env.jetStream => conns[spec] = "up"
            /\ gor' = [gor EXCEPT ![spec]["consumer"] = "on",
                                  ![spec]["cleaner"] = "on"]
       ELSE UNCHANGED gor
  /\ pc' = "ramp"
  /\ UNCHANGED <<spec, onward, cfgDone, ctxDone, engine, conns, statsSpec,
                 misfiled, left, store>>

\* Some of the consumers may have started; the publishers run.
CreateConsumersFails ==
  /\ pc = "consumers"
  /\ env.consuming
  /\ \E st \in {"off", "on"} :
       gor' = [gor EXCEPT ![spec]["consumer"] = st, ![spec]["cleaner"] = st]
  /\ unwaited' = unwaited \cup {spec}
  /\ pc' = "cleanup" /\ onward' = "next"
  /\ UNCHANGED <<undeleted, forgotten, spec, cfgDone, ctxDone, engine, conns,
                 statsSpec, misfiled, streams, store>>

StartRamp ==
  /\ pc = "ramp"
  /\ Start("ramp")
  /\ pc' = "running"
  /\ UNCHANGED <<spec, onward, cfgDone, ctxDone, engine, conns, statsSpec,
                 misfiled, left, store>>

-----------------------------------------------------------------------------
(* The worker's select, Engine.Stop and cleanup.                           *)

TimerFires ==
  /\ pc = "running"
  /\ pc' = "stop" /\ onward' = "next"
  /\ UNCHANGED <<spec, cfgDone, ctxDone, engine, conns, gor, statsSpec,
                 misfiled, left, store>>

\* The configuration is cancelled: straight to the worker's deferred Stop.
CtxDone ==
  /\ pc = "running"
  /\ cfgDone
  /\ pc' = "stop" /\ onward' = "close"
  /\ UNCHANGED <<spec, cfgDone, ctxDone, engine, conns, gor, statsSpec,
                 misfiled, left, store>>

\* e.cancel belongs to the context of the current group.
EngineCancel == ctxDone' = IF group = 0 THEN ctxDone ELSE ctxDone \cup {group}

\* Mutant of StopCancels: Stop waits without cancelling.
StopForgetsCancel ==
  /\ pc = "stop"
  /\ pc' = "wait"
  /\ UNCHANGED <<spec, onward, cfgDone, ctxDone, engine, conns, gor, statsSpec,
                 misfiled, left, store>>

StopCancels ==
  /\ pc = "stop"
  /\ EngineCancel
  /\ pc' = "wait"
  /\ UNCHANGED <<spec, onward, cfgDone, engine, conns, gor, statsSpec, misfiled,
                 left, store>>

\* Mutant of GroupWaited: Stop does not wait for the errgroup.
GroupNotWaited == TRUE

\* errGroup.Wait() returns.
GroupWaited == group # 0 => \A k \in GroupKinds : ~Alive(group, k)

StopWaits ==
  /\ pc = "wait"
  /\ GroupWaited
  /\ pc' = "cleanup"
  /\ UNCHANGED <<spec, onward, cfgDone, ctxDone, engine, conns, gor, statsSpec,
                 misfiled, left, store>>

\* Cancel, drain the consumers' subscriptions, delete the spec's streams.  A
\* deletion that is refused or times out, as over a lost connection, is logged.
Cleanup ==
  /\ pc = "cleanup"
  /\ EngineCancel
  /\ \E failed \in SUBSET (streams \cap {loadSpec}) :
       /\ streams' = IF env.jetStream THEN (streams \ {loadSpec}) \cup failed
                                      ELSE streams
       /\ undeleted' = undeleted \cup failed
  /\ pc' = "closeConn"
  /\ UNCHANGED <<unwaited, forgotten, spec, onward, cfgDone, engine, conns, gor,
                 statsSpec, misfiled, store>>

\* Mutant of ReleaseConn: the connection is forgotten without Close.
ForgetConn == UNCHANGED <<conns, forgotten>>

\* Only a connection that is up is closed; one that is reconnecting goes on.
ReleaseConn ==
  \/ /\ conn # 0 /\ conns[conn] = "up"
     /\ conns' = [conns EXCEPT ![conn] = "closed"]
     /\ UNCHANGED forgotten
  \/ /\ conn # 0 /\ conns[conn] # "up"
     /\ forgotten' = forgotten \cup {conn}
     /\ UNCHANGED conns
  \/ /\ conn = 0
     /\ UNCHANGED <<conns, forgotten>>

CloseConn ==
  /\ pc = "closeConn"
  /\ ReleaseConn
  /\ conn' = 0 /\ loadSpec' = 0
  /\ IF onward = "next"
       THEN ctxDone' = ctxDone \cup {spec} /\ spec' = spec + 1 /\ pc' = "connect"
       ELSE pc' = "closeStorage" /\ UNCHANGED <<ctxDone, spec>>
  /\ UNCHANGED <<streams, unwaited, undeleted, onward, cfgDone, group, gor,
                 statsSpec, misfiled, store>>

CloseStorage ==
  /\ pc = "closeStorage"
  /\ storage' = "closed"
  /\ pc' = "end"
  /\ UNCHANGED <<spec, onward, cfgDone, ctxDone, engine, conns, gor, statsSpec,
                 misfiled, late, left>>

WorkerStep ==
  \/ Connect \/ ConnectFails \/ SpecsOver \/ SetConfig \/ NewGroup
  \/ SetupStreams \/ SetupStreamsFails \/ CreatePublishers
  \/ CreateConsumers \/ CreateConsumersFails \/ StartRamp \/ TimerFires
  \/ CtxDone \/ StopCancels \/ StopWaits \/ Cleanup \/ CloseConn
  \/ CloseStorage

-----------------------------------------------------------------------------
(* The goroutines of spec s.                                               *)

unchangedByGoroutines == <<pc, spec, onward, cfgDone, ctxDone, engine, conns,
                           statsSpec, left, storage>>

Set(s, k, st) == gor' = [gor EXCEPT ![s][k] = st]

\* What s's goroutine records goes to whatever spec the collector is at.
FileUnder(s, k) ==
  misfiled' = IF statsSpec = s THEN misfiled ELSE misfiled \cup {<<k, s>>}

\* CollectStats writes an entry filed under the collector's current spec.
WriteStats(s) ==
  /\ FileUnder(s, "collector")
  /\ late' = IF storage = "closed" THEN late \cup {s} ELSE late

\* The collector's loop: at its ticker, and a last time when it ends.
Collect(s) ==
  /\ gor[s]["collector"] = "on"
  /\ WriteStats(s)
  /\ gor' = IF Done(s) THEN [gor EXCEPT ![s]["collector"] = "ended"] ELSE gor
  /\ UNCHANGED unchangedByGoroutines

\* A publisher sends over its spec's connection (a reconnecting one buffers)
\* and counts the message afterwards.
Send(s) ==
  /\ gor[s]["publisher"] = "on"
  /\ conns[s] \in {"up", "down"}
  /\ Set(s, "publisher", "busy")
  /\ UNCHANGED <<unchangedByGoroutines, misfiled, late>>

\* A consumer fetches, or is called with, a message; its delay may be long.
Fetch(s) ==
  /\ gor[s]["consumer"] = "on"
  /\ conns[s] = "up"
  /\ Set(s, "consumer", "busy")
  /\ UNCHANGED <<unchangedByGoroutines, misfiled, late>>

\* RecordPublish and RecordConsume.  What consumers count is not followed: they
\* are in no errgroup, and nobody waits for them.
Record(s, k) ==
  /\ gor[s][k] = "busy"
  /\ IF k = "publisher" THEN FileUnder(s, k) ELSE UNCHANGED misfiled
  /\ Set(s, k, "on")
  /\ UNCHANGED <<unchangedByGoroutines, late>>

\* Mutant of End: a pull consumer's loop has no ctx.Done() case.
EndUnlessConsumer(s, k) ==
  /\ gor[s][k] = "on"
  /\ k \notin {"collector", "consumer"}
  /\ Done(s) \/ k = "ramp"
  /\ Set(s, k, "ended")
  /\ UNCHANGED <<unchangedByGoroutines, misfiled, late>>

\* The other goroutines end with the context; publishers and consumers see
\* it between two messages.  A ramp-up may also just be complete.
End(s, k) ==
  /\ gor[s][k] = "on"
  /\ k # "collector"
  /\ Done(s) \/ k = "ramp"
  /\ Set(s, k, "ended")
  /\ UNCHANGED <<unchangedByGoroutines, misfiled, late>>

\* A publisher that finds a rate below 1 before its loop, which a repeated spec
\* may have, returns an error: the errgroup cancels the spec's context.
PublisherFails(s) ==
  /\ s # 1
  /\ gor[s]["publisher"] = "on"
  /\ Set(s, "publisher", "ended")
  /\ ctxDone' = ctxDone \cup {s}
  /\ UNCHANGED <<pc, spec, onward, cfgDone, engine, conns, statsSpec, misfiled,
                 left, store>>

Goroutine(s, k) ==
  \/ k = "collector" /\ Collect(s)
  \/ k = "publisher" /\ Send(s)
  \/ k = "consumer" /\ Fetch(s)
  \/ k \in {"publisher", "consumer"} /\ Record(s, k)
  \/ End(s, k)

-----------------------------------------------------------------------------
Next ==
  /\ UNCHANGED env
  /\ \/ CancelConfig
     \/ WorkerStep
     \/ \E s \in LoadSpecs :
          \/ NetworkChanges(s) \/ PublisherFails(s)
          \/ \E k \in Kinds : Goroutine(s, k)

Spec == Init /\ [][Next]_vars

(* Goroutines that can run do run, and one whose select finds its context   *)
(* done again and again ends.  Stated for all of them together, which asks  *)
(* for less than the scheduler gives: only finitely many can end.           *)
Recorded == \E s \in LoadSpecs, k \in Kinds : Record(s, k)
Ended == \E s \in LoadSpecs : \/ Done(s) /\ Collect(s)
                             \/ \E k \in Kinds : End(s, k)

Fairness ==
  /\ WF_vars(WorkerStep /\ UNCHANGED env)
  /\ WF_vars(Recorded /\ UNCHANGED env)
  /\ SF_vars(Ended /\ UNCHANGED env)

FairSpec == Spec /\ Fairness

-----------------------------------------------------------------------------
(* Properties.                                                             *)

\* "Sequential load test configurations": while the worker is at one spec no
\* errgroup goroutine of another one is alive.
SpecsAreSequential ==
  \A s \in LoadSpecs \ {spec}, k \in GroupKinds : ~Alive(s, k)

\* Only a start that failed half-way leaves its errgroup behind: goroutines of
\* every other spec have ended before the worker goes on.
OnlyFailedStartsOverlap ==
  \A s \in LoadSpecs \ {spec}, k \in GroupKinds :
    Alive(s, k) => s \in unwaited

\* No statistics are written to a storage that was closed: the tear-down waits
\* for the last CollectStats of every spec, but for those whose own start failed
\* half-way.
NoLateWrite == late \subseteq unwaited

\* What a spec's publishers and collector record is filed under that spec,
\* although the collector's counters and its spec are shared by all of them,
\* unless that spec's own start failed half-way.
StatsAreOwn ==
  \A k \in {"collector", "publisher"}, s \in LoadSpecs :
    <<k, s>> \in misfiled => s \in unwaited

\* When the configuration is over, whatever failed on the way and wherever it
\* was cancelled, the only streams left are those whose deletion failed, and
\* the only connections left open those that were down when cleanup looked.
NothingIsLeft ==
  pc = "end" =>
    /\ streams \subseteq undeleted
    /\ \A s \in LoadSpecs : conns[s] \in {"up", "down"} => s \in forgotten

\* A configuration comes to its end, cancelled or not: Stop cancels what it
\* waits for, so its errGroup.Wait always returns.
ConfigurationEnds == <>(pc = "end")

\* No goroutine outlives the configuration for good, not even those that are
\* in no errgroup or in one that a failed Start left unwaited.
NoGoroutineLeak == <>[](\A s \in LoadSpecs, k \in Kinds : ~Alive(s, k))
=============================================================================
