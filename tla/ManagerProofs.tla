---------------------------- MODULE ManagerProofs ----------------------------
(***************************************************************************)
(* Proofs about Manager for every set of requests, every channel capacity  *)
(* and every choice of repeating or stream-creating configurations: its    *)
(* safety invariants, from one inductive invariant, and that it implements *)
(* HotReload.                                                              *)
(***************************************************************************)
EXTENDS Manager, TLAPS

-----------------------------------------------------------------------------
(* The inductive invariant, in named parts.                                *)

\* Control points of a worker at which its storage is open ...
Holding == {"start", "running", "stopEngine", "repeat", "clearCollector",
            "clearConfig", "finalStop", "close"}
\* ... its engine may be running ...
EngineUp == {"running", "stopEngine", "clearCollector", "clearConfig",
             "finalStop"}
\* ... and its collector is published.
Served == InSpecs \cup {"clearCollector"}

\* The mutex is held by the loop or by the one live worker.
MutexInv ==
  /\ mpc \in {"drain", "publish", "create", "spawn"}
       => mutex /\ \A g \in Requests : ~Live(g)
  /\ \A g \in Requests : Live(g) => mutex
  /\ \A g, h \in Requests : Live(g) /\ Live(h) => g = h

\* Nothing is queued before the default configuration.  In its critical
\* section the loop has a configuration, whose cancel function it keeps once
\* it is published.
LoopInv ==
  /\ proc = "boot" => chan = <<>>
  /\ mpc \in {"lock", "drain", "publish", "create", "spawn"} => mcfg \in Requests
  /\ mpc \in {"create", "spawn"} => last = mcfg /\ srvConfig = mcfg

\* A storage is open exactly from OpenStorage to the worker's CloseStorage.
StorageInv ==
  \A g \in Requests :
    g \in open <=> (mpc = "spawn" /\ mcfg = g) \/ wpc[g] \in Holding

EngineInv == \A g \in engine : wpc[g] \in EngineUp

\* The server's collector is the one of a worker that has not cleared it.
ServerInv ==
  /\ srvCollector # None => wpc[srvCollector] \in Served
  /\ \A g \in Requests :
       wpc[g] \in Served => srvCollector = g /\ srvConfig = g

\* The loop can cancel the live worker, or has.
CancelInv ==
  /\ \A g \in Requests : Live(g) => last = g \/ g \in cancelled
  /\ mpc = "lock" => last = None \/ last \in cancelled

IInv == /\ TypeOK /\ MutexInv /\ LoopInv /\ StorageInv /\ EngineInv
        /\ ServerInv /\ CancelInv
USE ConstantsAssumption

-----------------------------------------------------------------------------
(* IInv is inductive.                                                      *)

\* Nothing is queued, open or published when the program starts.
LEMMA InitIInv == Init => IInv
<1> SUFFICES ASSUME Init PROVE IInv
  OBVIOUS
<1>1. TypeOK
  <2>1. chan \in Seq(Requests) /\ Len(chan) <= ChanCap
    BY DEF Init
  <2>2. wspec \in [Requests -> Nat]
    BY DEF Init
  <2> QED
    BY <2>1, <2>2 DEF Init, TypeOK, HandlerSteps, LoopSteps, WorkerSteps
<1>2. \A g \in Requests : wpc[g] = "none"
  BY DEF Init
<1>3. MutexInv /\ LoopInv /\ CancelInv
  BY <1>2 DEF Init, MutexInv, LoopInv, CancelInv, Live
<1>4. StorageInv /\ EngineInv
  BY <1>2 DEF Init, StorageInv, EngineInv, Holding
<1>5. ServerInv
  BY <1>2 DEF Init, ServerInv, Served, InSpecs
<1> QED
  BY <1>1, <1>3, <1>4, <1>5 DEF IInv

\* Where processConfig goes after a spec.
LEMMA AfterSpecType ==
  ASSUME TypeOK, NEW g \in Requests, AfterSpec(g)
  PROVE  /\ wpc' = [wpc EXCEPT ![g] = wpc'[g]]
         /\ wpc'[g] \in {"start", "repeat", "clearCollector"}
         /\ wpc' \in [Requests -> WorkerSteps]
         /\ wspec' \in [Requests -> Nat]
<1>1. CASE wspec[g] < Specs[Body[g]]
  <2>1. /\ wpc' = [wpc EXCEPT ![g] = "start"]
        /\ wspec' = [wspec EXCEPT ![g] = @ + 1]
    BY <1>1 DEF AfterSpec, Goto
  <2>2. wspec' \in [Requests -> Nat]
    BY <2>1 DEF TypeOK
  <2>3. wpc' \in [Requests -> WorkerSteps] /\ wpc'[g] = "start"
    BY <2>1 DEF TypeOK, WorkerSteps
  <2> QED
    BY <2>1, <2>2, <2>3
<1>2. CASE ~(wspec[g] < Specs[Body[g]])
  <2>1. wspec' = wspec
    BY <1>2 DEF AfterSpec
  <2>2. CASE Body[g] \in Repeating
    <3>1. wpc' = [wpc EXCEPT ![g] = "repeat"]
      BY <1>2, <2>2 DEF AfterSpec, Goto
    <3> QED
      BY <2>1, <3>1 DEF TypeOK, WorkerSteps
  <2>3. CASE Body[g] \notin Repeating
    <3>1. wpc' = [wpc EXCEPT ![g] = "clearCollector"]
      BY <1>2, <2>3 DEF AfterSpec, Goto
    <3> QED
      BY <2>1, <3>1 DEF TypeOK, WorkerSteps
  <2> QED
    BY <2>2, <2>3
<1> QED
  BY <1>1, <1>2

\* Types are preserved; the open storage is the loop's configuration, hence
\* LoopInv.
LEMMA TypeStep == TypeOK /\ LoopInv /\ [Next]_vars => TypeOK'
<1> SUFFICES ASSUME TypeOK, LoopInv, [Next]_vars PROVE TypeOK'
  OBVIOUS
<1> USE DEF TypeOK, handler, loop, worker, server
<1>1. CASE NoDefaultConfig \/ Signal \/ Exit
  BY <1>1 DEF NoDefaultConfig, Signal, Exit
<1>2. ASSUME NEW r \in Requests, LoadDefaultConfig(r) \/ Handler(r)
      PROVE  TypeOK'
  <2>1. CASE LoadDefaultConfig(r)
    <3>1. chan = <<>> /\ chan' = <<r>>
      BY <2>1 DEF LoadDefaultConfig, LoopInv
    <3> QED
      BY <2>1, <3>1 DEF LoadDefaultConfig, HandlerSteps
  <2>2. CASE PostConfig(r)
    <3>1. UNCHANGED <<proc, chan, loop, mutex, cancelled, worker, open, server>>
      BY <2>2 DEF PostConfig
    <3>2. rpc' \in [Requests -> HandlerSteps]
      BY <2>2 DEF PostConfig, HandlerSteps
    <3>3. seen' \in [Requests -> Requests \cup {None}]
      BY <2>2 DEF PostConfig
    <3> QED
      BY <3>1, <3>2, <3>3
  <2>3. CASE Compare(r)
    BY <2>3 DEF Compare, HandlerSteps
  <2>4. CASE Enqueue(r)
    BY <2>4 DEF Enqueue, HasRoom, HandlerSteps
  <2>5. CASE Reject(r)
    BY <2>5 DEF Reject, HandlerSteps
  <2> QED
    BY <1>2, <2>1, <2>2, <2>3, <2>4, <2>5 DEF Handler
<1>3. CASE Loop
  <2>1. CASE StopLoop
    BY <2>1 DEF StopLoop, CancelLast, LoopSteps
  <2>2. CASE Receive
    <3>1. /\ chan # <<>> /\ chan' = Tail(chan) /\ mcfg' = Head(chan)
          /\ cancelled' = CancelLast /\ mpc' = "lock"
          /\ UNCHANGED <<proc, handler, last, mutex, worker, open, server>>
      BY <2>2 DEF Receive
    <3>2. /\ chan' \in Seq(Requests) /\ Len(chan') <= ChanCap
          /\ mcfg' \in Requests
      BY <3>1
    <3>3. cancelled' \subseteq Requests /\ mpc' \in LoopSteps
      BY <3>1 DEF CancelLast, LoopSteps
    <3> QED
      BY <3>1, <3>2, <3>3
  <2>3. CASE Lock
    <3>1. UNCHANGED <<proc, chan, handler, mcfg, last, cancelled, worker, open,
                      server>>
      BY <2>3 DEF Lock
    <3>2. mutex' \in BOOLEAN /\ mpc' \in LoopSteps
      BY <2>3 DEF Lock, LoopSteps
    <3> QED
      BY <3>1, <3>2
  <2>4. CASE DrainOne
    <3>1. /\ chan # <<>> /\ chan' = Tail(chan) /\ mcfg' = Head(chan)
          /\ UNCHANGED <<proc, handler, mpc, last, mutex, cancelled, worker,
                         open, server>>
      BY <2>4 DEF DrainOne
    <3>2. /\ chan' \in Seq(Requests) /\ Len(chan') <= ChanCap
          /\ mcfg' \in Requests
      BY <3>1
    <3> QED
      BY <3>1, <3>2
  <2>5. CASE DrainDone
    BY <2>5 DEF DrainDone, LoopSteps
  <2>6. CASE Publish
    BY <2>6 DEF Publish, LoopSteps
  <2>7. CASE OpenStorage
    BY <2>7 DEF OpenStorage, At, LoopInv, LoopSteps
  <2>8. CASE OpenFails
    BY <2>8 DEF OpenFails, At, LoopInv, LoopSteps
  <2>9. CASE Spawn
    BY <2>9 DEF Spawn, At, LoopInv, LoopSteps, WorkerSteps
  <2> QED
    BY <1>3, <2>1, <2>2, <2>3, <2>4, <2>5, <2>6, <2>7, <2>8, <2>9 DEF Loop
<1>4. ASSUME NEW g \in Requests, WorkerStep(g)
      PROVE  TypeOK'
  <2> USE DEF WorkerSteps, Goto
  <2>1. CASE StartOk(g)
    BY <2>1 DEF StartOk
  <2>2. CASE StartFails(g)
    BY <2>2, AfterSpecType DEF StartFails
  <2>3. CASE CtxDone(g) \/ TimerFires(g)
    BY <2>3 DEF CtxDone, TimerFires
  <2>4. CASE StopEngine(g)
    BY <2>4, AfterSpecType DEF StopEngine
  <2>5. CASE ApplyMultipliers(g)
    BY <2>5 DEF ApplyMultipliers
  <2>6. CASE ClearCollector(g) \/ ClearConfig(g)
    BY <2>6 DEF ClearCollector, ClearConfig
  <2>7. CASE FinalStop(g) \/ CloseStorage(g) \/ Unlock(g)
    BY <2>7 DEF FinalStop, CloseStorage, Unlock
  <2> QED
    BY <1>4, <2>1, <2>2, <2>3, <2>4, <2>5, <2>6, <2>7 DEF WorkerStep
<1>5. CASE UNCHANGED vars
  BY <1>5 DEF vars
<1> QED
  BY <1>1, <1>2, <1>3, <1>4, <1>5 DEF Next

\* Steps of main and of the handlers touch the process and the queue only.
Shared == <<loop, mutex, cancelled, worker, open, server>>

\* A step that leaves the loop, the mutex, the workers, the storages and the
\* server alone keeps every part of IInv that is about them.
LEMMA FrameStep ==
  ASSUME IInv, TypeOK', UNCHANGED Shared, proc' # "boot"
  PROVE  IInv'
  BY DEF IInv, MutexInv, LoopInv, StorageInv, EngineInv, ServerInv, CancelInv,
         Live, Shared, loop, worker, server

\* The parts of IInv besides the types.
Parts == /\ MutexInv /\ LoopInv /\ StorageInv /\ EngineInv
         /\ ServerInv /\ CancelInv

\* Each step of the loop keeps the parts of IInv: the mutex is taken before
\* and handed to the worker after the new configuration is published.
LEMMA LoopStep ==
  ASSUME IInv, TypeOK', Loop
  PROVE  Parts'
<1> USE DEF IInv, Parts, TypeOK, At, Running, handler, loop, worker, server
<1>1. CASE StopLoop
  <2> USE <1>1 DEF StopLoop
  <2>1. MutexInv'
    BY DEF LoopInv, MutexInv, Live
  <2>2. LoopInv'
    BY DEF LoopInv
  <2>3. StorageInv'
    BY DEF MutexInv, LoopInv, Live, StorageInv, Holding
  <2>4. EngineInv'
    BY DEF MutexInv, LoopInv, Live, EngineInv, EngineUp
  <2>5. ServerInv'
    BY DEF MutexInv, LoopInv, Live, ServerInv, Served, InSpecs
  <2>6. CancelInv'
    BY DEF MutexInv, LoopInv, CancelInv, Live, CancelLast
  <2> QED
    BY <2>1, <2>2, <2>3, <2>4, <2>5, <2>6
<1>2. CASE Receive
  <2> USE <1>2 DEF Receive
  <2>1. MutexInv'
    BY DEF LoopInv, MutexInv, Live
  <2>2. LoopInv'
    BY DEF LoopInv
  <2>3. StorageInv'
    BY DEF MutexInv, LoopInv, Live, StorageInv, Holding
  <2>4. EngineInv'
    BY DEF MutexInv, LoopInv, Live, EngineInv, EngineUp
  <2>5. ServerInv'
    BY DEF MutexInv, LoopInv, Live, ServerInv, Served, InSpecs
  <2>6. CancelInv'
    BY DEF MutexInv, LoopInv, CancelInv, Live, CancelLast
  <2> QED
    BY <2>1, <2>2, <2>3, <2>4, <2>5, <2>6
<1>3. CASE Lock
  <2> USE <1>3 DEF Lock
  <2>1. MutexInv'
    BY DEF LoopInv, MutexInv, Live
  <2>2. LoopInv'
    BY DEF LoopInv
  <2>3. StorageInv'
    BY DEF MutexInv, LoopInv, Live, StorageInv, Holding
  <2>4. EngineInv'
    BY DEF MutexInv, LoopInv, Live, EngineInv, EngineUp
  <2>5. ServerInv'
    BY DEF MutexInv, LoopInv, Live, ServerInv, Served, InSpecs
  <2>6. CancelInv'
    BY DEF MutexInv, LoopInv, CancelInv, Live, CancelLast
  <2> QED
    BY <2>1, <2>2, <2>3, <2>4, <2>5, <2>6
<1>4. CASE DrainOne
  <2> USE <1>4 DEF DrainOne
  <2>1. MutexInv'
    BY DEF LoopInv, MutexInv, Live
  <2>2. LoopInv'
    BY DEF LoopInv
  <2>3. StorageInv'
    BY DEF MutexInv, LoopInv, Live, StorageInv, Holding
  <2>4. EngineInv'
    BY DEF MutexInv, LoopInv, Live, EngineInv, EngineUp
  <2>5. ServerInv'
    BY DEF MutexInv, LoopInv, Live, ServerInv, Served, InSpecs
  <2>6. CancelInv'
    BY DEF MutexInv, LoopInv, CancelInv, Live, CancelLast
  <2> QED
    BY <2>1, <2>2, <2>3, <2>4, <2>5, <2>6
<1>5. CASE DrainDone
  <2> USE <1>5 DEF DrainDone
  <2>1. MutexInv'
    BY DEF LoopInv, MutexInv, Live
  <2>2. LoopInv'
    BY DEF LoopInv
  <2>3. StorageInv'
    BY DEF MutexInv, LoopInv, Live, StorageInv, Holding
  <2>4. EngineInv'
    BY DEF MutexInv, LoopInv, Live, EngineInv, EngineUp
  <2>5. ServerInv'
    BY DEF MutexInv, LoopInv, Live, ServerInv, Served, InSpecs
  <2>6. CancelInv'
    BY DEF MutexInv, LoopInv, CancelInv, Live, CancelLast
  <2> QED
    BY <2>1, <2>2, <2>3, <2>4, <2>5, <2>6
<1>6. CASE Publish
  <2> USE <1>6 DEF Publish
  <2>1. MutexInv'
    BY DEF LoopInv, MutexInv, Live
  <2>2. LoopInv'
    BY DEF LoopInv
  <2>3. StorageInv'
    BY DEF MutexInv, LoopInv, Live, StorageInv, Holding
  <2>4. EngineInv'
    BY DEF MutexInv, LoopInv, Live, EngineInv, EngineUp
  <2>5. ServerInv'
    BY DEF MutexInv, LoopInv, Live, ServerInv, Served, InSpecs
  <2>6. CancelInv'
    BY DEF MutexInv, LoopInv, CancelInv, Live, CancelLast
  <2> QED
    BY <2>1, <2>2, <2>3, <2>4, <2>5, <2>6
<1>7. CASE OpenStorage
  <2> USE <1>7 DEF OpenStorage
  <2>1. MutexInv'
    BY DEF LoopInv, MutexInv, Live
  <2>2. LoopInv'
    BY DEF LoopInv
  <2>3. StorageInv'
    BY DEF MutexInv, LoopInv, Live, StorageInv, Holding
  <2>4. EngineInv'
    BY DEF MutexInv, LoopInv, Live, EngineInv, EngineUp
  <2>5. ServerInv'
    BY DEF MutexInv, LoopInv, Live, ServerInv, Served, InSpecs
  <2>6. CancelInv'
    BY DEF MutexInv, LoopInv, CancelInv, Live, CancelLast
  <2> QED
    BY <2>1, <2>2, <2>3, <2>4, <2>5, <2>6
<1>8. CASE OpenFails
  <2> USE <1>8 DEF OpenFails
  <2>1. MutexInv'
    BY DEF LoopInv, MutexInv, Live
  <2>2. LoopInv'
    BY DEF LoopInv
  <2>3. StorageInv'
    BY DEF MutexInv, LoopInv, Live, StorageInv, Holding
  <2>4. EngineInv'
    BY DEF MutexInv, LoopInv, Live, EngineInv, EngineUp
  <2>5. ServerInv'
    BY DEF MutexInv, LoopInv, Live, ServerInv, Served, InSpecs
  <2>6. CancelInv'
    BY DEF MutexInv, LoopInv, CancelInv, Live, CancelLast
  <2> QED
    BY <2>1, <2>2, <2>3, <2>4, <2>5, <2>6
<1>9. CASE Spawn
  <2> USE <1>9 DEF Spawn
  <2>1. MutexInv'
    BY DEF LoopInv, MutexInv, Live
  <2>2. LoopInv'
    BY DEF LoopInv
  <2>3. StorageInv'
    BY DEF MutexInv, LoopInv, Live, StorageInv, Holding
  <2>4. EngineInv'
    BY DEF MutexInv, LoopInv, Live, EngineInv, EngineUp
  <2>5. ServerInv'
    BY DEF MutexInv, LoopInv, Live, ServerInv, Served, InSpecs
  <2>6. CancelInv'
    BY DEF MutexInv, LoopInv, CancelInv, Live, CancelLast
  <2> QED
    BY <2>1, <2>2, <2>3, <2>4, <2>5, <2>6
<1> QED
  BY <1>1, <1>2, <1>3, <1>4, <1>5, <1>6, <1>7, <1>8, <1>9 DEF Loop

\* A step that leaves the loop, the mutex and the set of live workers alone
\* keeps the mutex with whoever holds it.
LEMMA MutexFrame ==
  ASSUME MutexInv, UNCHANGED <<mpc, mutex>>,
         \A g \in Requests : Live(g)' <=> Live(g)
  PROVE  MutexInv'
  BY DEF MutexInv

\* Each step of a worker keeps the parts of IInv: the one live worker holds
\* the mutex, so nobody else writes what it tears down.
LEMMA WorkerStepParts ==
  ASSUME IInv, TypeOK', NEW w \in Requests, WorkerStep(w)
  PROVE  Parts'
<1> USE DEF IInv, Parts, TypeOK, Worker, Goto, handler, loop, worker, server
<1>1. CASE StartOk(w)
  <2> USE <1>1 DEF StartOk
  <2>1. MutexInv'
    BY DEF MutexInv, Live, LoopInv
  <2>2. LoopInv'
    BY DEF LoopInv, MutexInv, Live
  <2>3. StorageInv'
    BY DEF StorageInv, Holding, MutexInv, Live
  <2>4. EngineInv'
    BY DEF EngineInv, EngineUp
  <2>5. ServerInv'
    BY DEF ServerInv, Served, InSpecs, MutexInv, Live
  <2>6. CancelInv'
    BY DEF CancelInv, Live
  <2> QED
    BY <2>1, <2>2, <2>3, <2>4, <2>5, <2>6
<1>2. CASE StartFails(w)
  <2>0. /\ wpc' = [wpc EXCEPT ![w] = wpc'[w]]
        /\ wpc'[w] \in {"start", "repeat", "clearCollector"}
    BY <1>2, AfterSpecType DEF StartFails
  <2> USE <1>2, <2>0 DEF StartFails
  <2>1. MutexInv'
    <3>1. \A g \in Requests : Live(g)' <=> Live(g)
      <4>1. Live(w) /\ Live(w)'
        BY DEF Live
      <4>2. \A g \in Requests : g # w => wpc'[g] = wpc[g]
        BY <2>0
      <4> QED
        BY <4>1, <4>2 DEF Live
    <3>2. MutexInv /\ UNCHANGED <<mpc, mutex>>
      OBVIOUS
    <3> QED
      BY <3>1, <3>2, MutexFrame
  <2>2. LoopInv'
    BY DEF LoopInv, MutexInv, Live
  <2>3. StorageInv'
    <3>1. \A g \in Requests : wpc'[g] \in Holding <=> wpc[g] \in Holding
      BY DEF Holding
    <3> QED
      BY <3>1 DEF StorageInv
  <2>4. EngineInv'
    BY DEF EngineInv, EngineUp
  <2>5. ServerInv'
    BY DEF ServerInv, Served, InSpecs, MutexInv, Live
  <2>6. CancelInv'
    BY DEF CancelInv, Live
  <2> QED
    BY <2>1, <2>2, <2>3, <2>4, <2>5, <2>6
<1>3. CASE CtxDone(w)
  <2> USE <1>3 DEF CtxDone
  <2>1. MutexInv'
    BY DEF MutexInv, Live, LoopInv
  <2>2. LoopInv'
    BY DEF LoopInv, MutexInv, Live
  <2>3. StorageInv'
    BY DEF StorageInv, Holding, MutexInv, Live
  <2>4. EngineInv'
    BY DEF EngineInv, EngineUp
  <2>5. ServerInv'
    BY DEF ServerInv, Served, InSpecs, MutexInv, Live
  <2>6. CancelInv'
    BY DEF CancelInv, Live
  <2> QED
    BY <2>1, <2>2, <2>3, <2>4, <2>5, <2>6
<1>4. CASE TimerFires(w)
  <2> USE <1>4 DEF TimerFires
  <2>1. MutexInv'
    BY DEF MutexInv, Live, LoopInv
  <2>2. LoopInv'
    BY DEF LoopInv, MutexInv, Live
  <2>3. StorageInv'
    BY DEF StorageInv, Holding, MutexInv, Live
  <2>4. EngineInv'
    BY DEF EngineInv, EngineUp
  <2>5. ServerInv'
    BY DEF ServerInv, Served, InSpecs, MutexInv, Live
  <2>6. CancelInv'
    BY DEF CancelInv, Live
  <2> QED
    BY <2>1, <2>2, <2>3, <2>4, <2>5, <2>6
<1>5. CASE StopEngine(w)
  <2>0. /\ wpc' = [wpc EXCEPT ![w] = wpc'[w]]
        /\ wpc'[w] \in {"start", "repeat", "clearCollector"}
    BY <1>5, AfterSpecType DEF StopEngine
  <2> USE <1>5, <2>0 DEF StopEngine
  <2>1. MutexInv'
    <3>1. \A g \in Requests : Live(g)' <=> Live(g)
      <4>1. Live(w) /\ Live(w)'
        BY DEF Live
      <4>2. \A g \in Requests : g # w => wpc'[g] = wpc[g]
        BY <2>0
      <4> QED
        BY <4>1, <4>2 DEF Live
    <3>2. MutexInv /\ UNCHANGED <<mpc, mutex>>
      OBVIOUS
    <3> QED
      BY <3>1, <3>2, MutexFrame
  <2>2. LoopInv'
    BY DEF LoopInv, MutexInv, Live
  <2>3. StorageInv'
    <3>1. \A g \in Requests : wpc'[g] \in Holding <=> wpc[g] \in Holding
      BY DEF Holding
    <3> QED
      BY <3>1 DEF StorageInv
  <2>4. EngineInv'
    BY DEF EngineInv, EngineUp
  <2>5. ServerInv'
    BY DEF ServerInv, Served, InSpecs, MutexInv, Live
  <2>6. CancelInv'
    BY DEF CancelInv, Live
  <2> QED
    BY <2>1, <2>2, <2>3, <2>4, <2>5, <2>6
<1>6. CASE ApplyMultipliers(w)
  <2> USE <1>6 DEF ApplyMultipliers
  <2>1. MutexInv'
    BY DEF MutexInv, Live, LoopInv
  <2>2. LoopInv'
    BY DEF LoopInv, MutexInv, Live
  <2>3. StorageInv'
    BY DEF StorageInv, Holding, MutexInv, Live
  <2>4. EngineInv'
    BY DEF EngineInv, EngineUp
  <2>5. ServerInv'
    BY DEF ServerInv, Served, InSpecs, MutexInv, Live
  <2>6. CancelInv'
    BY DEF CancelInv, Live
  <2> QED
    BY <2>1, <2>2, <2>3, <2>4, <2>5, <2>6
<1>7. CASE ClearCollector(w)
  <2> USE <1>7 DEF ClearCollector
  <2>1. MutexInv'
    BY DEF MutexInv, Live, LoopInv
  <2>2. LoopInv'
    BY DEF LoopInv, MutexInv, Live
  <2>3. StorageInv'
    BY DEF StorageInv, Holding, MutexInv, Live
  <2>4. EngineInv'
    BY DEF EngineInv, EngineUp
  <2>5. ServerInv'
    BY DEF ServerInv, Served, InSpecs, MutexInv, Live
  <2>6. CancelInv'
    BY DEF CancelInv, Live
  <2> QED
    BY <2>1, <2>2, <2>3, <2>4, <2>5, <2>6
<1>8. CASE ClearConfig(w)
  <2> USE <1>8 DEF ClearConfig
  <2>1. MutexInv'
    BY DEF MutexInv, Live, LoopInv
  <2>2. LoopInv'
    BY DEF LoopInv, MutexInv, Live
  <2>3. StorageInv'
    BY DEF StorageInv, Holding, MutexInv, Live
  <2>4. EngineInv'
    BY DEF EngineInv, EngineUp
  <2>5. ServerInv'
    BY DEF ServerInv, Served, InSpecs, MutexInv, Live
  <2>6. CancelInv'
    BY DEF CancelInv, Live
  <2> QED
    BY <2>1, <2>2, <2>3, <2>4, <2>5, <2>6
<1>9. CASE FinalStop(w)
  <2> USE <1>9 DEF FinalStop
  <2>1. MutexInv'
    BY DEF MutexInv, Live, LoopInv
  <2>2. LoopInv'
    BY DEF LoopInv, MutexInv, Live
  <2>3. StorageInv'
    BY DEF StorageInv, Holding, MutexInv, Live
  <2>4. EngineInv'
    BY DEF EngineInv, EngineUp
  <2>5. ServerInv'
    BY DEF ServerInv, Served, InSpecs, MutexInv, Live
  <2>6. CancelInv'
    BY DEF CancelInv, Live
  <2> QED
    BY <2>1, <2>2, <2>3, <2>4, <2>5, <2>6
<1>10. CASE CloseStorage(w)
  <2> USE <1>10 DEF CloseStorage
  <2>1. MutexInv'
    BY DEF MutexInv, Live, LoopInv
  <2>2. LoopInv'
    BY DEF LoopInv, MutexInv, Live
  <2>3. StorageInv'
    <3>1. /\ open' = open \ {w} /\ wpc' = [wpc EXCEPT ![w] = "unlock"]
          /\ UNCHANGED <<mpc, mcfg>> /\ wpc[w] = "close"
      BY DEF Goto, Worker, loop
    <3>2. DOMAIN wpc = Requests
      OBVIOUS
    <3>3. ~(mpc = "spawn" /\ mcfg = w)
      BY <3>1 DEF MutexInv, Live
    <3>4. ASSUME NEW g \in Requests, g # w
          PROVE  /\ g \in open' <=> g \in open
                 /\ wpc'[g] = wpc[g]
      BY <3>1, <3>2, <3>4
    <3>5. w \notin open' /\ wpc'[w] \notin Holding
      BY <3>1, <3>2 DEF Holding
    <3> QED
      BY <3>1, <3>3, <3>4, <3>5 DEF StorageInv
  <2>4. EngineInv'
    BY DEF EngineInv, EngineUp
  <2>5. ServerInv'
    BY DEF ServerInv, Served, InSpecs, MutexInv, Live
  <2>6. CancelInv'
    BY DEF CancelInv, Live
  <2> QED
    BY <2>1, <2>2, <2>3, <2>4, <2>5, <2>6
<1>11. CASE Unlock(w)
  <2> USE <1>11 DEF Unlock
  <2>1. MutexInv'
    <3>1. \A g \in Requests : ~Live(g)'
      <4>1. \A g \in Requests : g # w => ~Live(g) /\ wpc'[g] = wpc[g]
        BY DEF MutexInv, Live
      <4> QED
        BY <4>1 DEF Live
    <3>2. mpc \notin {"drain", "publish", "create", "spawn"}
      BY DEF MutexInv, Live
    <3> QED
      BY <3>1, <3>2 DEF MutexInv
  <2>2. LoopInv'
    BY DEF LoopInv, MutexInv, Live
  <2>3. StorageInv'
    BY DEF StorageInv, Holding, MutexInv, Live
  <2>4. EngineInv'
    BY DEF EngineInv, EngineUp
  <2>5. ServerInv'
    BY DEF ServerInv, Served, InSpecs, MutexInv, Live
  <2>6. CancelInv'
    BY DEF CancelInv, Live
  <2> QED
    BY <2>1, <2>2, <2>3, <2>4, <2>5, <2>6
<1> QED
  BY <1>1, <1>2, <1>3, <1>4, <1>5, <1>6, <1>7, <1>8, <1>9, <1>10, <1>11 DEF WorkerStep

\* Nothing returns to the boot state, so the queue's part of LoopInv holds.
LEMMA NextIInv == IInv /\ [Next]_vars => IInv'
<1> SUFFICES ASSUME IInv, [Next]_vars PROVE IInv'
  OBVIOUS
<1>1. TypeOK'
  BY TypeStep DEF IInv
<1>2. CASE NoDefaultConfig \/ Signal \/ Exit
  <2>1. UNCHANGED Shared /\ proc' # "boot"
    BY <1>2 DEF NoDefaultConfig, Signal, Exit, Shared, loop, worker, server
  <2> QED
    BY <1>1, <2>1, FrameStep
<1>3. ASSUME NEW r \in Requests, LoadDefaultConfig(r) \/ Handler(r)
      PROVE  IInv'
  <2>1. UNCHANGED Shared /\ proc' # "boot"
    BY <1>3 DEF LoadDefaultConfig, Handler, PostConfig, Compare, Enqueue,
                Reject, Running, Shared, loop, worker, server
  <2> QED
    BY <1>1, <2>1, FrameStep
<1>4. CASE Loop
  BY <1>1, <1>4, LoopStep DEF IInv, Parts
<1>5. ASSUME NEW w \in Requests, WorkerStep(w)
      PROVE  IInv'
  BY <1>1, <1>5, WorkerStepParts DEF IInv, Parts
<1>6. CASE UNCHANGED vars
  BY <1>6 DEF vars, handler, loop, worker, server, IInv, TypeOK, MutexInv,
              LoopInv, StorageInv, EngineInv, ServerInv, CancelInv, Live
<1> QED
  BY <1>2, <1>3, <1>4, <1>5, <1>6 DEF Next

\* IInv holds in every reachable state.
THEOREM Invariance == Spec => []IInv
  BY InitIInv, NextIInv, PTL DEF Spec

-----------------------------------------------------------------------------
(* What follows from IInv.                                                 *)

\* Every variable keeps its type; the channel never exceeds its capacity.
THEOREM TypeCorrect == Spec => []TypeOK
<1>1. IInv => TypeOK
  BY DEF IInv
<1> QED
  BY <1>1, Invariance, PTL

\* Two storages are never open at once: the hand-over of Manager.mutex from
\* the loop to the worker it spawns leaves no gap.
THEOREM StorageExclusion == Spec => []OneStorageOpen
<1>1. IInv => OneStorageOpen
  <2> SUFFICES ASSUME IInv, NEW g \in open, NEW h \in open PROVE g = h
    BY DEF OneStorageOpen
  <2>1. g \in Requests /\ h \in Requests
    BY DEF IInv, TypeOK
  <2>2. \A x \in Requests : wpc[x] \in Holding => Live(x)
    BY DEF Holding, Live
  <2> QED
    BY <2>1, <2>2 DEF IInv, StorageInv, MutexInv
<1> QED
  BY <1>1, Invariance, PTL

\* An engine that runs has an open storage under its collector.
THEOREM EngineSafety == Spec => []EngineHasStorage
<1>1. IInv => EngineHasStorage
  BY DEF IInv, TypeOK, EngineInv, StorageInv, EngineUp, Holding,
         EngineHasStorage
<1> QED
  BY <1>1, Invariance, PTL

\* A collector the HTTP server hands to readers of /stats has an open storage
\* and belongs to the configuration the server shows (Manager.run publishes
\* and the worker clears both while it holds the mutex).
THEOREM ServerConsistency == Spec => []ServedIsConsistent
<1>1. IInv => ServedIsConsistent
  <2> SUFFICES ASSUME IInv, srvCollector # None
      PROVE  srvCollector \in open /\ srvConfig = srvCollector
    BY DEF ServedIsConsistent
  <2>1. srvCollector \in Requests /\ wpc[srvCollector] \in Served
    BY DEF IInv, TypeOK, ServerInv
  <2>2. Served \subseteq Holding
    BY DEF Served, InSpecs, Holding
  <2> QED
    BY <2>1, <2>2 DEF IInv, ServerInv, StorageInv
<1> QED
  BY <1>1, Invariance, PTL

\* While a worker runs its specs the server shows its configuration and its
\* collector, whatever an earlier worker clears.
THEOREM ServerView == Spec => []RunningIsServed
<1>1. IInv => RunningIsServed
  BY DEF IInv, ServerInv, Served, RunningIsServed
<1> QED
  BY <1>1, Invariance, PTL

\* The loop never waits for a worker that was not told to stop.
THEOREM NoWaitForUncancelled == Spec => []WaitsOnlyForCancelled
<1>1. IInv => WaitsOnlyForCancelled
  BY DEF IInv, CancelInv, WaitsOnlyForCancelled
<1> QED
  BY <1>1, Invariance, PTL

\* The loop holds the mutex from its Lock to the go statement.
Critical == {"drain", "publish", "create", "spawn"}

\* Those whose code is to unlock the mutex: a worker, or the loop (None).
Owners == {g \in Requests : Live(g)} \cup {n \in {None} : mpc \in Critical}

\* A locked mutex has somebody to unlock it.
OwnerInv == mutex => mpc \in Critical \/ \E g \in Requests : Live(g)

\* Whoever ceases to be an owner has handed the mutex over or unlocked it.
LEMMA OwnerStep == IInv /\ OwnerInv /\ [Next]_vars => OwnerInv'
<1> SUFFICES ASSUME IInv, OwnerInv, [Next]_vars PROVE OwnerInv'
  OBVIOUS
<1> USE DEF OwnerInv, Critical, handler, loop, worker, server
<1>0. wpc \in [Requests -> WorkerSteps] /\ (mpc \in Critical => mcfg \in Requests)
  BY DEF IInv, TypeOK, LoopInv
<1>1. CASE NoDefaultConfig \/ Signal \/ Exit \/ UNCHANGED vars
  BY <1>1 DEF NoDefaultConfig, Signal, Exit, vars, Live
<1>2. CASE \E r \in Requests : LoadDefaultConfig(r) \/ Handler(r)
  BY <1>2 DEF LoadDefaultConfig, Handler, PostConfig, Compare, Enqueue, Reject, Live
<1>3. CASE Spawn
  <2>1. mcfg \in Requests /\ wpc' = [wpc EXCEPT ![mcfg] = "start"]
    BY <1>0, <1>3 DEF Spawn, At
  <2>2. wpc'[mcfg] = "start"
    BY <1>0, <2>1
  <2> QED
    BY <2>1, <2>2 DEF Live
<1>4. CASE StopLoop \/ Receive \/ Lock \/ DrainOne \/ DrainDone \/ Publish
           \/ OpenStorage \/ OpenFails
  BY <1>4 DEF StopLoop, Receive, Lock, DrainOne, DrainDone, Publish, OpenStorage,
              OpenFails, At, Live
<1>5. ASSUME NEW w \in Requests, WorkerStep(w)
      PROVE  OwnerInv'
  <2>1. CASE Unlock(w)
    BY <2>1 DEF Unlock
  <2>2. CASE ~Unlock(w)
    <3>1. PICK step \in WorkerSteps \ {"none", "gone"} : wpc' = [wpc EXCEPT ![w] = step]
      BY <1>5, <2>2
      DEF WorkerStep, StartOk, StartFails, AfterSpec, CtxDone, TimerFires, StopEngine,
          ApplyMultipliers, ClearCollector, ClearConfig, FinalStop, CloseStorage,
          Goto, WorkerSteps
    <3>2. wpc'[w] = step
      BY <1>0, <3>1
    <3> QED
      BY <3>2 DEF Live
  <2> QED
    BY <2>1, <2>2
<1> QED
  BY <1>1, <1>2, <1>3, <1>4, <1>5 DEF Next, Loop

\* sync.Mutex does not know who holds it: one goroutine locks, another unlocks,
\* and a failed storage needs an unlock of its own.  While it is locked there
\* is exactly one who will unlock it, so nobody waits for a lock that was
\* forgotten; while it is not, none is about to unlock it, which would end the
\* process.
MutexHasOneOwner ==
  IF mutex THEN \E o \in Requests \cup {None} : Owners = {o} ELSE Owners = {}

\* While the mutex is locked exactly one goroutine has it to unlock, while it
\* is not none: nobody waits for ever for a forgotten lock, and nobody unlocks
\* twice.
THEOREM MutexOwnership == Spec => []MutexHasOneOwner
<1>1. Init => OwnerInv
  BY DEF Init, OwnerInv
<1>2. IInv /\ OwnerInv => MutexHasOneOwner
  <2> SUFFICES ASSUME IInv, OwnerInv PROVE MutexHasOneOwner
    OBVIOUS
  <2>1. /\ mpc \in Critical => mutex /\ \A g \in Requests : ~Live(g)
        /\ \A g \in Requests : Live(g) => mutex
        /\ \A g, h \in Requests : Live(g) /\ Live(h) => g = h
    BY DEF IInv, MutexInv, Critical
  <2>2. CASE mpc \in Critical
    <3>1. Owners = {None} /\ mutex
      BY <2>1, <2>2 DEF Owners
    <3> QED
      BY <3>1 DEF MutexHasOneOwner
  <2>3. ASSUME mpc \notin Critical, NEW g \in Requests, Live(g)
        PROVE  MutexHasOneOwner
    <3>1. Owners = {g} /\ mutex
      BY <2>1, <2>3 DEF Owners
    <3> QED
      BY <3>1 DEF MutexHasOneOwner
  <2>4. CASE mpc \notin Critical /\ \A g \in Requests : ~Live(g)
    <3>1. Owners = {} /\ ~mutex
      BY <2>4 DEF Owners, OwnerInv
    <3> QED
      BY <3>1 DEF MutexHasOneOwner
  <2> QED
    BY <2>2, <2>3, <2>4
<1>3. Spec => []OwnerInv
  BY <1>1, OwnerStep, Invariance, PTL DEF Spec
<1> QED
  BY <1>2, <1>3, Invariance, PTL

-----------------------------------------------------------------------------
(* Every request gets one worker at most, so what is unloaded stays so.    *)

\* The loop has taken a configuration that is not yet with a worker.
InHand == mpc \in {"lock", "drain", "publish", "create", "spawn"}

\* A worker that has not cleared the server's configuration yet, or none.
Loaded == InSpecs \cup {"none", "clearCollector", "clearConfig"}

\* A request is in the channel, with the loop or with its worker, and in one
\* of these places only: each is accepted once.  What the server shows has a
\* worker that has not cleared it, or none yet.
QueueInv ==
  /\ proc = "boot" => mpc = "select" /\ \A r \in Requests : rpc[r] = "idle"
  /\ \A r \in Requests : rpc[r] # "queued" => wpc[r] = "none"
  /\ \A i \in 1..Len(chan) : rpc[chan[i]] = "queued" /\ wpc[chan[i]] = "none"
  /\ \A i, j \in 1..Len(chan) : chan[i] = chan[j] => i = j
  /\ InHand => /\ rpc[mcfg] = "queued" /\ wpc[mcfg] = "none"
               /\ \A i \in 1..Len(chan) : chan[i] # mcfg
  /\ srvConfig # None => wpc[srvConfig] \in Loaded

\* main's steps leave everything QueueInv is about alone.
LEMMA QueueFrame ==
  ASSUME QueueInv, UNCHANGED <<chan, rpc, mpc, mcfg, wpc, srvConfig>>,
         proc' = "boot" => proc = "boot"
  PROVE  QueueInv'
  BY DEF QueueInv, InHand

\* A handler changes its own request only, and queues it once.
LEMMA QueueHandler ==
  ASSUME IInv, QueueInv, NEW r \in Requests,
         LoadDefaultConfig(r) \/ Handler(r)
  PROVE  QueueInv'
<1> USE DEF IInv, TypeOK, handler, loop, worker, server, InHand
<1>1. UNCHANGED <<mpc, mcfg, wpc, srvConfig>> /\ proc' # "boot"
  BY DEF LoadDefaultConfig, Handler, PostConfig, Compare, Enqueue, Reject,
         Running
<1>2. CASE PostConfig(r) \/ Compare(r) \/ Reject(r)
  <2>1. PICK step \in HandlerSteps :
          /\ rpc' = [rpc EXCEPT ![r] = step]
          /\ step # "queued" /\ rpc[r] # "queued" /\ UNCHANGED chan
    BY <1>2 DEF PostConfig, Compare, Reject, HandlerSteps
  <2> HIDE DEF IInv
  <2>2. \A g \in Requests : rpc[g] = "queued" <=> rpc'[g] = "queued"
    BY <2>1 DEF IInv
  <2>3. \A i \in 1..Len(chan) : chan[i] \in Requests
    BY DEF IInv
  <2>4. InHand => mcfg \in Requests
    BY DEF IInv, LoopInv
  <2>5. /\ \A g \in Requests : rpc'[g] # "queued" => wpc'[g] = "none"
        /\ \A i \in 1..Len(chan') : rpc'[chan'[i]] = "queued" /\ wpc'[chan'[i]] = "none"
    BY <1>1, <2>1, <2>2, <2>3 DEF QueueInv
  <2>6. InHand' => rpc'[mcfg'] = "queued"
    BY <1>1, <2>2, <2>4 DEF QueueInv
  <2> QED
    BY <1>1, <2>1, <2>5, <2>6 DEF QueueInv
<1>3. CASE LoadDefaultConfig(r) \/ Enqueue(r)
  <2>1. /\ rpc' = [rpc EXCEPT ![r] = "queued"] /\ chan' = Append(chan, r)
        /\ rpc[r] # "queued"
    BY <1>3 DEF LoadDefaultConfig, Enqueue, QueueInv
  <2>2. /\ Len(chan') = Len(chan) + 1 /\ chan'[Len(chan) + 1] = r
        /\ \A i \in 1..Len(chan) : chan'[i] = chan[i] /\ chan[i] \in Requests
    BY <2>1
  <2>3. InHand => mcfg \in Requests
    BY DEF LoopInv
  <2>4. \A g \in Requests : rpc'[g] = "queued" <=> rpc[g] = "queued" \/ g = r
    BY <2>1
  <2> HIDE DEF IInv, TypeOK
  <2>5. Len(chan) \in Nat
    BY DEF IInv, TypeOK
  <2>6. \A i \in 1..Len(chan') :
          rpc'[chan'[i]] = "queued" /\ wpc'[chan'[i]] = "none"
    BY <1>1, <2>1, <2>2, <2>4, <2>5 DEF QueueInv
  <2>7. \A i, j \in 1..Len(chan') : chan'[i] = chan'[j] => i = j
    BY <2>1, <2>2, <2>5 DEF QueueInv
  <2>8. InHand' => /\ rpc'[mcfg'] = "queued" /\ wpc'[mcfg'] = "none"
                   /\ \A i \in 1..Len(chan') : chan'[i] # mcfg'
    BY <1>1, <2>1, <2>2, <2>3, <2>4, <2>5 DEF QueueInv
  <2> QED
    BY <1>1, <2>4, <2>6, <2>7, <2>8 DEF QueueInv
<1> QED
  BY <1>2, <1>3 DEF Handler

\* The head of the channel goes to the loop, which has nothing in hand then.
LEMMA QueueHead ==
  ASSUME IInv, QueueInv, chan # <<>>, chan' = Tail(chan), mcfg' = Head(chan),
         UNCHANGED <<rpc, wpc, srvConfig>>, proc' # "boot"
  PROVE  QueueInv'
<1>1. /\ Len(chan) \in Nat /\ Len(chan') = Len(chan) - 1
      /\ \A i \in 1..Len(chan') : chan'[i] = chan[i + 1]
      /\ mcfg' = chan[1] /\ 1 \in 1..Len(chan)
  BY DEF IInv, TypeOK
<1>2. \A i \in 1..Len(chan') : i + 1 \in 1..Len(chan) /\ i + 1 # 1
  BY <1>1
<1>3. \A i \in 1..Len(chan') : chan'[i] # mcfg'
  BY <1>1, <1>2 DEF QueueInv
<1>4. \A i, j \in 1..Len(chan') : chan'[i] = chan'[j] => i = j
  <2> SUFFICES ASSUME NEW i \in 1..Len(chan'), NEW j \in 1..Len(chan'),
                      chan'[i] = chan'[j]
               PROVE  i = j
    OBVIOUS
  <2>1. i + 1 = j + 1
    BY <1>1, <1>2 DEF QueueInv
  <2> QED
    BY <1>1, <2>1
<1>5. \A i \in 1..Len(chan') : rpc'[chan'[i]] = "queued" /\ wpc'[chan'[i]] = "none"
  BY <1>1, <1>2 DEF QueueInv
<1>6. rpc'[mcfg'] = "queued" /\ wpc'[mcfg'] = "none"
  BY <1>1 DEF QueueInv
<1> QED
  BY <1>3, <1>4, <1>5, <1>6 DEF QueueInv, InHand

\* The loop takes each configuration once and hands it to one worker.
LEMMA QueueLoop ==
  ASSUME IInv, QueueInv, Loop
  PROVE  QueueInv'
<1>1. UNCHANGED <<proc, rpc>> /\ proc # "boot"
  BY DEF Loop, StopLoop, Receive, Lock, DrainOne, DrainDone, Publish,
         OpenStorage, OpenFails, Spawn, At, Running, handler
<1> USE DEF At, worker, server
<1>2. CASE Receive \/ DrainOne
  BY <1>1, <1>2, QueueHead DEF Receive, DrainOne
<1>3. CASE StopLoop \/ Lock \/ DrainDone \/ OpenStorage \/ OpenFails
  <2>1. UNCHANGED <<chan, mcfg, wpc, srvConfig>> /\ (InHand' => InHand)
    BY <1>3 DEF StopLoop, Lock, DrainDone, OpenStorage, OpenFails, InHand
  <2>2. UNCHANGED <<chan, rpc, mcfg, wpc, srvConfig>> /\ proc' # "boot"
    BY <1>1, <2>1
  <2> QED
    BY <2>1, <2>2 DEF QueueInv
<1>4. CASE Publish
  <2>1. /\ UNCHANGED <<chan, mcfg, wpc>> /\ srvConfig' = mcfg /\ InHand
        /\ mpc' = "create"
    BY <1>4 DEF Publish, InHand
  <2> QED
    BY <1>1, <2>1 DEF QueueInv, InHand, Loaded
<1>5. CASE Spawn
  <2>1. /\ UNCHANGED <<chan, mcfg, srvConfig>> /\ InHand /\ ~InHand'
        /\ wpc' = [wpc EXCEPT ![mcfg] = "start"] /\ mcfg \in Requests
    BY <1>5 DEF Spawn, InHand, IInv, LoopInv
  <2>2. \A g \in Requests : wpc'[g] = IF g = mcfg THEN "start" ELSE wpc[g]
    BY <2>1 DEF IInv, TypeOK
  <2>3. \A i \in 1..Len(chan) : chan[i] \in Requests
    BY DEF IInv, TypeOK
  <2>4. \A i \in 1..Len(chan) : rpc[chan[i]] = "queued" /\ wpc'[chan[i]] = "none"
    BY <2>1, <2>2, <2>3 DEF QueueInv
  <2>5. \A g \in Requests : rpc[g] # "queued" => wpc'[g] = "none"
    BY <2>1, <2>2 DEF QueueInv
  <2>6. srvConfig # None => wpc'[srvConfig] \in Loaded
    <3>1. srvConfig \in Requests \cup {None} /\ "start" \in Loaded
      BY DEF IInv, TypeOK, Loaded, InSpecs
    <3> QED
      BY <2>2, <3>1 DEF QueueInv
  <2> QED
    BY <1>1, <2>1, <2>4, <2>5, <2>6 DEF QueueInv
<1> QED
  BY <1>2, <1>3, <1>4, <1>5 DEF Loop

\* A worker has its request to itself, and clears it from the server on its
\* way to the end.
LEMMA QueueWorker ==
  ASSUME IInv, QueueInv, NEW w \in Requests, WorkerStep(w)
  PROVE  QueueInv'
<1> USE DEF Worker, Goto, handler, loop, worker, server
<1>1. /\ UNCHANGED <<proc, chan, rpc, mpc, mcfg>> /\ proc # "boot"
      /\ wpc[w] # "none"
  BY DEF WorkerStep, StartOk, StartFails, CtxDone, TimerFires, StopEngine,
         ApplyMultipliers, ClearCollector, ClearConfig, FinalStop,
         CloseStorage, Unlock, Running
<1>2. PICK step \in WorkerSteps :
        /\ wpc' = [wpc EXCEPT ![w] = step] /\ step # "none"
        /\ \/ srvConfig' = None
           \/ UNCHANGED srvConfig /\ (step \in Loaded \/ wpc[w] \notin Loaded)
  <2>1. CASE StartFails(w) \/ StopEngine(w)
    <3>1. AfterSpec(w) /\ UNCHANGED srvConfig
      BY <2>1 DEF StartFails, StopEngine
    <3> HIDE DEF Goto
    <3>2. /\ wpc' = [wpc EXCEPT ![w] = wpc'[w]]
          /\ wpc'[w] \in {"start", "repeat", "clearCollector"}
      BY <3>1, AfterSpecType DEF IInv
    <3> QED
      BY <3>1, <3>2 DEF Loaded, InSpecs, WorkerSteps
  <2>2. CASE StartOk(w) \/ CtxDone(w) \/ TimerFires(w) \/ ApplyMultipliers(w)
    BY <2>2 DEF StartOk, CtxDone, TimerFires, ApplyMultipliers, Loaded,
                InSpecs, WorkerSteps
  <2>3. CASE ClearCollector(w) \/ ClearConfig(w)
    BY <2>3 DEF ClearCollector, ClearConfig, Loaded, InSpecs, WorkerSteps
  <2>4. CASE FinalStop(w) \/ CloseStorage(w) \/ Unlock(w)
    BY <2>4 DEF FinalStop, CloseStorage, Unlock, Loaded, InSpecs, WorkerSteps
  <2> QED
    BY <2>1, <2>2, <2>3, <2>4 DEF WorkerStep
<1>3. \A g \in Requests : wpc'[g] = IF g = w THEN step ELSE wpc[g]
  BY <1>2 DEF IInv, TypeOK
<1>4. /\ \A i \in 1..Len(chan) : chan[i] \in Requests /\ chan[i] # w
      /\ InHand => mcfg \in Requests /\ mcfg # w
      /\ srvConfig \in Requests \cup {None}
      /\ rpc[w] = "queued"
  BY <1>1 DEF IInv, TypeOK, LoopInv, QueueInv, InHand
<1>5. srvConfig' # None => wpc'[srvConfig'] \in Loaded
  <2>1. srvConfig # None => srvConfig \in Requests /\ wpc[srvConfig] \in Loaded
    BY <1>4 DEF QueueInv
  <2> QED
    BY <1>2, <1>3, <1>4, <2>1
<1> QED
  BY <1>1, <1>2, <1>3, <1>4, <1>5 DEF QueueInv, InHand

\* Once its worker is gone, a configuration is never shown as loaded again:
\* the worker has cleared it, and no request is published twice.
THEOREM EndedStaysUnloaded == Spec => []EndedIsUnloaded
<1>1. Init => QueueInv
  BY DEF Init, QueueInv, InHand
<1>2. IInv /\ QueueInv /\ [Next]_vars => QueueInv'
  <2> SUFFICES ASSUME IInv, QueueInv, [Next]_vars PROVE QueueInv'
    OBVIOUS
  <2>1. CASE NoDefaultConfig \/ Signal \/ Exit \/ UNCHANGED vars
    BY <2>1, QueueFrame DEF NoDefaultConfig, Signal, Exit, vars, handler,
                            loop, worker, server
  <2> QED
    BY <2>1, QueueHandler, QueueLoop, QueueWorker DEF Next
<1>3. QueueInv => EndedIsUnloaded
  BY ConstantsAssumption DEF QueueInv, EndedIsUnloaded, Loaded, InSpecs
<1> QED
  BY <1>1, <1>2, <1>3, Invariance, PTL DEF Spec

-----------------------------------------------------------------------------
(* Manager implements HotReload.                                           *)

\* With at most one live worker, Active is that worker.
LEMMA ActiveIsLive ==
  ASSUME IInv, NEW g \in Requests, Live(g)
  PROVE  Active = g
<1>1. mpc \notin {"publish", "create", "spawn"}
  BY DEF IInv, MutexInv
<1>2. \A h \in Requests : Live(h) => h = g
  BY DEF IInv, MutexInv
<1>3. (CHOOSE h \in Requests : Live(h)) = g
  BY <1>2
<1> QED
  BY <1>1, <1>3 DEF Active

\* Steps that leave the channel, the loop's progress and every worker's
\* liveness alone change nothing abstract.
LEMMA AbstractStutter ==
  ASSUME UNCHANGED <<chan, mpc, mcfg>>,
         \A g \in Requests : Live(g)' <=> Live(g)
  PROVE  UNCHANGED <<Pending, Active>>
<1>1. Pending' = Pending
  BY DEF Pending
<1>2. (CHOOSE g \in Requests : Live(g))' = (CHOOSE g \in Requests : Live(g))
  OBVIOUS
<1> QED
  BY <1>1, <1>2 DEF Active

\* The workers' steps before Unlock keep everyone's liveness.
LEMMA BusyWorker ==
  ASSUME IInv, NEW w \in Requests, WorkerStep(w), ~Unlock(w)
  PROVE  UNCHANGED <<Pending, Active>>
<1>1. UNCHANGED <<chan, mpc, mcfg>>
  BY DEF WorkerStep, StartOk, StartFails, CtxDone, TimerFires, StopEngine,
         ApplyMultipliers, ClearCollector, ClearConfig, FinalStop,
         CloseStorage, loop
<1>2. Live(w) /\ Live(w)' /\ \A g \in Requests : g # w => wpc'[g] = wpc[g]
  <2> USE DEF Worker, Goto, Live, IInv, TypeOK
  <2>1. CASE StartFails(w) \/ StopEngine(w)
    <3>1. AfterSpec(w) /\ wpc[w] \in {"start", "stopEngine"}
      BY <2>1 DEF StartFails, StopEngine
    <3> HIDE DEF IInv, TypeOK, Goto
    <3>2. TypeOK
      BY DEF IInv
    <3>3. /\ wpc' = [wpc EXCEPT ![w] = wpc'[w]]
          /\ wpc'[w] \in {"start", "repeat", "clearCollector"}
      BY <3>1, <3>2, AfterSpecType
    <3> QED
      BY <3>1, <3>2, <3>3 DEF TypeOK
  <2>2. CASE StartOk(w) \/ CtxDone(w) \/ TimerFires(w) \/ ApplyMultipliers(w)
    BY <2>2 DEF StartOk, CtxDone, TimerFires, ApplyMultipliers
  <2>3. CASE ClearCollector(w) \/ ClearConfig(w) \/ FinalStop(w)
               \/ CloseStorage(w)
    BY <2>3 DEF ClearCollector, ClearConfig, FinalStop, CloseStorage
  <2> QED
    BY <2>1, <2>2, <2>3 DEF WorkerStep
<1>3. \A g \in Requests : Live(g)' <=> Live(g)
  BY <1>2 DEF Live
<1> QED
  BY <1>1, <1>3, AbstractStutter

\* Unlocking ends the last live worker: its configuration is retired.
LEMMA UnlockRetires ==
  ASSUME IInv, NEW w \in Requests, Unlock(w)
  PROVE  Abstract!Retire
<1>1. Live(w)
  BY DEF Unlock, Worker, Live
<1>2. Active = w /\ w # None
  BY <1>1, ActiveIsLive
<1>3. \A g \in Requests : ~Live(g)'
  <2>1. \A g \in Requests : g # w => ~Live(g) /\ wpc'[g] = wpc[g]
    BY <1>1 DEF IInv, MutexInv, TypeOK, Unlock, Goto
  <2>2. wpc'[w] = "gone"
    BY DEF IInv, TypeOK, Unlock, Goto
  <2> QED
    BY <2>1, <2>2 DEF Live
<1>4. UNCHANGED <<chan, mpc, mcfg>>
  BY DEF Unlock, loop
<1>5. mpc' \notin {"publish", "create", "spawn"}
  BY <1>1, <1>4 DEF IInv, MutexInv
<1>6. Active' = None
  BY <1>3, <1>5 DEF Active
<1>7. Pending' = Pending
  BY <1>4 DEF Pending
<1> QED
  BY <1>2, <1>6, <1>7 DEF Abstract!Retire

\* An accepted request goes to the end of the queue, wherever the loop is.
LEMMA EnqueueAccepts ==
  ASSUME IInv, NEW r \in Requests, chan' = Append(chan, r),
         UNCHANGED <<mpc, mcfg, wpc>>
  PROVE  Abstract!Accept(r)
<1>1. chan \in Seq(Requests)
  BY DEF IInv, TypeOK
<1>2. Pending' = Append(Pending, r)
  <2>1. CASE mpc \in {"lock", "drain"}
    <3>1. mcfg \in Requests
      BY <2>1 DEF IInv, LoopInv
    <3>2. <<mcfg>> \o Append(chan, r) = Append(<<mcfg>> \o chan, r)
      BY <1>1, <3>1
    <3> QED
      BY <2>1, <3>2 DEF Pending
  <2>2. CASE mpc \notin {"lock", "drain"}
    BY <2>2 DEF Pending
  <2> QED
    BY <2>1, <2>2
<1>3. Active' = Active
  <2>1. \A g \in Requests : Live(g)' <=> Live(g)
    BY DEF Live
  <2>2. (CHOOSE g \in Requests : Live(g))'
          = (CHOOSE g \in Requests : Live(g))
    BY <2>1
  <2> QED
    BY <2>1, <2>2 DEF Active
<1> QED
  BY <1>2, <1>3 DEF Abstract!Accept

\* The loop's steps: receive and lock move the head of the queue into mcfg,
\* the drain drops superseded heads, its end puts the last one in force.
LEMMA LoopImplements ==
  ASSUME IInv, Loop
  PROVE  [Abstract!HNext]_(Abstract!hvars)
<1> DEFINE Quiet == UNCHANGED <<Pending, Active>>
<1>0. Quiet => [Abstract!HNext]_(Abstract!hvars)
  BY DEF Abstract!hvars
<1>t. /\ chan \in Seq(Requests)
      /\ mcfg \in Requests \cup {None}
      /\ None \notin Requests
  BY DEF IInv, TypeOK
<1>1. CASE StopLoop
  <2>1. Pending' = Pending
    BY <1>1 DEF StopLoop, At, Pending
  <2>2. (CHOOSE g \in Requests : Live(g))' = (CHOOSE g \in Requests : Live(g))
    BY <1>1 DEF StopLoop, Live, worker
  <2>3. Active' = Active
    BY <1>1, <2>2 DEF StopLoop, At, Active, Live, worker
  <2> QED
    BY <1>0, <2>1, <2>3
<1>2. CASE Receive
  <2>1. Pending = chan /\ Pending' = <<Head(chan)>> \o Tail(chan)
    BY <1>2 DEF Receive, At, Pending
  <2>2. <<Head(chan)>> \o Tail(chan) = chan
    BY <1>2, <1>t DEF Receive
  <2>3. (CHOOSE g \in Requests : Live(g))' = (CHOOSE g \in Requests : Live(g))
    BY <1>2 DEF Receive, Live, worker
  <2>4. Active' = Active
    BY <1>2, <2>3 DEF Receive, At, Active, Live, worker
  <2> QED
    BY <1>0, <2>1, <2>2, <2>4
<1>3. CASE Lock
  <2>1. Pending' = Pending
    BY <1>3 DEF Lock, At, Pending
  <2>2. (CHOOSE g \in Requests : Live(g))' = (CHOOSE g \in Requests : Live(g))
    BY <1>3 DEF Lock, Live, worker
  <2>3. Active' = Active
    BY <1>3, <2>2 DEF Lock, At, Active, Live, worker
  <2> QED
    BY <1>0, <2>1, <2>3
<1>4. CASE DrainOne
  <2>0. mpc = "drain" /\ mpc' = "drain" /\ chan # <<>> /\ mcfg \in Requests
    BY <1>4 DEF DrainOne, At, IInv, LoopInv
  <2>1. Pending = <<mcfg>> \o chan
    BY <2>0 DEF Pending
  <2>2. Pending' = <<Head(chan)>> \o Tail(chan)
    BY <1>4, <2>0 DEF DrainOne, Pending
  <2>3. Pending' = chan
    BY <1>t, <2>0, <2>2
  <2>4. Len(Pending) > 1 /\ Tail(Pending) = chan
    BY <1>t, <2>0, <2>1
  <2>5. Active' = Active
    <3>1. \A g \in Requests : Live(g)' <=> Live(g)
      BY <1>4 DEF DrainOne, Live, worker
    <3>2. ~\E g \in Requests : Live(g)
      BY <2>0 DEF IInv, MutexInv
    <3> QED
      BY <2>0, <3>1, <3>2 DEF Active
  <2>6. Abstract!Supersede
    BY <2>3, <2>4, <2>5 DEF Abstract!Supersede
  <2> QED
    BY <2>6 DEF Abstract!HNext
<1>5. CASE DrainDone
  <2>0. /\ mpc = "drain" /\ mpc' = "publish" /\ chan = <<>> /\ chan' = <<>>
        /\ mcfg \in Requests /\ mcfg' = mcfg
    BY <1>5 DEF DrainDone, At, IInv, LoopInv
  <2>1. Pending = <<mcfg>> /\ Pending' = <<>>
    BY <2>0, <1>t DEF Pending
  <2>2. Active = None
    BY <2>0 DEF IInv, MutexInv, Active
  <2>3. Active' = mcfg
    BY <2>0 DEF Active
  <2>4. Abstract!Activate
    BY <2>1, <2>2, <2>3 DEF Abstract!Activate
  <2> QED
    BY <2>4 DEF Abstract!HNext
<1>6. CASE Publish
  BY <1>0, <1>6 DEF Publish, At, Pending, Active
<1>7. CASE OpenStorage
  BY <1>0, <1>7 DEF OpenStorage, At, Pending, Active
<1>8. CASE OpenFails
  <2>1. Active = mcfg /\ mcfg # None
    BY <1>8, <1>t DEF OpenFails, At, Active, IInv, LoopInv
  <2>2. \A g \in Requests : ~Live(g)'
    BY <1>8 DEF OpenFails, At, IInv, MutexInv, Live, worker
  <2>3. Active' = None
    BY <1>8, <2>2 DEF OpenFails, Active
  <2>4. Pending' = Pending
    BY <1>8 DEF OpenFails, At, Pending
  <2>5. Abstract!Retire
    BY <2>1, <2>3, <2>4 DEF Abstract!Retire
  <2> QED
    BY <2>5 DEF Abstract!HNext
<1>9. CASE Spawn
  <2>1. Active = mcfg /\ mcfg \in Requests /\ mcfg' = mcfg /\ mpc' = "select"
    BY <1>9 DEF Spawn, At, Active, IInv, LoopInv
  <2>2. \A g \in Requests : Live(g)' <=> g = mcfg
    BY <1>9, <2>1 DEF Spawn, At, IInv, MutexInv, TypeOK, Live
  <2>3. (CHOOSE g \in Requests : Live(g))' = mcfg
    BY <2>1, <2>2
  <2>4. Active' = mcfg
    BY <2>1, <2>2, <2>3 DEF Active
  <2>5. Pending' = Pending
    BY <1>9 DEF Spawn, At, Pending
  <2> QED
    BY <1>0, <2>1, <2>4, <2>5
<1> QED
  BY <1>1, <1>2, <1>3, <1>4, <1>5, <1>6, <1>7, <1>8, <1>9 DEF Loop

\* The channel, the mutex hand-over and the workers implement "the newest
\* accepted configuration, one at a time, none dropped for an older one".
THEOREM Refinement == Spec => HotReloadSpec
<1>1. Init => Abstract!HInit
  BY DEF Init, Abstract!HInit, Pending, Active, Live
<1>2. IInv /\ [Next]_vars => [Abstract!HNext]_(Abstract!hvars)
  <2> SUFFICES ASSUME IInv, [Next]_vars
      PROVE  [Abstract!HNext]_(Abstract!hvars)
    OBVIOUS
  <2>1. UNCHANGED <<chan, mpc, mcfg, wpc>> => UNCHANGED Abstract!hvars
    BY AbstractStutter DEF Live, Abstract!hvars
  <2>2. CASE NoDefaultConfig \/ Signal \/ Exit
    BY <2>1, <2>2 DEF NoDefaultConfig, Signal, Exit, loop, worker
  <2>3. ASSUME NEW r \in Requests, LoadDefaultConfig(r) \/ Enqueue(r)
        PROVE  Abstract!HNext
    <3>1. Abstract!Accept(r)
      BY <2>3, EnqueueAccepts DEF LoadDefaultConfig, Enqueue, loop, worker
    <3> QED
      BY <3>1 DEF Abstract!HNext
  <2>4. ASSUME NEW r \in Requests, PostConfig(r) \/ Compare(r) \/ Reject(r)
        PROVE  UNCHANGED Abstract!hvars
    BY <2>1, <2>4 DEF PostConfig, Compare, Reject, loop, worker
  <2>5. CASE Loop
    BY <2>5, LoopImplements
  <2>6. ASSUME NEW w \in Requests, WorkerStep(w)
        PROVE  [Abstract!HNext]_(Abstract!hvars)
    <3>1. CASE Unlock(w)
      BY <3>1, UnlockRetires DEF Abstract!HNext
    <3>2. CASE ~Unlock(w)
      BY <2>6, <3>2, BusyWorker DEF Abstract!hvars
    <3> QED
      BY <3>1, <3>2
  <2>7. CASE UNCHANGED vars
    BY <2>1, <2>7 DEF vars, loop, worker
  <2> QED
    BY <2>2, <2>3, <2>4, <2>5, <2>6, <2>7 DEF Next, Handler
<1> QED
  BY <1>1, <1>2, Invariance, PTL DEF Spec, HotReloadSpec, Abstract!HSpec
=============================================================================
