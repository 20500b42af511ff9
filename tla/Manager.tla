------------------------------- MODULE Manager -------------------------------
(***************************************************************************)
(* The hot-reload core of the load tester: POST /config handlers feed a    *)
(* buffered channel; the loop Manager.run takes a configuration off it,    *)
(* cancels the one in force, waits for its worker on Manager.mutex, drains *)
(* the channel down to the newest configuration, publishes it to the HTTP  *)
(* server, opens its storage and starts a worker goroutine to which the    *)
(* locked mutex is handed over.  The worker runs the configuration's       *)
(* specs one after the other (processConfig), tears everything down and    *)
(* unlocks the mutex.  A signal ends the process.                          *)
(*                                                                         *)
(* A request stands for the one *config.Config object its handler decodes, *)
(* so it also names the context, the storage, the collector, the engine    *)
(* and the worker that are created for that object.                        *)
(***************************************************************************)
EXTENDS Naturals, Sequences

CONSTANTS Requests,        \* POST /config calls (and the default config)
          None,            \* nil
          Configs,         \* contents of a configuration
          Body,            \* Body[r]: what request r decodes to
          Valid,           \* the contents Config.Validate accepts
          Repeating,       \* contents with repeat_policy.enabled
          CtxAware,        \* contents whose engine.Start consults its context
                           \* (they set up streams or consumers)
          Specs,           \* Specs[c]: number of load test specs of c
          ChanCap,         \* capacity of configChannel
          CannotConnect    \* contents whose engine.Start may fail on its own

ASSUME ConstantsAssumption ==
  /\ None \notin Requests
  /\ Body \in [Requests -> Configs]
  /\ Specs \in [Configs -> Nat \ {0}]
  /\ ChanCap \in Nat \ {0}
  /\ CannotConnect \subseteq Configs

VARIABLES
  proc,          \* the process: main and the root context
  chan,          \* configChannel
  rpc,           \* rpc[r]: how far the handler of r is
  seen,          \* seen[r]: the pointer getConfig returned to that handler
  mpc,           \* control point of Manager.run
  mcfg,          \* its local cfg
  last,          \* the configuration lastConfigCancel belongs to
  mutex,         \* Manager.mutex is locked
  cancelled,     \* configurations whose context was cancelled
  wpc,           \* wpc[g]: control point of the worker of g
  wspec,         \* wspec[g]: the spec it runs (the last one when it repeats)
  engine,        \* configurations whose engine has started and not stopped
  open,          \* configurations whose storage is open
  srvConfig,     \* HTTPServer.configManager.config
  srvCollector,  \* HTTPServer.collector
  mutated        \* configurations ApplyMultipliers has changed in place

server  == <<srvConfig, srvCollector>>
handler == <<rpc, seen>>
loop    == <<mpc, mcfg, last>>
worker  == <<wpc, wspec, engine, mutated>>
vars == <<proc, chan, handler, loop, mutex, cancelled, worker, open, server>>

HandlerSteps == {"idle", "compare", "send", "queued", "unchanged", "busy",
                 "invalid"}
LoopSteps    == {"select", "lock", "drain", "publish", "create", "spawn",
                 "stopped"}
WorkerSteps  == {"none", "start", "running", "stopEngine", "repeat",
                 "clearCollector", "clearConfig", "finalStop", "close",
                 "unlock", "gone"}

TypeOK ==
  /\ proc \in {"boot", "up", "stopping", "exited"}
  /\ chan \in Seq(Requests)
  /\ Len(chan) <= ChanCap
  /\ rpc \in [Requests -> HandlerSteps]
  /\ seen \in [Requests -> Requests \cup {None}]
  /\ mpc \in LoopSteps
  /\ mcfg \in Requests \cup {None}
  /\ last \in Requests \cup {None}
  /\ mutex \in BOOLEAN
  /\ cancelled \subseteq Requests
  /\ wpc \in [Requests -> WorkerSteps]
  /\ wspec \in [Requests -> Nat]
  /\ engine \subseteq Requests
  /\ open \subseteq Requests
  /\ srvConfig \in Requests \cup {None}
  /\ srvCollector \in Requests \cup {None}
  /\ mutated \subseteq Requests

Init ==
  /\ proc = "boot"
  /\ chan = <<>>
  /\ rpc = [r \in Requests |-> "idle"]
  /\ seen = [r \in Requests |-> None]
  /\ mpc = "select" /\ mcfg = None /\ last = None
  /\ mutex = FALSE
  /\ cancelled = {}
  /\ wpc = [r \in Requests |-> "none"]
  /\ wspec = [r \in Requests |-> 1]
  /\ engine = {} /\ open = {} /\ mutated = {}
  /\ srvConfig = None /\ srvCollector = None

\* The server, the loop and the workers run until main returns.
Running == proc \in {"up", "stopping"}

Live(g) == wpc[g] \notin {"none", "gone"}

\* ctx.Done() of g's context: cancelled itself or through the root context.
Done(g) == g \in cancelled \/ proc = "stopping"

-----------------------------------------------------------------------------
(* main and the HTTP handler of POST /config.                              *)

\* LoadDefaultConfig runs before the loop and the server are started.
LoadDefaultConfig(r) ==
  /\ proc = "boot"
  /\ Body[r] \in Valid
  /\ chan' = Append(chan, r)
  /\ rpc' = [rpc EXCEPT ![r] = "queued"]
  /\ proc' = "up"
  /\ UNCHANGED <<seen, loop, mutex, cancelled, worker, open, server>>

NoDefaultConfig ==
  /\ proc = "boot"
  /\ proc' = "up"
  /\ UNCHANGED <<chan, handler, loop, mutex, cancelled, worker, open, server>>

\* Decode and validate the body, then read the published pointer.
PostConfig(r) ==
  /\ Running
  /\ rpc[r] = "idle"
  /\ IF Body[r] \in Valid
       THEN /\ rpc' = [rpc EXCEPT ![r] = "compare"]
            /\ seen' = [seen EXCEPT ![r] = srvConfig]
       ELSE /\ rpc' = [rpc EXCEPT ![r] = "invalid"]
            /\ UNCHANGED seen
  /\ UNCHANGED <<proc, chan, loop, mutex, cancelled, worker, open, server>>

\* The outcomes of cfg.Equals(seen): hashes of the two contents.  Once the
\* worker multiplies the published object in place its hash can be anything.
Equals(r) ==
  IF seen[r] = None THEN {FALSE}
  ELSE IF seen[r] \in mutated THEN BOOLEAN
  ELSE {Body[r] = Body[seen[r]]}

Compare(r) ==
  /\ Running
  /\ rpc[r] = "compare"
  /\ \E eq \in Equals(r) :
       rpc' = [rpc EXCEPT ![r] = IF eq THEN "unchanged" ELSE "send"]
  /\ UNCHANGED <<proc, chan, seen, loop, mutex, cancelled, worker, open,
                 server>>

\* Mutant of HasRoom: room for one more than the buffer holds.
HasRoomOffByOne == Len(chan) <= ChanCap

HasRoom == Len(chan) < ChanCap

Enqueue(r) ==
  /\ Running
  /\ rpc[r] = "send"
  /\ HasRoom
  /\ chan' = Append(chan, r)
  /\ rpc' = [rpc EXCEPT ![r] = "queued"]
  /\ UNCHANGED <<proc, seen, loop, mutex, cancelled, worker, open, server>>

\* The 5 s timer of the handler: the channel stayed full.
Reject(r) ==
  /\ Running
  /\ rpc[r] = "send"
  /\ ~HasRoom
  /\ rpc' = [rpc EXCEPT ![r] = "busy"]
  /\ UNCHANGED <<proc, chan, seen, loop, mutex, cancelled, worker, open,
                 server>>

\* A signal makes main cancel the root context ...
Signal ==
  /\ proc = "up"
  /\ proc' = "stopping"
  /\ UNCHANGED <<chan, handler, loop, mutex, cancelled, worker, open, server>>

\* ... and return at once: the process ends wherever the others are.
Exit ==
  /\ proc = "stopping"
  /\ proc' = "exited"
  /\ UNCHANGED <<chan, handler, loop, mutex, cancelled, worker, open, server>>

-----------------------------------------------------------------------------
(* Manager.run.                                                            *)

At(step) == Running /\ mpc = step

\* Mutant of CancelLast: the running configuration is not told to stop.
CancelNothing == cancelled

\* Calling lastConfigCancel.
CancelLast == IF last = None THEN cancelled ELSE cancelled \cup {last}

StopLoop ==
  /\ At("select")
  /\ proc = "stopping"
  /\ cancelled' = CancelLast
  /\ mpc' = "stopped"
  /\ UNCHANGED <<proc, chan, handler, mcfg, last, mutex, worker, open, server>>

Receive ==
  /\ At("select")
  /\ chan # <<>>
  /\ mcfg' = Head(chan)
  /\ chan' = Tail(chan)
  /\ cancelled' = CancelLast
  /\ mpc' = "lock"
  /\ UNCHANGED <<proc, handler, last, mutex, worker, open, server>>

\* Mutant of Lock: the loop does not wait for the previous worker.
LockWithoutWaiting ==
  /\ At("lock")
  /\ mutex' = TRUE
  /\ mpc' = "drain"
  /\ UNCHANGED <<proc, chan, handler, mcfg, last, cancelled, worker, open,
                 server>>

\* m.mutex.Lock(): waits for the worker of the previous configuration.
Lock ==
  /\ At("lock")
  /\ ~mutex
  /\ mutex' = TRUE
  /\ mpc' = "drain"
  /\ UNCHANGED <<proc, chan, handler, mcfg, last, cancelled, worker, open,
                 server>>

\* Mutant of DrainOne: the drain keeps the oldest configuration.
DrainKeepsOldest ==
  /\ At("drain")
  /\ chan # <<>>
  /\ chan' = Tail(chan)
  /\ UNCHANGED <<proc, handler, loop, mutex, cancelled, worker, open, server>>

DrainOne ==
  /\ At("drain")
  /\ chan # <<>>
  /\ mcfg' = Head(chan)
  /\ chan' = Tail(chan)
  /\ UNCHANGED <<proc, handler, mpc, last, mutex, cancelled, worker, open,
                 server>>

DrainDone ==
  /\ At("drain")
  /\ chan = <<>>
  /\ mpc' = "publish"
  /\ UNCHANGED <<proc, chan, handler, mcfg, last, mutex, cancelled, worker,
                 open, server>>

\* Mutant of Publish: ":=" shadows lastConfigCancel, the loop keeps the old one.
PublishShadowsCancel ==
  /\ At("publish")
  /\ srvConfig' = mcfg
  /\ mpc' = "create"
  /\ UNCHANGED <<proc, chan, handler, mcfg, last, mutex, cancelled, worker,
                 open, srvCollector>>

\* context.WithCancel and httpServer.SetConfig.
Publish ==
  /\ At("publish")
  /\ last' = mcfg
  /\ srvConfig' = mcfg
  /\ mpc' = "create"
  /\ UNCHANGED <<proc, chan, handler, mcfg, mutex, cancelled, worker, open,
                 srvCollector>>

OpenStorage ==
  /\ At("create")
  /\ open' = open \cup {mcfg}
  /\ mpc' = "spawn"
  /\ UNCHANGED <<proc, chan, handler, mcfg, last, mutex, cancelled, worker,
                 server>>

\* createStorage fails: the configuration stays published.
OpenFails ==
  /\ At("create")
  /\ cancelled' = cancelled \cup {mcfg}
  /\ mutex' = FALSE
  /\ mpc' = "select"
  /\ UNCHANGED <<proc, chan, handler, mcfg, last, worker, open, server>>

\* SetCollector, NewEngine and the go statement: the worker now owns the lock.
Spawn ==
  /\ At("spawn")
  /\ srvCollector' = mcfg
  /\ wpc' = [wpc EXCEPT ![mcfg] = "start"]
  /\ mpc' = "select"
  /\ UNCHANGED <<proc, chan, handler, mcfg, last, mutex, cancelled, wspec,
                 engine, mutated, open, srvConfig>>

Loop == \/ StopLoop \/ Receive \/ Lock \/ DrainOne \/ DrainDone \/ Publish
        \/ OpenStorage \/ OpenFails \/ Spawn

-----------------------------------------------------------------------------
(* The worker goroutine: processConfig and the deferred tear-down.         *)

Worker(g, step) == Running /\ wpc[g] = step

Goto(g, step) == wpc' = [wpc EXCEPT ![g] = step]

\* What processConfig does after a spec that did not end with the context.
AfterSpec(g) ==
  IF wspec[g] < Specs[Body[g]]
    THEN Goto(g, "start") /\ wspec' = [wspec EXCEPT ![g] = @ + 1]
    ELSE /\ Goto(g, IF Body[g] \in Repeating THEN "repeat" ELSE "clearCollector")
         /\ UNCHANGED wspec

StartOk(g) ==
  /\ Worker(g, "start")
  /\ ~(Done(g) /\ Body[g] \in CtxAware)
  /\ engine' = engine \cup {g}
  /\ Goto(g, "running")
  /\ UNCHANGED <<proc, chan, handler, loop, mutex, cancelled, wspec, mutated,
                 open, server>>

\* engine.Start fails: the error is logged and the next spec is tried.
StartFails(g) ==
  /\ Worker(g, "start")
  /\ Body[g] \in CannotConnect \/ (Done(g) /\ Body[g] \in CtxAware)
  /\ AfterSpec(g)
  /\ UNCHANGED <<proc, chan, handler, loop, mutex, cancelled, engine, mutated,
                 open, server>>

CtxDone(g) ==
  /\ Worker(g, "running")
  /\ Done(g)
  /\ Goto(g, "clearCollector")
  /\ UNCHANGED <<proc, chan, handler, loop, mutex, cancelled, wspec, engine,
                 mutated, open, server>>

TimerFires(g) ==
  /\ Worker(g, "running")
  /\ Goto(g, "stopEngine")
  /\ UNCHANGED <<proc, chan, handler, loop, mutex, cancelled, wspec, engine,
                 mutated, open, server>>

StopEngine(g) ==
  /\ Worker(g, "stopEngine")
  /\ engine' = engine \ {g}
  /\ AfterSpec(g)
  /\ UNCHANGED <<proc, chan, handler, loop, mutex, cancelled, mutated, open,
                 server>>

\* One turn of the repeat loop: multiply the last spec in place, run it again.
ApplyMultipliers(g) ==
  /\ Worker(g, "repeat")
  /\ mutated' = mutated \cup {g}
  /\ Goto(g, "start")
  /\ UNCHANGED <<proc, chan, handler, loop, mutex, cancelled, wspec, engine,
                 open, server>>

\* Mutant of ClearCollector: SetCollector(nil) is forgotten.
KeepCollector(g) ==
  /\ Worker(g, "clearCollector")
  /\ Goto(g, "clearConfig")
  /\ UNCHANGED <<proc, chan, handler, loop, mutex, cancelled, wspec, engine,
                 mutated, open, server>>

\* Mutant of ClearCollector: the deferred calls run in the other order, the
\* mutex is unlocked before the tear-down.
UnlockBeforeTearDown(g) ==
  /\ Worker(g, "clearCollector")
  /\ srvCollector' = None
  /\ mutex' = FALSE
  /\ Goto(g, "clearConfig")
  /\ UNCHANGED <<proc, chan, handler, loop, cancelled, wspec, engine, mutated,
                 open, srvConfig>>

ClearCollector(g) ==
  /\ Worker(g, "clearCollector")
  /\ srvCollector' = None
  /\ Goto(g, "clearConfig")
  /\ UNCHANGED <<proc, chan, handler, loop, mutex, cancelled, wspec, engine,
                 mutated, open, srvConfig>>

\* Mutant of ClearConfig: the tear-down trusts processConfig to stop the engine.
ClearConfigSkipsStop(g) ==
  /\ Worker(g, "clearConfig")
  /\ srvConfig' = None
  /\ Goto(g, "close")
  /\ UNCHANGED <<proc, chan, handler, loop, mutex, cancelled, wspec, engine,
                 mutated, open, srvCollector>>

\* Mutant of ClearConfig: SetConfig(nil) is forgotten.
KeepConfig(g) ==
  /\ Worker(g, "clearConfig")
  /\ Goto(g, "finalStop")
  /\ UNCHANGED <<proc, chan, handler, loop, mutex, cancelled, wspec, engine,
                 mutated, open, server>>

ClearConfig(g) ==
  /\ Worker(g, "clearConfig")
  /\ srvConfig' = None
  /\ Goto(g, "finalStop")
  /\ UNCHANGED <<proc, chan, handler, loop, mutex, cancelled, wspec, engine,
                 mutated, open, srvCollector>>

FinalStop(g) ==
  /\ Worker(g, "finalStop")
  /\ engine' = engine \ {g}
  /\ Goto(g, "close")
  /\ UNCHANGED <<proc, chan, handler, loop, mutex, cancelled, wspec, mutated,
                 open, server>>

CloseStorage(g) ==
  /\ Worker(g, "close")
  /\ open' = open \ {g}
  /\ Goto(g, "unlock")
  /\ UNCHANGED <<proc, chan, handler, loop, mutex, cancelled, wspec, engine,
                 mutated, server>>

Unlock(g) ==
  /\ Worker(g, "unlock")
  /\ mutex' = FALSE
  /\ Goto(g, "gone")
  /\ UNCHANGED <<proc, chan, handler, loop, cancelled, wspec, engine, mutated,
                 open, server>>

WorkerStep(g) ==
  \/ StartOk(g) \/ StartFails(g) \/ CtxDone(g) \/ TimerFires(g)
  \/ StopEngine(g) \/ ApplyMultipliers(g) \/ ClearCollector(g)
  \/ ClearConfig(g) \/ FinalStop(g) \/ CloseStorage(g) \/ Unlock(g)

-----------------------------------------------------------------------------
Handler(r) == PostConfig(r) \/ Compare(r) \/ Enqueue(r) \/ Reject(r)

Next ==
  \/ NoDefaultConfig \/ Signal \/ Exit
  \/ \E r \in Requests : LoadDefaultConfig(r) \/ Handler(r) \/ WorkerStep(r)
  \/ Loop

Spec == Init /\ [][Next]_vars

(* Goroutines that can run do run; a select with several ready cases picks  *)
(* each of them sooner or later (strong fairness of CtxDone: the timer of   *)
(* a spec may be ready as often as the context).  Callers and signals owe   *)
(* nothing.                                                                 *)
Fairness ==
  /\ WF_vars(Loop)
  /\ \A g \in Requests : WF_vars(WorkerStep(g)) /\ SF_vars(CtxDone(g))

FairSpec == Spec /\ Fairness
-----------------------------------------------------------------------------
(* Safety.                                                                 *)

\* Two configurations may name the same storage path, so a storage is opened
\* only after the previous one is closed (manager.go: the mutex that the loop
\* locks and the worker's deferred Unlock releases, after storage.Close).
OneStorageOpen == \A g, h \in open : g = h

\* A started engine writes its statistics to a storage that is open: every
\* way out of processConfig stops the engine before storage.Close.
EngineHasStorage == engine \subseteq open

\* A collector that the HTTP server hands to /stats readers writes to an open
\* storage and belongs to the configuration the server shows.
ServedIsConsistent ==
  srvCollector # None => srvCollector \in open /\ srvConfig = srvCollector

InSpecs == {"start", "running", "stopEngine", "repeat"}

\* While a worker runs its specs the server shows its configuration and its
\* collector: the previous worker's SetCollector(nil) and SetConfig(nil) can
\* never wipe what the loop published for the next one.
RunningIsServed ==
  \A g \in Requests :
    wpc[g] \in InSpecs => srvConfig = g /\ srvCollector = g

\* When the loop waits for the mutex, the worker it waits for was told to
\* stop: lastConfigCancel is the cancel function of the live worker.
WaitsOnlyForCancelled ==
  mpc = "lock" => \A g \in Requests : Live(g) => g \in cancelled

-----------------------------------------------------------------------------
(* Refinement: the channel and the loop's local variable are the queue of   *)
(* accepted configurations, a configuration is in force from the moment the *)
(* drain ends until its worker has unlocked the mutex.                      *)

Pending == IF mpc \in {"lock", "drain"} THEN <<mcfg>> \o chan ELSE chan

Active ==
  IF mpc \in {"publish", "create", "spawn"} THEN mcfg
  ELSE IF \E g \in Requests : Live(g) THEN CHOOSE g \in Requests : Live(g)
  ELSE None

Abstract == INSTANCE HotReload WITH pending <- Pending, active <- Active

\* Accepted configurations are put in force newest first, one at a time, and
\* none is dropped unless a newer one waits (Manager.run's drain loop).
HotReloadSpec == Abstract!HSpec

-----------------------------------------------------------------------------
(* Liveness and what the handler answers.                                  *)

IsPending(r) ==
  \/ \E i \in DOMAIN chan : chan[i] = r
  \/ mcfg = r /\ mpc \in {"lock", "drain"}

\* Every accepted configuration is eventually put in force or superseded by a
\* newer one, however long the one in force would still run.
AcceptedIsHandled ==
  \A r \in Requests : IsPending(r) ~> (~IsPending(r) \/ proc # "up")

\* /healthcheck stops reporting a configuration as loaded once its worker is
\* gone, whatever the loop published meanwhile (one that never got a worker,
\* because its storage could not be opened, stays).
EndedIsUnloaded == \A g \in Requests : wpc[g] = "gone" => srvConfig # g
=============================================================================
