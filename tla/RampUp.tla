-------------------------------- MODULE RampUp --------------------------------
(***************************************************************************)
(* The publishers of one spec and the ramp-up goroutine that drives them.  *)
(* engine.Start starts a goroutine per publisher and then the ramp-up; they *)
(* share only Publisher.currentRate, an atomic: the publisher stores 1 when *)
(* it starts and reads the rate at each tick of its ticker, the ramp-up     *)
(* stores the rate of the moment and, at the end, the target rate.          *)
(***************************************************************************)
EXTENDS Naturals, FiniteSetsExt

CONSTANTS NumPubs,       \* publishers, in the order of the slice
          Target,        \* Target[p]: publish_rate_per_second
          RampUpZero,    \* whether ramp_up_seconds = 0: the cases to consider
          Elapses        \* instants the clock shows, in percent of the ramp-up

Pubs == 1..NumPubs

ASSUME RampUpAssumption ==
  /\ NumPubs \in Nat \ {0}
  /\ Target \in [Pubs -> Nat \ {0}]
  /\ Elapses \subseteq Nat
  /\ RampUpZero \subseteq BOOLEAN

VARIABLES
  cancelled,   \* the context of the errgroup is cancelled
  ppc,         \* ppc[p]: control point of Publisher.Start
  rate,        \* rate[p]: currentRate
  tick,        \* tick[p]: the rate p's ticker is set to, 0 before it exists
  lastRate,    \* lastRate[p]
  rpc,         \* control point of RampUpManager.Start
  next,        \* the publisher the loop over the slice is at
  elapsed,     \* time.Since(rampUpStart)
  progress,    \* the progress this turn works with, in percent
  status       \* Collector.rampUpStats

publisher == <<ppc, tick, lastRate>>
ramp == <<rpc, next, elapsed, progress, status>>
vars == <<cancelled, publisher, rate, ramp>>

PubSteps == {"store", "ticker", "last", "loop", "stopped", "failed"}
RampSteps == {"begin", "select", "update", "full", "done", "aborted"}

TypeOK ==
  /\ cancelled \in BOOLEAN
  /\ ppc \in [Pubs -> PubSteps]
  /\ rate \in [Pubs -> Nat]
  /\ tick \in [Pubs -> Nat]
  /\ lastRate \in [Pubs -> Nat]
  /\ \A p \in Pubs : {rate[p], tick[p], lastRate[p]} \subseteq 0..Target[p]
  /\ rpc \in RampSteps
  /\ next \in 1..(NumPubs + 1)
  /\ elapsed \in Elapses \cup {0}
  /\ progress \in 1..100
  /\ status \in [active : BOOLEAN, progress : 0..100]

Init ==
  /\ cancelled = FALSE
  /\ ppc = [p \in Pubs |-> "store"]
  /\ rate = [p \in Pubs |-> 0]
  /\ tick = [p \in Pubs |-> 0]
  /\ lastRate = [p \in Pubs |-> 0]
  /\ rpc = "begin" /\ next = 1 /\ elapsed = 0 /\ progress = 1
  /\ status = [active |-> FALSE, progress |-> 0]

\* engine.Stop, or the manager, cancels the context.
Cancel ==
  /\ ~cancelled
  /\ cancelled' = TRUE
  /\ UNCHANGED <<publisher, rate, ramp>>

-----------------------------------------------------------------------------
(* Publisher.Start.                                                        *)

\* Mutant of StoreOne: the start rate is left to the ramp-up.
SkipStoreOne(p) ==
  /\ ppc[p] = "store"
  /\ ppc' = [ppc EXCEPT ![p] = "ticker"]
  /\ UNCHANGED <<cancelled, rate, tick, lastRate, ramp>>

StoreOne(p) ==
  /\ ppc[p] = "store"
  /\ rate' = [rate EXCEPT ![p] = 1]
  /\ ppc' = [ppc EXCEPT ![p] = "ticker"]
  /\ UNCHANGED <<cancelled, tick, lastRate, ramp>>

\* calculatePublishInterval fails on a rate that is not positive; the error
\* makes the errgroup cancel everyone's context.
MakeTicker(p) ==
  /\ ppc[p] = "ticker"
  /\ IF rate[p] > 0
       THEN /\ tick' = [tick EXCEPT ![p] = rate[p]]
            /\ ppc' = [ppc EXCEPT ![p] = "last"]
            /\ UNCHANGED cancelled
       ELSE /\ cancelled' = TRUE
            /\ ppc' = [ppc EXCEPT ![p] = "failed"]
            /\ UNCHANGED tick
  /\ UNCHANGED <<rate, lastRate, ramp>>

ReadLast(p) ==
  /\ ppc[p] = "last"
  /\ lastRate' = [lastRate EXCEPT ![p] = rate[p]]
  /\ ppc' = [ppc EXCEPT ![p] = "loop"]
  /\ UNCHANGED <<cancelled, rate, tick, ramp>>

\* Mutant of Tick: the new rate is noted and the ticker is not reset.
TickForgetsReset(p) ==
  /\ ppc[p] = "loop"
  /\ rate[p] # lastRate[p]
  /\ lastRate' = [lastRate EXCEPT ![p] = rate[p]]
  /\ UNCHANGED <<cancelled, ppc, rate, tick, ramp>>

\* A tick publishes a burst and follows a changed rate (updateTicker refuses
\* one that is not positive).
Tick(p) ==
  /\ ppc[p] = "loop"
  /\ rate[p] # lastRate[p]
  /\ lastRate' = [lastRate EXCEPT ![p] = rate[p]]
  /\ tick' = IF rate[p] > 0 THEN [tick EXCEPT ![p] = rate[p]] ELSE tick
  /\ UNCHANGED <<cancelled, ppc, rate, ramp>>

\* Mutant of PubStops: the select has no ctx.Done() case.
NeverStops(p) == FALSE /\ UNCHANGED vars

PubStops(p) ==
  /\ ppc[p] = "loop"
  /\ cancelled
  /\ ppc' = [ppc EXCEPT ![p] = "stopped"]
  /\ UNCHANGED <<cancelled, rate, tick, lastRate, ramp>>

PubStep(p) ==
  StoreOne(p) \/ MakeTicker(p) \/ ReadLast(p) \/ Tick(p) \/ PubStops(p)

-----------------------------------------------------------------------------
(* RampUpManager.Start.                                                    *)

\* SetRate keeps what it stores between 1 and the target.
SetRate(p, r) == rate' = [rate EXCEPT ![p] = Min({Max({r, 1}), Target[p]})]

\* Mutant of Progress: a late ticker counts past the end.
ProgressUncapped(e) == Max({1, e})

\* currentProgress(), in percent.
Progress(e) == Max({1, Min({e, 100})})

\* Mutant of RateAt: the share that is left instead of the share reached.
RateLeft(p, pct) == Max({1, Min({Target[p], ((100 - pct) * Target[p]) \div 100})})

\* updatePublisherRates
RateAt(p, pct) == Max({1, Min({Target[p], (pct * Target[p]) \div 100})})

Begin ==
  /\ rpc = "begin"
  /\ \E zero \in RampUpZero :
       IF zero
         THEN rpc' = "full" /\ UNCHANGED status
         ELSE rpc' = "select" /\ status' = [active |-> TRUE, progress |-> 1]
  /\ UNCHANGED <<cancelled, publisher, rate, next, elapsed, progress>>

\* The timers of a ramp-up fire a second or more after its start; by then
\* every publisher has entered its loop.
TimersMayFire == \A p \in Pubs : ppc[p] \notin {"store", "ticker", "last"}

RampTicker ==
  /\ rpc = "select"
  /\ TimersMayFire
  /\ \E e \in Elapses :
       /\ e >= elapsed
       /\ elapsed' = e
       /\ progress' = Progress(e)
  /\ rpc' = "update" /\ next' = 1
  /\ UNCHANGED <<cancelled, publisher, rate, status>>

UpdateOne ==
  /\ rpc = "update"
  /\ next \in Pubs
  /\ SetRate(next, RateAt(next, progress))
  /\ next' = next + 1
  /\ UNCHANGED <<cancelled, publisher, rpc, elapsed, progress, status>>

UpdateDone ==
  /\ rpc = "update"
  /\ next = NumPubs + 1
  /\ status' = [active |-> TRUE, progress |-> progress]
  /\ rpc' = "select" /\ next' = 1
  /\ UNCHANGED <<cancelled, publisher, rate, elapsed, progress>>

\* Mutant of RampTimer: the loop over the slice starts at its second element.
RampTimerSkipsFirst ==
  /\ rpc = "select"
  /\ TimersMayFire
  /\ rpc' = "full" /\ next' = 2
  /\ UNCHANGED <<cancelled, publisher, rate, elapsed, progress, status>>

RampTimer ==
  /\ rpc = "select"
  /\ TimersMayFire
  /\ rpc' = "full" /\ next' = 1
  /\ UNCHANGED <<cancelled, publisher, rate, elapsed, progress, status>>

\* setAllPublishersToFullRate
FullOne ==
  /\ rpc = "full"
  /\ next \in Pubs
  /\ SetRate(next, Target[next])
  /\ next' = next + 1
  /\ UNCHANGED <<cancelled, publisher, rpc, elapsed, progress, status>>

FullDone ==
  /\ rpc = "full"
  /\ next = NumPubs + 1
  /\ rpc' = "done"
  /\ status' = [active |-> FALSE, progress |-> IF status.active THEN 100 ELSE 0]
  /\ UNCHANGED <<cancelled, publisher, rate, next, elapsed, progress>>

RampAborts ==
  /\ rpc = "select"
  /\ cancelled
  /\ rpc' = "aborted"
  /\ UNCHANGED <<cancelled, publisher, rate, next, elapsed, progress, status>>

RampStep == \/ Begin \/ RampTicker \/ UpdateOne \/ UpdateDone \/ RampTimer
            \/ FullOne \/ FullDone \/ RampAborts

-----------------------------------------------------------------------------
Next == Cancel \/ (\E p \in Pubs : PubStep(p)) \/ RampStep

Spec == Init /\ [][Next]_vars

(* Goroutines run; a select that finds several cases ready again and again  *)
(* takes each of them sooner or later.                                      *)
Fairness ==
  /\ \A p \in Pubs : WF_vars(PubStep(p)) /\ SF_vars(PubStops(p))
  /\ WF_vars(RampStep) /\ SF_vars(RampTimer)

FairSpec == Spec /\ Fairness

-----------------------------------------------------------------------------
(* Properties.                                                             *)

\* No publisher of a valid spec gives up because it saw a rate of zero,
\* whichever of it and the ramp-up runs first (publisher.go: Store(1) comes
\* before calculatePublishInterval).
NoPublisherFails == \A p \in Pubs : ppc[p] # "failed"

\* "Gradual rate increase": the rate a publisher's ticker runs at never drops.
MonotoneRamp ==
  [][\A p \in Pubs : tick'[p] >= tick[p]]_vars

\* There is, or was, a ramp-up.
Gradual == status.progress > 0

AllAtTarget == \A p \in Pubs : rate[p] = Target[p]

\* Once a ramp-up is complete every publisher's rate is its target: the last
\* SetRate of each came from the timer, not from a late ticker.
RampUpReachesTarget == rpc = "done" /\ Gradual => AllAtTarget

\* The same without a ramp-up: "No ramp-up configured, starting at full rate".
FullRateReached == rpc = "done" => AllAtTarget

\* Left alone, every publisher of a ramp-up ends up ticking at its target.
EventuallyFullRate ==
  Gradual ~> [](cancelled \/ \A p \in Pubs : tick[p] = Target[p])

\* Once the context is cancelled every goroutine of the group ends, so that
\* engine.Stop gets past errGroup.Wait.
StopReturns ==
  cancelled ~> /\ rpc \in {"done", "aborted"}
               /\ \A p \in Pubs : ppc[p] \in {"stopped", "failed"}
=============================================================================
