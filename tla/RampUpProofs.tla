----------------------------- MODULE RampUpProofs -----------------------------
(***************************************************************************)
(* Safety of the publishers' rates for every number of publishers, every   *)
(* target and every clock.  The heart is that a rate, once its publisher   *)
(* has stored its 1, only grows: the share of the target that a later turn *)
(* of the ramp-up computes is never smaller, and is capped by the target.  *)
(***************************************************************************)
EXTENDS RampUp, TLAPS

\* Every publisher is past its Store(1) and its first ticker.
Entered == \A p \in Pubs : ppc[p] \notin {"store", "ticker", "last"}

\* A ticker runs at a rate its publisher has seen, never above the present one.
PubInv ==
  \A p \in Pubs :
    /\ ppc[p] # "failed"
    /\ ppc[p] \in {"store", "ticker"} => tick[p] = 0
    /\ ppc[p] # "store" => rate[p] >= 1
    /\ tick[p] <= rate[p]

\* The status tells a ramp-up from none, until the ramp-up is over.
StatusInv ==
  /\ rpc = "begin" => ~Gradual
  /\ rpc \in {"select", "update"} => Gradual
  /\ rpc # "done" => (status.active <=> Gradual)
  /\ rpc \in {"update", "full", "done"} /\ Gradual => Entered

\* How far the rates may have come, and in "full" have to have come.
RateInv ==
  /\ progress = Progress(elapsed)
  /\ rpc \in {"begin", "select", "update"} =>
       \A p \in Pubs : rate[p] <= RateAt(p, progress)
  /\ rpc = "full" /\ Gradual =>
       \A p \in Pubs : p < next => rate[p] = Target[p]
  /\ RampUpReachesTarget

IInv == TypeOK /\ PubInv /\ StatusInv /\ RateInv

-----------------------------------------------------------------------------
(* The arithmetic of rates.                                                *)

\* The larger of two numbers.
LEMMA MaxOfTwo ==
  ASSUME NEW a \in Int, NEW b \in Int
  PROVE  Max({a, b}) = IF a >= b THEN a ELSE b
<1>1. \E x \in {a, b} : \A y \in {a, b} : x >= y
  OBVIOUS
<1>2. Max({a, b}) \in {a, b} /\ \A y \in {a, b} : Max({a, b}) >= y
  BY <1>1 DEF Max
<1> QED
  BY <1>2

\* The smaller of two numbers.
LEMMA MinOfTwo ==
  ASSUME NEW a \in Int, NEW b \in Int
  PROVE  Min({a, b}) = IF a <= b THEN a ELSE b
<1>1. \E x \in {a, b} : \A y \in {a, b} : x =< y
  OBVIOUS
<1>2. Min({a, b}) \in {a, b} /\ \A y \in {a, b} : Min({a, b}) =< y
  BY <1>1 DEF Min
<1> QED
  BY <1>2

\* currentProgress() without Max and Min.
LEMMA ProgressIs ==
  ASSUME NEW e \in Nat
  PROVE  Progress(e) = IF e < 1 THEN 1 ELSE IF e <= 100 THEN e ELSE 100
<1>1. Min({e, 100}) = IF e <= 100 THEN e ELSE 100
  BY MinOfTwo
<1>2. Min({e, 100}) \in Int
  BY <1>1
<1>3. Max({1, Min({e, 100})}) = IF 1 >= Min({e, 100}) THEN 1 ELSE Min({e, 100})
  BY <1>2, MaxOfTwo
<1> QED
  BY <1>1, <1>3 DEF Progress

\* The share of a target grows with the progress.
LEMMA ShareGrows ==
  ASSUME NEW t \in Nat, NEW a \in Nat, NEW b \in Nat, a <= b
  PROVE  /\ (a * t) \div 100 \in Nat
         /\ (b * t) \div 100 \in Nat
         /\ (a * t) \div 100 <= (b * t) \div 100
<1>1. a * t \in Nat /\ b * t \in Nat
  OBVIOUS
<1>2. a * t <= b * t
  OBVIOUS
<1>3. \A x, y \in Nat : x <= y => /\ x \div 100 \in Nat /\ y \div 100 \in Nat
                                  /\ x \div 100 <= y \div 100
  OBVIOUS
<1> QED
  BY <1>1, <1>2, <1>3

\* updatePublisherRates computes the share, kept between 1 and the target.
LEMMA RateAtIs ==
  ASSUME NEW p \in Pubs, NEW c \in Nat
  PROVE  RateAt(p, c) = LET share == (c * Target[p]) \div 100
                        IN  IF share < 1 THEN 1
                            ELSE IF share <= Target[p] THEN share
                            ELSE Target[p]
<1> DEFINE share == (c * Target[p]) \div 100
<1>1. Target[p] \in Nat \ {0}
  BY RampUpAssumption
<1>2. share \in Nat
  BY <1>1, ShareGrows
<1> HIDE DEF share
<1>3. Min({Target[p], share}) = IF Target[p] <= share THEN Target[p] ELSE share
  BY <1>1, <1>2, MinOfTwo
<1>4. Min({Target[p], share}) \in Int
  BY <1>1, <1>2, <1>3
<1>5. Max({1, Min({Target[p], share})}) =
        IF 1 >= Min({Target[p], share}) THEN 1 ELSE Min({Target[p], share})
  BY <1>4, MaxOfTwo
<1>6. RateAt(p, c) = Max({1, Min({Target[p], share})})
  BY DEF RateAt, share
<1>7. RateAt(p, c) = IF share < 1 THEN 1
                     ELSE IF share <= Target[p] THEN share ELSE Target[p]
  BY <1>1, <1>2, <1>3, <1>5, <1>6
<1> QED
  BY <1>7 DEF share

\* A later turn of the ramp-up never lowers a rate.
LEMMA RateGrows ==
  ASSUME NEW p \in Pubs, NEW a \in Nat, NEW b \in Nat, a <= b
  PROVE  /\ RateAt(p, a) \in 1..Target[p]
         /\ RateAt(p, a) <= RateAt(p, b)
<1> DEFINE s(c) == (c * Target[p]) \div 100
<1>1. Target[p] \in Nat \ {0}
  BY RampUpAssumption
<1>2. s(a) \in Nat /\ s(b) \in Nat /\ s(a) <= s(b)
  BY <1>1, ShareGrows
<1>3. /\ RateAt(p, a) = IF s(a) < 1 THEN 1
                        ELSE IF s(a) <= Target[p] THEN s(a) ELSE Target[p]
      /\ RateAt(p, b) = IF s(b) < 1 THEN 1
                        ELSE IF s(b) <= Target[p] THEN s(b) ELSE Target[p]
  BY RateAtIs
<1> HIDE DEF s
<1> QED
  BY <1>1, <1>2, <1>3

\* SetRate stores a rate that is in range as it is.
LEMMA SetRateIs ==
  ASSUME NEW p \in Pubs, NEW r \in 1..Target[p], SetRate(p, r)
  PROVE  rate' = [rate EXCEPT ![p] = r]
<1>1. Target[p] \in Nat \ {0}
  BY RampUpAssumption
<1>2. Max({r, 1}) = r
  BY <1>1, MaxOfTwo
<1>3. Min({r, Target[p]}) = r
  BY <1>1, MinOfTwo
<1> QED
  BY <1>2, <1>3 DEF SetRate

-----------------------------------------------------------------------------
(* IInv is inductive.                                                      *)

\* Nobody has stored a rate; the ramp-up would begin at one percent.
LEMMA InitIInv == Init => IInv
<1> SUFFICES ASSUME Init PROVE IInv
  OBVIOUS
<1> USE RampUpAssumption DEF Init
<1>1. TypeOK
  <2>1. /\ ppc \in [Pubs -> PubSteps]
        /\ rate \in [Pubs -> Nat] /\ tick \in [Pubs -> Nat]
        /\ lastRate \in [Pubs -> Nat]
    BY DEF PubSteps
  <2>2. \A p \in Pubs : {rate[p], tick[p], lastRate[p]} \subseteq 0..Target[p]
    OBVIOUS
  <2>3. rpc \in RampSteps /\ next \in 1..(NumPubs + 1) /\ progress \in 1..100
    BY DEF RampSteps
  <2>4. status \in [active : BOOLEAN, progress : 0..100]
    OBVIOUS
  <2> QED
    BY <2>1, <2>2, <2>3, <2>4 DEF TypeOK
<1>2. PubInv
  BY DEF PubInv
<1>3. StatusInv
  BY DEF StatusInv, Gradual
<1>4. progress = Progress(elapsed)
  BY ProgressIs
<1>5. \A p \in Pubs : rate[p] <= RateAt(p, progress)
  <2> TAKE p \in Pubs
  <2>1. RateAt(p, 1) \in 1..Target[p]
    BY RateGrows
  <2> QED
    BY <2>1
<1> QED
  BY <1>1, <1>2, <1>3, <1>4, <1>5 DEF IInv, RateInv, RampUpReachesTarget

\* A publisher's step keeps IInv: it stores its 1 only while no timer of a
\* ramp-up has fired, so it never undoes what the ramp-up has set.
LEMMA PubKeepsIInv ==
  ASSUME IInv, NEW p \in Pubs, PubStep(p)
  PROVE  IInv'
<1> USE RampUpAssumption DEF IInv, TypeOK, ramp, publisher
<1>1. CASE StoreOne(p)
  <2> USE <1>1 DEF StoreOne
  <2>1. rate[p] \in Nat /\ Target[p] \in Nat \ {0} /\ ~(rpc = "update")
          /\ (rpc \in {"full", "done"} => ~Gradual)
    BY DEF StatusInv, Entered, Gradual
  <2>2. TypeOK'
    BY <2>1 DEF PubSteps
  <2>3. PubInv'
    BY <2>1 DEF PubInv
  <2>4. StatusInv'
    BY <2>1 DEF StatusInv, Gradual, Entered
  <2>5. progress \in Nat /\ RateAt(p, progress) \in 1..Target[p]
    BY RateGrows
  <2>6. \A q \in Pubs : rate[q] <= RateAt(q, progress) =>
                           rate'[q] <= RateAt(q, progress)
    BY <2>5
  <2>7. progress' = Progress(elapsed') /\ progress' = progress
    BY DEF RateInv
  <2>8. rpc \in {"begin", "select", "update"} =>
          \A q \in Pubs : rate'[q] <= RateAt(q, progress')
    BY <2>6, <2>7 DEF RateInv
  <2>9. RateInv'
    BY <2>1, <2>7, <2>8 DEF RateInv, RampUpReachesTarget, Gradual
  <2> QED
    BY <2>2, <2>3, <2>4, <2>9
<1>2. CASE MakeTicker(p) \/ ReadLast(p) \/ Tick(p) \/ PubStops(p)
  <2>1. rate' = rate /\ ramp' = ramp /\ Target[p] \in Nat \ {0}
    BY <1>2 DEF MakeTicker, ReadLast, Tick, PubStops
  <2>2. TypeOK'
    <3>1. CASE MakeTicker(p)
      <4>1. rate[p] \in 1..Target[p]
        BY <3>1 DEF MakeTicker, PubInv
      <4>2. /\ tick' = [tick EXCEPT ![p] = rate[p]]
            /\ ppc' = [ppc EXCEPT ![p] = "last"]
            /\ UNCHANGED <<cancelled, rate, lastRate, rpc, next, elapsed,
                           progress, status>>
        BY <3>1, <4>1 DEF MakeTicker
      <4> QED
        BY <2>1, <4>1, <4>2 DEF PubSteps
    <3>2. CASE ReadLast(p)
      BY <2>1, <3>2 DEF ReadLast, PubSteps
    <3>3. CASE Tick(p)
      <4>1. /\ rate[p] \in 0..Target[p]
            /\ UNCHANGED <<cancelled, ppc, rate, rpc, next, elapsed, progress,
                           status>>
        BY <3>3 DEF Tick
      <4>2. lastRate' = [lastRate EXCEPT ![p] = rate[p]]
        BY <3>3 DEF Tick
      <4>3. tick' = [tick EXCEPT ![p] = rate[p]] \/ tick' = tick
        BY <3>3 DEF Tick
      <4>4. /\ lastRate' \in [Pubs -> Nat] /\ tick' \in [Pubs -> Nat]
            /\ \A q \in Pubs : {tick'[q], lastRate'[q]} \subseteq 0..Target[q]
        BY <2>1, <4>1, <4>2, <4>3
      <4> QED
        BY <4>1, <4>4
    <3>4. CASE PubStops(p)
      BY <2>1, <3>4 DEF PubStops, PubSteps
    <3> QED
      BY <1>2, <3>1, <3>2, <3>3, <3>4
  <2>3. PubInv'
    BY <1>2, <2>1 DEF MakeTicker, ReadLast, Tick, PubStops, PubInv
  <2>4. StatusInv'
    BY <1>2, <2>1 DEF MakeTicker, ReadLast, Tick, PubStops, StatusInv, Gradual,
                      Entered
  <2>5. RateInv'
    BY <2>1 DEF RateInv, RampUpReachesTarget, AllAtTarget, Gradual, RateAt,
                Progress
  <2> QED
    BY <2>2, <2>3, <2>4, <2>5
<1> QED
  BY <1>1, <1>2 DEF PubStep

\* The ramp-up's step keeps IInv: its rates grow with the progress, which
\* grows with the clock.
LEMMA RampKeepsIInv ==
  ASSUME IInv, RampStep
  PROVE  IInv'
<1> USE RampUpAssumption DEF IInv, TypeOK, ramp, publisher
<1>1. CASE Begin
  <2>1. TypeOK'
    <3>1. \/ rpc' = "full" /\ status' = status
          \/ rpc' = "select" /\ status' = [active |-> TRUE, progress |-> 1]
      BY <1>1, Zenon DEF Begin
    <3>2. [active |-> TRUE, progress |-> 1]
            \in [active : BOOLEAN, progress : 0..100]
      OBVIOUS
    <3>3. status' \in [active : BOOLEAN, progress : 0..100]
      BY <3>1, <3>2, Zenon
    <3>4. rpc' \in RampSteps
      BY <3>1 DEF RampSteps
    <3>5. UNCHANGED <<cancelled, ppc, tick, lastRate, rate, next, elapsed,
                      progress>>
      BY <1>1 DEF Begin
    <3> QED
      BY <3>3, <3>4, <3>5
  <2>2. PubInv'
    BY <1>1 DEF Begin, PubInv
  <2>3. StatusInv'
    BY <1>1 DEF Begin, StatusInv, Gradual, Entered
  <2>4. RateInv'
    BY <1>1 DEF Begin, RateInv, RampUpReachesTarget, StatusInv, Gradual,
                AllAtTarget, RateAt, Progress
  <2> QED
    BY <2>1, <2>2, <2>3, <2>4
<1>2. CASE RampTicker
  <2>1. PICK e \in Elapses : /\ e >= elapsed
                             /\ elapsed' = e
                             /\ progress' = Progress(e)
    BY <1>2 DEF RampTicker
  <2>2. e \in Nat /\ elapsed \in Nat /\ progress = Progress(elapsed)
    BY DEF RateInv
  <2>3. progress' \in 1..100 /\ progress <= progress'
    BY <2>1, <2>2, ProgressIs
  <2>4. TypeOK'
    BY <1>2, <2>1, <2>3 DEF RampTicker, RampSteps, Pubs
  <2>5. PubInv'
    BY <1>2 DEF RampTicker, PubInv
  <2>6. Gradual /\ StatusInv'
    BY <1>2 DEF RampTicker, StatusInv, Gradual, Entered, TimersMayFire
  <2>7. \A p \in Pubs : rate'[p] <= RateAt(p, progress')
    <3> TAKE p \in Pubs
    <3>1. rate[p] <= RateAt(p, progress)
      BY <1>2 DEF RampTicker, RateInv
    <3>2. /\ RateAt(p, progress) \in 1..Target[p]
          /\ RateAt(p, progress) <= RateAt(p, progress')
          /\ RateAt(p, progress') \in 1..Target[p]
      BY <2>3, RateGrows
    <3> QED
      BY <1>2, <3>1, <3>2 DEF RampTicker
  <2>8. RateInv'
    BY <1>2, <2>1, <2>7 DEF RampTicker, RateInv, RampUpReachesTarget, RateAt,
                            Progress
  <2> QED
    BY <2>4, <2>5, <2>6, <2>8
<1>3. CASE UpdateOne
  <2> USE DEF UpdateOne
  <2>1. /\ next \in Pubs
        /\ RateAt(next, progress) \in 1..Target[next]
        /\ rate[next] <= RateAt(next, progress)
    <3>1. next \in Pubs /\ rpc = "update"
      BY <1>3
    <3> HIDE DEF UpdateOne
    <3>2. rate[next] <= RateAt(next, progress)
      BY <3>1 DEF RateInv
    <3>3. RateAt(next, progress) \in 1..Target[next]
      BY <3>1, RateGrows
    <3> QED
      BY <3>1, <3>2, <3>3
  <2>2. rate' = [rate EXCEPT ![next] = RateAt(next, progress)]
    BY <1>3, <2>1, SetRateIs
  <2> HIDE DEF UpdateOne
  <2>3. /\ rpc = "update" /\ next' = next + 1
        /\ UNCHANGED <<cancelled, publisher, rpc, elapsed, progress, status>>
    BY <1>3 DEF UpdateOne
  <2>4. TypeOK'
    BY <2>1, <2>2, <2>3 DEF Pubs
  <2>5. PubInv'
    BY <2>1, <2>2, <2>3 DEF PubInv
  <2>6. StatusInv'
    BY <2>3 DEF StatusInv, Gradual, Entered
  <2>7. \A p \in Pubs : rate'[p] <= RateAt(p, progress)
    BY <2>1, <2>2, <2>3 DEF RateInv
  <2>8. RateInv'
    BY <2>3, <2>7 DEF RateInv, RampUpReachesTarget, RateAt, Progress
  <2> QED
    BY <2>4, <2>5, <2>6, <2>8
<1>4. CASE UpdateDone
  <2>1. TypeOK'
    BY <1>4 DEF UpdateDone, RampSteps, Pubs
  <2>2. PubInv'
    BY <1>4 DEF UpdateDone, PubInv
  <2>3. StatusInv'
    BY <1>4 DEF UpdateDone, StatusInv, Gradual, Entered
  <2>4. RateInv'
    BY <1>4 DEF UpdateDone, RateInv, RampUpReachesTarget, RateAt, Progress
  <2> QED
    BY <2>1, <2>2, <2>3, <2>4
<1>5. CASE RampTimer
  <2>1. TypeOK'
    BY <1>5 DEF RampTimer, RampSteps, Pubs
  <2>2. PubInv'
    BY <1>5 DEF RampTimer, PubInv
  <2>3. StatusInv'
    BY <1>5 DEF RampTimer, StatusInv, Gradual, Entered, TimersMayFire
  <2>4. RateInv'
    BY <1>5 DEF RampTimer, RateInv, RampUpReachesTarget, RateAt, Progress,
                Gradual, Pubs
  <2> QED
    BY <2>1, <2>2, <2>3, <2>4
<1>6. CASE FullOne
  <2>1. next \in Pubs /\ Target[next] \in 1..Target[next]
    BY <1>6 DEF FullOne
  <2>2. rate' = [rate EXCEPT ![next] = Target[next]]
    BY <1>6, <2>1, SetRateIs DEF FullOne
  <2>3. /\ rpc = "full" /\ next' = next + 1
        /\ UNCHANGED <<cancelled, publisher, rpc, elapsed, progress, status>>
    BY <1>6 DEF FullOne
  <2>4. TypeOK'
    BY <2>1, <2>2, <2>3 DEF Pubs
  <2>5. PubInv'
    BY <2>1, <2>2, <2>3 DEF PubInv
  <2>6. StatusInv'
    BY <2>3 DEF StatusInv, Gradual, Entered
  <2>7. Gradual => \A p \in Pubs : p < next + 1 => rate'[p] = Target[p]
    <3> SUFFICES ASSUME Gradual, NEW p \in Pubs, p < next + 1
                 PROVE  rate'[p] = Target[p]
      OBVIOUS
    <3>1. DOMAIN rate = Pubs
      OBVIOUS
    <3>2. CASE p = next
      BY <2>2, <3>1, <3>2
    <3>3. CASE p # next
      <4>1. p < next
        BY <2>1, <3>3 DEF Pubs
      <4>2. rate[p] = Target[p]
        BY <2>3, <4>1 DEF RateInv
      <4> QED
        BY <2>2, <3>1, <3>3, <4>2
    <3> QED
      BY <3>2, <3>3
  <2>8. RateInv'
    BY <2>3, <2>7 DEF RateInv, RampUpReachesTarget, Gradual, Progress
  <2> QED
    BY <2>4, <2>5, <2>6, <2>8
<1>7. CASE FullDone
  <2>1. TypeOK'
    BY <1>7 DEF FullDone, RampSteps
  <2>2. PubInv'
    BY <1>7 DEF FullDone, PubInv
  <2>3. Gradual' => Gradual
    BY <1>7 DEF FullDone, StatusInv, Gradual
  <2>4. StatusInv'
    BY <1>7, <2>3 DEF FullDone, StatusInv, Entered
  <2>5. Gradual => AllAtTarget
    BY <1>7 DEF FullDone, RateInv, AllAtTarget, Pubs
  <2>6. RateInv'
    BY <1>7, <2>3, <2>5 DEF FullDone, RateInv, RampUpReachesTarget, AllAtTarget,
                            Progress
  <2> QED
    BY <2>1, <2>2, <2>4, <2>6
<1>8. CASE RampAborts
  <2>1. TypeOK'
    BY <1>8 DEF RampAborts, RampSteps
  <2>2. PubInv'
    BY <1>8 DEF RampAborts, PubInv
  <2>3. StatusInv'
    BY <1>8 DEF RampAborts, StatusInv, Gradual, Entered
  <2>4. RateInv'
    BY <1>8 DEF RampAborts, RateInv, RampUpReachesTarget, Progress
  <2> QED
    BY <2>1, <2>2, <2>3, <2>4
<1> QED
  BY <1>1, <1>2, <1>3, <1>4, <1>5, <1>6, <1>7, <1>8 DEF RampStep

\* Every step keeps IInv.
LEMMA NextIInv == IInv /\ [Next]_vars => IInv'
<1> SUFFICES ASSUME IInv, [Next]_vars PROVE IInv'
  OBVIOUS
<1>1. CASE Cancel \/ UNCHANGED vars
  <2>1. UNCHANGED <<publisher, rate, ramp>> /\ cancelled' \in BOOLEAN
    BY <1>1 DEF Cancel, vars, IInv, TypeOK
  <2> QED
    BY <2>1 DEF IInv, TypeOK, PubInv, StatusInv, RateInv, RampUpReachesTarget,
                AllAtTarget, Gradual, Entered, RateAt, Progress, ramp,
                publisher
<1>2. CASE \E p \in Pubs : PubStep(p)
  BY <1>2, PubKeepsIInv
<1>3. CASE RampStep
  BY <1>3, RampKeepsIInv
<1> QED
  BY <1>1, <1>2, <1>3 DEF Next

-----------------------------------------------------------------------------
\* IInv holds in every reachable state.
THEOREM Invariance == Spec => []IInv
BY InitIInv, NextIInv, PTL DEF Spec

\* Every rate stays between 0 and its publisher's target, the progress
\* between 1 and 100 percent however late a ticker is served.
THEOREM TypeCorrect == Spec => []TypeOK
<1>1. IInv => TypeOK
  BY DEF IInv
<1> QED
  BY <1>1, Invariance, PTL

\* No publisher reads a rate of zero, whoever runs first (Publisher.Start
\* stores 1 before it makes its ticker, SetRate never stores less).
THEOREM PublishersStart == Spec => []NoPublisherFails
<1>1. IInv => NoPublisherFails
  BY DEF IInv, PubInv, NoPublisherFails
<1> QED
  BY <1>1, Invariance, PTL

\* A completed ramp-up leaves every publisher at its target rate: no Store(1)
\* and no late ticker comes after the timer's SetRate.
THEOREM TargetReached == Spec => []RampUpReachesTarget
<1>1. IInv => RampUpReachesTarget
  BY DEF IInv, RateInv
<1> QED
  BY <1>1, Invariance, PTL

\* The rate a publisher's ticker runs at never drops (rampup.go computes
\* growing shares, publisher.go resets the ticker to the rate it reads).
THEOREM RampIsMonotone == Spec => MonotoneRamp
<1>1. IInv /\ [Next]_vars => [\A p \in Pubs : tick'[p] >= tick[p]]_vars
  <2> SUFFICES ASSUME IInv, Next
               PROVE  \A q \in Pubs : tick'[q] >= tick[q]
    BY DEF IInv
  <2> USE DEF IInv, TypeOK, publisher
  <2>1. CASE Cancel \/ RampStep
    <3>1. tick' = tick
      BY <2>1 DEF Cancel, RampStep, Begin, RampTicker, UpdateOne, UpdateDone,
                  RampTimer, FullOne, FullDone, RampAborts
    <3> QED
      BY <3>1
  <2>2. CASE \E p \in Pubs : PubStep(p)
    <3>1. PICK p \in Pubs : PubStep(p)
      BY <2>2
    <3>2. CASE StoreOne(p) \/ ReadLast(p) \/ PubStops(p)
      BY <3>2 DEF StoreOne, ReadLast, PubStops
    <3>3. CASE MakeTicker(p)
      BY <3>3 DEF MakeTicker, PubInv
    <3>4. CASE Tick(p)
      BY <3>4 DEF Tick, PubInv
    <3> QED
      BY <3>1, <3>2, <3>3, <3>4 DEF PubStep
  <2> QED
    BY <2>1, <2>2 DEF Next
<1> QED
  BY <1>1, Invariance, PTL DEF Spec, MonotoneRamp
=============================================================================
