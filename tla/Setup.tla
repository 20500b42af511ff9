-------------------------------- MODULE Setup --------------------------------
(***************************************************************************)
(* What a specification sets up on the server and takes down again, and    *)
(* how it grows when the worker repeats it.  SetupStreams deletes and adds *)
(* one stream after the other, CreateConsumers starts all consumers at     *)
(* once; each call is retried by exponentialBackoff, which looks at the    *)
(* context before a call and while it waits.  A call may fail although the *)
(* server did what was asked.  Connections, the errgroup and the other     *)
(* goroutines are the matter of Engine, and what else records errors that  *)
(* of Collector.                                                           *)
(***************************************************************************)
EXTENDS Config

CONSTANTS Candidates,  \* [config, mode, saturates]: configurations that may
                       \* be posted, the program's mode and the platform's
                       \* conversion of floats
          Steps,       \* attempts of exponentialBackoff
          Second,      \* time.Second in units of the clock
          MaxIter      \* bound on repetitions

\* The types of LoadTestSpec, StreamSpec and RepeatPolicy, as far as the code
\* computes with their fields.
SpecFields == {"name", "url", "clientPrefix", "jetStream", "streams",
               "publisherPrefix", "consumerPrefix", "durablePrefix",
               "consumerType", "ackPolicy", "burst", "pattern", "maxLines",
               "num"}
StreamFields == {"prefix", "subjects", "num", "retention", "storage",
                 "discard", "maxAge", "discardNewPerSubject", "limit"}

IsSpec(t) ==
  /\ SpecFields \subseteq DOMAIN t
  /\ t.num \in [SpecNumbers -> IntRange] /\ t.maxLines \in IntRange
  /\ t.streams \in Seq(ToSet(t.streams))
  /\ \A s \in ToSet(t.streams) :
       StreamFields \subseteq DOMAIN s /\ s.num \in [StreamNumbers -> IntRange]

Fractions == [SpecNumbers \cup StreamNumbers -> Int \X (Nat \ {0})]

ASSUME SetupAssumption ==
  /\ Steps \in Nat \ {0} /\ Second \in Nat \ {0} /\ MaxIter \in Nat
  /\ \A c \in Candidates :
       /\ c \in [config : {c.config}, mode : {"publish", "consume", "both"},
                  saturates : BOOLEAN]
       /\ c.config \in [spec : {c.config.spec},
                         policy : [enabled : BOOLEAN, by : Fractions],
                         storage : {c.config.storage}]
       /\ IsSpec(c.config.spec)

VARIABLES
  pc,         \* "start", "delete", "add", "consumers", "running", "cleanup",
              \* "next", "over", "panic", or "errorPanic" in recordError
  given,      \* the accepted configuration, the mode and the platform
  spec,       \* its specification, as multiplied so far
  iter,       \* runs of it that are over
  group, todo,     \* the group of streams, and those of it still to do
  armed, attempt,  \* SetupStreams passed the context check, at this attempt
  consumer,   \* per consumer: <<what it does, attempt>>
  server,     \* the streams: [config, since (the iteration)]
  bound,      \* consumers that exist and are subscribed
  failed,     \* streams whose last deletion by cleanup failed
  cancelled,  \* the configuration's context
  late,       \* calls of SetupStreams after the cancellation
  returns,    \* processConfig returns after this run
  wrapped     \* a product did not fit

progress == <<group, todo, armed, attempt, consumer, returns>>
vars == <<pc, given, spec, iter, progress, server, bound, failed, cancelled,
          late, wrapped>>

Names == {s.config.name : s \in server}

TypeOK ==
  /\ pc \in {"start", "delete", "add", "consumers", "running", "cleanup",
             "next", "over", "panic", "errorPanic"}
  /\ iter \in 0..MaxIter
  /\ attempt \in 1..Steps
  /\ \A k \in DOMAIN consumer :
       consumer[k] \in {"check", "call", "started", "failed"} \X (1..Steps)
  /\ \A f \in SpecNumbers : Fits(spec.num[f])
  /\ \A s \in server : s.since \in 0..iter

\* POST /config: Decode, Validate.
Init ==
  /\ \E c \in Candidates :
       /\ ValidConfig(c.config)
       /\ given = [c EXCEPT !.config = Filled(@)]
  /\ spec = given.config.spec
  /\ pc = "start" /\ iter = 0
  /\ group = 1 /\ todo = <<>> /\ armed = FALSE /\ attempt = 1
  /\ consumer = <<>>
  /\ server = {} /\ bound = {} /\ failed = {}
  /\ cancelled = FALSE /\ late = 0 /\ wrapped = FALSE
  /\ returns = FALSE

Cancel ==
  /\ ~cancelled
  /\ cancelled' = TRUE
  /\ UNCHANGED <<pc, given, spec, iter, progress, server, bound, failed, late,
                 wrapped>>

PanicAs(kind) ==
  /\ pc' = kind
  /\ UNCHANGED <<given, spec, iter, progress, server, bound, failed,
                 cancelled, late, wrapped>>

Panic == PanicAs("panic")

-----------------------------------------------------------------------------
(* The server, as the code uses it.                                        *)

\* AddStream: the same configuration again is no error.
Accepts(c) ==
  /\ c.discardNewPerSubject => c.discard = "new"
  /\ \A s \in server : s.config # c =>
       s.config.name # c.name /\ s.config.subjects \cap c.subjects = {}

Without(name) == {s \in server : s.config.name # name}

With(c) == IF c.name \in Names THEN server
                               ELSE server \cup {[config |-> c, since |-> iter]}

-----------------------------------------------------------------------------
(* SetupStreams.                                                           *)

\* The streams of the next group, or the end of the loop.
NextGroup ==
  /\ pc = "start" /\ spec.jetStream
  /\ group <= Len(spec.streams)
  /\ IF Nameable(spec.streams[group])
       THEN /\ todo' = OfGroup(spec.streams[group])
            /\ group' = group + 1
            /\ pc' = IF todo' = <<>> THEN "start" ELSE "delete"
            /\ UNCHANGED <<returns, given, spec, iter, armed, attempt, consumer, server,
                           bound, failed, cancelled, late, wrapped>>
       ELSE Panic

\* Mutant of PassCheck: the context is not looked at.
PassCheckBlindly ==
  /\ pc \in {"delete", "add"} /\ ~armed
  /\ armed' = TRUE
  /\ UNCHANGED <<pc, returns, given, spec, iter, group, todo, attempt, consumer,
                 server, bound, failed, cancelled, late, wrapped>>

\* exponentialBackoff before a call.
PassCheck ==
  /\ pc \in {"delete", "add"} /\ ~armed
  /\ ~cancelled
  /\ armed' = TRUE
  /\ UNCHANGED <<pc, returns, given, spec, iter, group, todo, attempt, consumer, server,
                 bound, failed, cancelled, late, wrapped>>

\* Start gives up and cleans up what there is.
GiveUp ==
  /\ pc' = "cleanup" /\ group' = 1 /\ todo' = <<>>
  /\ armed' = FALSE /\ attempt' = 1

SetupCancelled ==
  /\ pc \in {"delete", "add"} /\ ~armed
  /\ cancelled
  /\ GiveUp
  /\ UNCHANGED <<returns, given, spec, iter, consumer, server, bound, failed, cancelled,
                 late, wrapped>>

\* Mutant of Retry: the attempts are not counted.
RetryForEver == attempt' = attempt /\ armed' = FALSE /\ UNCHANGED <<pc, group, todo>>

\* A call failed: wait and try again, or fail Start after the last attempt.
Retry ==
  IF attempt < Steps
    THEN attempt' = attempt + 1 /\ armed' = FALSE /\ UNCHANGED <<pc, group, todo>>
    ELSE GiveUp

LateCall == late' = IF cancelled THEN late + 1 ELSE late

\* Mutant of DeleteStream: a stream is not deleted before it is added.
DeleteStreamSkipped ==
  /\ pc = "delete" /\ armed
  /\ pc' = "add" /\ armed' = FALSE /\ attempt' = 1
  /\ UNCHANGED <<returns, given, spec, iter, group, todo, consumer, server, bound,
                 failed, cancelled, late, wrapped>>

\* A stream that is not found counts as deleted.
DeleteStream ==
  /\ pc = "delete" /\ armed
  /\ \/ /\ server' = Without(Head(todo).name)
        /\ failed' = failed \ {Head(todo).name}
        /\ pc' = "add" /\ armed' = FALSE /\ attempt' = 1
        /\ UNCHANGED <<group, todo>>
     \/ /\ server' \in {server, Without(Head(todo).name)}
        /\ Retry
        /\ UNCHANGED failed
  /\ LateCall
  /\ UNCHANGED <<returns, given, spec, iter, consumer, bound, cancelled, wrapped>>

AddStream ==
  /\ pc = "add" /\ armed
  /\ \/ /\ Accepts(Head(todo))
        /\ server' = With(Head(todo))
        /\ todo' = Tail(todo)
        /\ pc' = IF Tail(todo) = <<>> THEN "start" ELSE "delete"
        /\ armed' = FALSE /\ attempt' = 1
        /\ UNCHANGED group
     \/ /\ server' \in {server} \cup
                       (IF Accepts(Head(todo)) THEN {With(Head(todo))} ELSE {})
        /\ Retry
  /\ LateCall
  /\ UNCHANGED <<returns, given, spec, iter, consumer, bound, failed, cancelled,
                 wrapped>>

-----------------------------------------------------------------------------
(* CreatePublishers, CreateConsumers and the run.                          *)

Publishers == IF given.mode = "consume" THEN {}
              ELSE Workers(spec, spec.publisherPrefix, spec.num["publishers"])
Consumers == IF given.mode = "publish" THEN {}
             ELSE Workers(spec, spec.consumerPrefix, spec.num["consumers"])

SetupOver == pc = "start" /\ (spec.jetStream => group > Len(spec.streams))

\* NewPublisher makes a message of the given size.
CreateWorkers ==
  /\ SetupOver
  /\ IF /\ \A g \in DOMAIN spec.streams :
             spec.streams[g].prefix = spec.publisherPrefix
               => Nameable(spec.streams[g])
        /\ Publishers # {} => spec.num["messageSize"] >= 0
       THEN /\ consumer' = [k \in Consumers |-> <<"check", 1>>]
            /\ pc' = "consumers"
            /\ UNCHANGED <<returns, given, spec, iter, group, todo, armed, attempt,
                           server, bound, failed, cancelled, late, wrapped>>
       ELSE Panic

\* AddConsumer finds the stream by its name, Subscribe and PullSubscribe look
\* for one with the subject.
CanBind(k) ==
  spec.jetStream => k[1] \in Names /\ \E s \in server : k[2] \in s.config.subjects

\* The goroutine of consumer k.
Become(k, state) ==
  /\ consumer' = [consumer EXCEPT ![k] = state]
  /\ UNCHANGED <<pc, returns, given, spec, iter, group, todo, armed, attempt, server,
                 failed, cancelled, late, wrapped>>

\* RecordError, then the group fails; it panics without a positive max_lines.
Fail(k) ==
  IF spec.maxLines > 0 THEN Become(k, <<"failed", consumer[k][2]>>) /\ UNCHANGED bound
                       ELSE PanicAs("errorPanic")

\* exponentialBackoff before an attempt.
ConsumerCheck(k) ==
  /\ pc = "consumers" /\ consumer[k][1] = "check"
  /\ \/ ~cancelled /\ Become(k, <<"call", consumer[k][2]>>) /\ UNCHANGED bound
     \/ cancelled /\ Fail(k)

\* Mutant of ConsumerStart: a failing consumer is logged and forgotten.
ConsumerStartLogged(k) ==
  /\ pc = "consumers" /\ consumer[k][1] = "call"
  /\ \/ CanBind(k) /\ bound' = bound \cup {k}
     \/ UNCHANGED bound
  /\ Become(k, <<"started", 1>>)

\* Consumer.Start: the consumer is deleted, added and subscribed to.
ConsumerStart(k) ==
  /\ pc = "consumers" /\ consumer[k][1] = "call"
  /\ \/ /\ CanBind(k)
        /\ bound' = bound \cup {k}
        /\ Become(k, <<"started", 1>>)
     \/ /\ consumer[k][2] < Steps
        /\ Become(k, <<"check", consumer[k][2] + 1>>)
        /\ UNCHANGED bound
     \/ consumer[k][2] = Steps /\ Fail(k)

\* The engine's context may be done: with the configuration's, or because a
\* publisher found a rate below 1 and returned an error to the errgroup.
MayDrain ==
  \/ pc \in {"consumers", "running"} /\ cancelled
  \/ pc = "running" /\ Publishers # {} /\ spec.num["publishRate"] <= 0

\* Then the goroutines of a consumer that has started drain its subscription.
ConsumerDrains(k) ==
  /\ MayDrain
  /\ k \in bound
  /\ bound' = bound \ {k}
  /\ UNCHANGED <<pc, given, spec, iter, progress, server, failed, cancelled, late,
                 wrapped>>

\* consumerStartErrGroup.Wait.
ConsumersDone ==
  /\ pc = "consumers"
  /\ \A k \in DOMAIN consumer : consumer[k][1] \in {"started", "failed"}
  /\ pc' = IF \A k \in DOMAIN consumer : consumer[k][1] = "started"
             THEN "running" ELSE "cleanup"
  /\ group' = 1
  /\ UNCHANGED <<returns, given, spec, iter, todo, armed, attempt, consumer, server,
                 bound, failed, cancelled, late, wrapped>>

\* The publishing interval at a rate: Second / rate, and for the random
\* pattern a factor of 1/2 to 3/2 of it.
Shortest == IF spec.pattern = "random" THEN Second \div 2 ELSE Second

\* ticker.Reset panics at an interval of zero.
TickerPanics ==
  /\ pc = "running" /\ Publishers # {}
  /\ spec.num["publishRate"] > Shortest
  /\ Panic

\* The duration is over, or the configuration is cancelled: then
\* processConfig returns and the engine is stopped by the worker.
RunEnds ==
  /\ pc = "running"
  /\ returns' \in {FALSE, cancelled}
  /\ pc' = "cleanup"
  /\ UNCHANGED <<given, spec, iter, group, todo, armed, attempt, consumer,
                 server, bound, failed, cancelled, late, wrapped>>

-----------------------------------------------------------------------------
(* Cleanup and repetition.                                                 *)

\* Engine.cleanup drains the subscriptions and CleanupStreams goes through
\* the groups.
CleanupGroup ==
  /\ pc = "cleanup" /\ todo = <<>>
  /\ bound' = {} /\ consumer' = <<>>
  /\ IF spec.jetStream /\ group <= Len(spec.streams)
       THEN /\ pc' = IF Nameable(spec.streams[group]) THEN pc ELSE "panic"
            /\ todo' = OfGroup(spec.streams[group])
            /\ group' = group + 1
       ELSE pc' = "next" /\ UNCHANGED <<todo, group>>
  /\ UNCHANGED <<returns, given, spec, iter, armed, attempt, server, failed, cancelled,
                 late, wrapped>>

\* Mutant of CleanupStream: the first error ends the loop over the group.
CleanupStreamStops ==
  /\ pc = "cleanup" /\ todo # <<>>
  /\ \/ /\ server' = Without(Head(todo).name)
        /\ failed' = failed \ {Head(todo).name}
        /\ todo' = Tail(todo)
     \/ /\ failed' = failed \cup {Head(todo).name}
        /\ todo' = <<>>
        /\ UNCHANGED server
  /\ UNCHANGED <<pc, returns, given, spec, iter, group, armed, attempt, consumer, bound,
                 cancelled, late, wrapped>>

\* A deletion that fails is logged.
CleanupStream ==
  /\ pc = "cleanup" /\ todo # <<>>
  /\ todo' = Tail(todo)
  /\ \/ /\ server' = Without(Head(todo).name)
        /\ failed' = failed \ {Head(todo).name}
     \/ /\ server' \in {server, Without(Head(todo).name)}
        /\ failed' = failed \cup {Head(todo).name}
  /\ UNCHANGED <<pc, returns, given, spec, iter, group, armed, attempt, consumer, bound,
                 cancelled, late, wrapped>>

Overflows(t, by) ==
  \/ \E f \in SpecNumbers : ~Fits(Truncated(t.num[f] * by[f][1], by[f][2]))
  \/ \E g \in DOMAIN t.streams, f \in StreamNumbers :
       ~Fits(Truncated(t.streams[g].num[f] * by[f][1], by[f][2]))

\* The repeat loop of processConfig.
Repeat ==
  /\ pc = "next"
  /\ ~returns /\ given.config.policy.enabled /\ iter < MaxIter
  /\ spec' = Multiplied(spec, given.config.policy.by, given.saturates)
  /\ wrapped' = (wrapped \/ Overflows(spec, given.config.policy.by))
  /\ iter' = iter + 1
  /\ pc' = "start" /\ group' = 1
  /\ UNCHANGED <<returns, given, todo, armed, attempt, consumer, server, bound, failed,
                 cancelled, late>>

RepeatOver ==
  /\ pc = "next"
  /\ returns \/ ~given.config.policy.enabled \/ iter = MaxIter
  /\ pc' = "over"
  /\ UNCHANGED <<given, spec, iter, progress, server, bound, failed, cancelled,
                 late, wrapped>>

ConsumerStep == \E k \in DOMAIN consumer : ConsumerCheck(k) \/ ConsumerStart(k)

StartStep ==
  \/ NextGroup \/ PassCheck \/ SetupCancelled \/ DeleteStream \/ AddStream
  \/ CreateWorkers \/ ConsumerStep \/ ConsumersDone

Next ==
  \/ StartStep \/ Cancel \/ \E k \in bound : ConsumerDrains(k)
  \/ TickerPanics \/ RunEnds \/ CleanupGroup \/ CleanupStream
  \/ Repeat \/ RepeatOver

Spec == Init /\ [][Next]_vars

\* Every call returns, in the end: nats.go has a timeout.
FairSpec == Spec /\ WF_vars(StartStep)

-----------------------------------------------------------------------------
(* Properties.                                                             *)

\* Validate accepts two groups of one prefix; their streams have the same
\* names.
DistinctPrefixes ==
  \A g, h \in DOMAIN spec.streams :
    spec.streams[g].prefix = spec.streams[h].prefix => g = h

\* While a specification of distinct prefixes runs, each of its streams exists
\* and was made for this very run, and each of its consumers is subscribed until
\* the engine's context may be done.
ReadyWhenRunning ==
  pc = "running" /\ DistinctPrefixes =>
    /\ spec.jetStream => \A g \in DOMAIN spec.streams :
         \A i \in 1..spec.streams[g].num["count"] :
           [config |-> StreamConfig(spec.streams[g], i), since |-> iter] \in server
    /\ bound \subseteq Consumers /\ (bound = Consumers \/ MayDrain)

\* A run leaves no stream behind but those whose deletion failed, however
\* far it came and whatever the numbers of the runs before.
OnlyFailedAreLeft == pc = "next" => Names \subseteq failed

\* After the cancellation SetupStreams makes at most the call it was about to.
StopsCalling == late <= 1

\* An accepted configuration has work to do: its first run has publishers and
\* consumers, as far as the program's mode asks for them.
AcceptedHasWork ==
  pc = "running" /\ iter = 0 =>
    /\ given.mode # "consume" => Publishers # {}
    /\ given.mode # "publish" => Consumers # {}

\* Setting up, growing and running a specification panics only when a product
\* did not fit or the rate has grown beyond one message per nanosecond, and in
\* recording why a consumer did not start only without a positive max_lines.
SetupPanicsAreKnown ==
  /\ pc = "panic" => wrapped \/ spec.num["publishRate"] > Shortest
  /\ pc = "errorPanic" => spec.maxLines <= 0

\* Multipliers of at least one never make a number smaller, as long as all
\* products fit; a repeated specification is then still a valid one.
RepeatGrows ==
  LET by == given.config.policy.by
      was == given.config.spec
      grows(f) == by[f][1] >= by[f][2]
  IN ~wrapped =>
       /\ \A f \in SpecNumbers \ {"consumeDelay"} :
            grows(f) => spec.num[f] >= was.num[f]
       /\ (\A f \in PositiveNumbers \cup StreamNumbers : grows(f)) => ValidSpec(spec)

\* Validate says of every number but ramp_up_seconds and consume_delay_ms
\* that it "must be positive"; each repetition runs a valid specification.
RepeatIsValid == pc = "start" => ValidSpec(spec)

\* Start returns, even if no call ever succeeds.
StartEnds == (pc = "delete") ~> (pc \in {"running", "cleanup", "panic", "errorPanic"})
=============================================================================
