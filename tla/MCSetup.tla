------------------------------- MODULE MCSetup -------------------------------
(* Configurations around one valid specification: what it grows to, what    *)
(* the server refuses, what Validate refuses.                               *)
EXTENDS Setup

Stream(prefix, count, indexed) ==
  [prefix |-> prefix, subjects |-> {[text |-> prefix, indexed |-> indexed]},
   num |-> [f \in StreamNumbers |-> IF f = "count" THEN count ELSE 1],
   retention |-> "", storage |-> "", discard |-> "", maxAge |-> "",
   discardNewPerSubject |-> {}, limit |-> [f \in StreamLimits |-> {}]]

Test(streams) ==
  [name |-> "test", url |-> "url", clientPrefix |-> "", jetStream |-> TRUE,
   streams |-> streams, publisherPrefix |-> "s", consumerPrefix |-> "s",
   durablePrefix |-> "d", consumerType |-> "pull", ackPolicy |-> "explicit",
   burst |-> 1, pattern |-> "steady", maxLines |-> 1,
   num |-> [f \in SpecNumbers |-> IF f = "consumeDelay" THEN 0 ELSE 1]]

NoPolicy == [enabled |-> FALSE,
             by |-> [f \in SpecNumbers \cup StreamNumbers |-> <<0, 1>>]]

By(f, m) == [enabled |-> TRUE, by |-> [NoPolicy.by EXCEPT ![f] = m]]

Conf(t, policy) ==
  [config |-> [spec |-> t, policy |-> policy, storage |-> ""],
   mode |-> "both", saturates |-> FALSE]

One == Test(<<Stream("s", 1, TRUE)>>)
Twice == Test(<<Stream("s", 1, TRUE), [Stream("s", 1, TRUE) EXCEPT
  !.subjects = {[text |-> "t", indexed |-> TRUE]}]>>)
Two == Test(<<Stream("o", 1, TRUE), Stream("s", 2, TRUE)>>)

Valid ==
  {Conf(One, By("count", <<2, 1>>)),
   Conf(One, By("count", <<3, 2>>)),
   Conf(One, By("publishRate", <<2, 1>>)),
   Conf([One EXCEPT !.num["messageSize"] = 3], By("messageSize", <<3, 2>>)),
   [Conf([One EXCEPT !.pattern = "random"], By("publishRate", <<3, 1>>))
      EXCEPT !.saturates = TRUE],
   Conf(Two, By("replicas", <<3, 2>>)),
   Conf(Twice, NoPolicy),
   [Conf(Twice, NoPolicy) EXCEPT !.mode = "publish"],
   Conf([One EXCEPT !.maxLines = 0], NoPolicy),
   Conf(One, By("publishRate", <<1, 2>>)),
   Conf([Two EXCEPT !.jetStream = FALSE], NoPolicy),
   [Conf(One, By("count", <<2, 1>>)) EXCEPT !.mode = "publish"],
   [Conf(One, By("publishRate", <<2, 1>>)) EXCEPT !.mode = "consume"]}

\* The subject without a placeholder, and discard omitted.
Refused ==
  {Conf(Test(<<Stream("s", 1, FALSE)>>), By("count", <<2, 1>>)),
   Conf(Test(<<[Stream("s", 1, TRUE) EXCEPT !.discardNewPerSubject = {TRUE}]>>),
        NoPolicy)}

Invalid ==
  {Conf([One EXCEPT !.num[f] = -1], NoPolicy) : f \in PositiveNumbers}
    \cup {Conf(Test(<<Stream("s", 0, TRUE)>>), NoPolicy),
          Conf(Test(<<Stream("o", 1, TRUE)>>), NoPolicy),
          Conf([One EXCEPT !.consumerPrefix = "o"], NoPolicy),
          Conf(One, By("rampUp", <<-1, 1>>))}

\* Half the consumers, each time.
Halved == {Conf(One, By("consumers", <<1, 2>>))}

MCCandidates == Valid \cup Halved \cup Refused \cup Invalid
=============================================================================
