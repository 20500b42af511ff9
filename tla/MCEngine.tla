------------------------------- MODULE MCEngine -------------------------------
(* Environments for Engine.                                                  *)
EXTENDS Engine

Env(n, js, pub, con, drops) ==
  [specs |-> n, jetStream |-> js, publishing |-> pub, consuming |-> con,
   drops |-> drops]

\* Three specs of core NATS, publishers only, over a network that drops; two
\* JetStream specs with consumers, whose starts may fail at every step.
MCEnvironments == {Env(3, FALSE, TRUE, FALSE, TRUE), Env(2, TRUE, TRUE, TRUE, FALSE),
                   Env(2, TRUE, FALSE, FALSE, TRUE)}

\* Two JetStream specs.
JetStreamOnly == {Env(2, TRUE, TRUE, TRUE, FALSE)}
=============================================================================
