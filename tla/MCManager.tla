------------------------------ MODULE MCManager ------------------------------
(* Small instances of Manager: which request asks for what, and how the     *)
(* configurations behave.                                                   *)
EXTENDS Manager, TLC

CONSTANTS r1, r2, r3

\* Two requests ask for A, one for B.
MCBody == r1 :> "A" @@ r2 :> "B" @@ r3 :> "A"
MCConfigs == {"A", "B", "bad"}
MCValid == {"A", "B"}
MCSpecs == "A" :> 2 @@ "B" :> 1 @@ "bad" :> 1

\* B repeats for ever; A sets up streams, B is core NATS without consumers.
MCRepeating == {"B"}
MCCtxAware == {"A"}

\* A names a server or credentials that nats.Connect may refuse.
MCCannotConnect == {"A"}

\* For the livelock: one request is refused by Validate, and the repeating
\* configuration sets up streams.
RefusedBody == r1 :> "A" @@ r2 :> "B" @@ r3 :> "bad"
RepeatingAware == {"B"}
=============================================================================
