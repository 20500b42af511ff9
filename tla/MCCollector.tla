----------------------------- MODULE MCCollector -----------------------------
(* One error of each kind of recorder; sA keeps two lines and five bytes,   *)
(* sB has no log_limits, or negative ones.                                  *)
EXTENDS Collector

CONSTANTS p, c, o, sA, sB

MCErrs == {p, c, o}
MCVia == p :> "publish" @@ c :> "consume" @@ o :> "other"
MCSize == p :> 2 @@ c :> 3 @@ o :> 4
MCMaxLines == sA :> 2 @@ sB :> 0
MCMaxBytes == sA :> 5 @@ sB :> 0
NegativeLines == sA :> 2 @@ sB :> -1
NegativeBytes == sA :> 5 @@ sB :> -1
MCTTL == "stats" :> 2 @@ "failure" :> 3
MCTypes == {"stats", "failure"}

\* Every kind of recorder, the storage over time, latencies with an error.
MCBudgets == {[errs |-> MCErrs, samples |-> 0, entries |-> 1, clock |-> 0],
              [errs |-> {o}, samples |-> 0, entries |-> 3, clock |-> 2],
              [errs |-> {c}, samples |-> 4, entries |-> 0, clock |-> 0]}
=============================================================================
