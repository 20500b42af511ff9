---------------------------- MODULE MCFileStorage ----------------------------
(* Three statistics and one failure of one configuration, one statistics    *)
(* entry of another; two entries are kept per key.                          *)
EXTENDS FileStorage, TLC

CONSTANTS e1, e2, e3, e4, e5

MCKeys == {"statsA", "failureA", "statsB"}
MCKeyOf == e1 :> "statsA" @@ e2 :> "statsA" @@ e3 :> "statsA"
             @@ e4 :> "failureA" @@ e5 :> "statsB"

\* e4 is a failure, whose error list is never empty.
MCReadable == {e1, e2, e3, e5}
=============================================================================
