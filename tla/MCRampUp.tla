------------------------------- MODULE MCRampUp -------------------------------
(* Two publishers with different targets; the clock may pass the end of the *)
(* ramp-up before its timer is served.                                      *)
EXTENDS RampUp, TLC

MCTarget == 1 :> 3 @@ 2 :> 5
MCElapses == {20, 70, 100, 130}
=============================================================================
