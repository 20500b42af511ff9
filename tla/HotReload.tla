------------------------------ MODULE HotReload ------------------------------
(***************************************************************************)
(* What the manager of the load tester promises about configurations that  *)
(* arrive while another one is in force: accepted configurations wait in   *)
(* order, only the newest of them is ever put in force, and a              *)
(* configuration is put in force only after the one before it is gone.     *)
(* Manager.tla, the code's channel, mutex and goroutines, implements it.   *)
(***************************************************************************)
EXTENDS Sequences, Naturals

CONSTANTS Requests,   \* the configuration objects a caller can submit
          None        \* no configuration, none of them

VARIABLES pending,    \* accepted and not yet put in force, oldest first
          active      \* the configuration in force, or None

hvars == <<pending, active>>

HInit == pending = <<>> /\ active = None

Accept(r) ==
  /\ pending' = Append(pending, r)
  /\ UNCHANGED active

\* An accepted configuration is dropped only when a newer one waits.
Supersede ==
  /\ Len(pending) > 1
  /\ pending' = Tail(pending)
  /\ UNCHANGED active

Activate ==
  /\ active = None
  /\ Len(pending) = 1
  /\ active' = Head(pending)
  /\ pending' = <<>>

Retire ==
  /\ active # None
  /\ active' = None
  /\ UNCHANGED pending

HNext == (\E r \in Requests : Accept(r)) \/ Supersede \/ Activate \/ Retire

HSpec == HInit /\ [][HNext]_hvars
=============================================================================
