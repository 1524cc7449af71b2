-------------------------- MODULE MCProcessManager --------------------------
(* Three modules; two ordinary modes that share module 1, and the upgrade  *)
(* mode, which shares none.  For liveness, one module in each of two modes. *)
EXTENDS ProcessManager

MCModeModules == [normal |-> <<1, 2>>, cloud |-> <<1>>, upgrade |-> <<3>>]
MCTwoModes == [normal |-> <<1>>, upgrade |-> <<2>>]
MCCritical == {m \in {1, 3} : m <= N}
=============================================================================
