----------------------------- MODULE MCDemoRuntime ------------------------------
(***************************************************************************)
(* An instance of DemoRuntime for TLC: two demo-runs, a command run by     *)
(* hand, an owned close, and a risk epoch that is tried again and again.   *)
(***************************************************************************)
EXTENDS DemoRuntime

CONSTANT epoch

MCEpochOf == [b \in Boundaries |-> epoch]
===============================================================================
