---------------------------- MODULE MCSimulation ----------------------------
(***************************************************************************)
(* The contracts of MCCallFrames, run by transactions and by simulations.  *)
(***************************************************************************)
EXTENDS MCCallFrames, Simulation
=============================================================================
