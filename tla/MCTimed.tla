------------------------------ MODULE MCTimed ------------------------------
(* TimedMasterSlave for TLC with the periods of sim_config.h.              *)
EXTENDS TimedMasterSlave

\* The shipped periods are among those the theorems are about.
ASSUME ShippedPeriodsFit == PeriodsFit
=============================================================================
