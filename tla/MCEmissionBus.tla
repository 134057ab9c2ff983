---------------------------- MODULE MCEmissionBus ----------------------------
(* Instance of the EmissionBus for TLC.                                     *)
EXTENDS EmissionBus
CONSTANTS t1, t2
=============================================================================
