--------------------------- MODULE MCMachineService ---------------------------
(* The service, with and without waits that run out. *)
EXTENDS MachineService
================================================================================
