---------------------------- MODULE MCHealthChecker ----------------------------
(* The HealthChecker with a threshold of two failures and a few Starts. *)
EXTENDS HealthChecker
================================================================================
