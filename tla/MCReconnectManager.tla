-------------------------- MODULE MCReconnectManager --------------------------
(* The reconnect manager, with and without a limit on the retries. *)
EXTENDS ReconnectManager
================================================================================
