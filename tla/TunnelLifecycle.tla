--------------------------- MODULE TunnelLifecycle ---------------------------
(***************************************************************************)
(* What a MachineTunnel promises to its owner, who sees State() and the     *)
(* rules (NRPT and firewall) in the operating system, and nothing else:     *)
(* the state moves only along the edges below, and rules appear only while  *)
(* the tunnel is connecting or reconnecting.  A tunnel that reports         *)
(* Connected or Disconnected may take rules away but never adds one.        *)
(***************************************************************************)
VARIABLES
    phase,  \* State()
    rules   \* the rules in place

vars == <<phase, rules>>

Init == phase = "Disconnected" /\ rules = {}

\* Start.
Begin ==
    /\ phase = "Disconnected"
    /\ phase' = "Connecting"
    /\ UNCHANGED rules

\* connect at work: rules come and go.
Configure ==
    /\ phase \in {"Connecting", "Reconnecting"}
    /\ UNCHANGED phase

\* connect returned nil.
Establish ==
    /\ phase \in {"Connecting", "Reconnecting"}
    /\ phase' = "Connected"
    /\ UNCHANGED rules

\* The health check failed.
Lose ==
    /\ phase = "Connected"
    /\ phase' = "Reconnecting"
    /\ UNCHANGED rules

\* Stop at work.
Withdraw ==
    /\ rules' \subseteq rules
    /\ UNCHANGED phase

\* Stop returns, or the process is killed.
End ==
    /\ phase' = "Disconnected"
    /\ UNCHANGED rules

Next == Begin \/ Configure \/ Establish \/ Lose \/ Withdraw \/ End

Spec == Init /\ [][Next]_vars
==============================================================================
