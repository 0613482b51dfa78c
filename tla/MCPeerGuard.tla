---------------------------- MODULE MCPeerGuard -----------------------------
(* Instances of PeerGuard.                                                 *)
EXTENDS PeerGuard, TLC

MCAgents == 1 .. 1
MCRelayed == 1 .. 1

\* An offer with ICE credentials and a relay, and two that lack one of them.
MCOffers ==
    {[session |-> 1, ice |-> TRUE, relay |-> TRUE], [session |-> 1, ice |-> TRUE, relay |-> FALSE],
     [session |-> None, ice |-> FALSE, relay |-> TRUE]}

\* The goroutines of the watcher are interchangeable.
WatcherSymmetry == Permutations(Watchers)
=============================================================================
