----------------------------- MODULE MCPeerConn -----------------------------
(* Instances of PeerConn.                                                  *)
EXTENDS PeerConn, TLC

CONSTANTS Session1, Session2

MCAgents == 1 .. MaxOffers
MCRelayed == 1 .. 1

\* Offers of two sessions of the remote.
TwoSessions == {[session |-> s, ice |-> TRUE, relay |-> TRUE] : s \in {Session1, Session2}}

\* An offer with ICE credentials and a relay, and two that lack one of them;
\* for the one without a relay the agent has TURN candidates.
OneOfEach ==
    {[session |-> Session1, ice |-> TRUE, relay |-> TRUE], [session |-> Session1, ice |-> TRUE, relay |-> FALSE],
     [session |-> None, ice |-> FALSE, relay |-> TRUE]}

\* Nothing tells the sessions apart.
SessionSymmetry == Permutations({Session1, Session2})

\* The goroutines of the watcher are interchangeable.
WatcherSymmetry == Permutations(Watchers)
=============================================================================
