------------------------- MODULE MachineTunnelProofs -------------------------
(***************************************************************************)
(* Proofs about MachineTunnel, for any sets of namespaces, addresses,       *)
(* networks and checkers, any intervals, thresholds and number of faults.   *)
(*                                                                          *)
(* None of the invariants is inductive alone.  Inv below adds what the      *)
(* loop's and the caller's control states imply: the state under which each *)
(* part of connect runs (Phases), what cleanupStaleResources and the        *)
(* iterations done so far guarantee inside configureFirewall                *)
(* (FirewallProgress), that the interface is stored while routes are being  *)
(* added (InterfaceStored), and what Cleanup has undone so far              *)
(* (CleanupProgress).                                                       *)
(***************************************************************************)
EXTENDS MachineTunnel, TLAPS

\* The state under which each part of the loop runs.
Phases ==
    /\ loop \notin {"off", "maintain"} => state \in {"Connecting", "Reconnecting"}
    /\ loop = "maintain" => state = "Connected"

\* Between cleanupStaleResources and configureFirewall no rule is in place;
\* within configureFirewall the addresses done are allowed and nothing is
\* denied yet.
FirewallProgress ==
    "fw" \notin dirty =>
        /\ loop \in {"bootstrap", "wg", "nrpt"} => fw = {}
        /\ loop = "fw" => /\ fw \cap Pair("deny") = {}
                          /\ \A ip \in dcIPs \ todo : Pair(ip) \subseteq fw

\* The interface is stored from setupWireGuardInterface to the end of connect,
\* and for as long as routes are tracked.
InterfaceStored ==
    /\ loop \in {"nrpt", "fw", "client", "map", "engine", "peers", "routes"}
          => "wgInterface" \in open
    /\ activeRoutes # {} => "wgInterface" \in open

\* What Cleanup has undone when it reaches each of its steps.
CleanupProgress ==
    /\ caller \in {"client", "nrpt", "fw", "routes", "iface", "stopped"}
          => "peerEngine" \notin open
    /\ caller \in {"nrpt", "fw", "routes", "iface", "stopped"} => "mgmClient" \notin open
    /\ caller \in {"fw", "routes", "iface", "stopped"} => (nrpt # {} => "nrpt" \in dirty)
    /\ caller \in {"routes", "iface", "stopped"} => (fw # {} => "fw" \in dirty)
    /\ caller \in {"iface", "stopped"} => activeRoutes = {}
    /\ caller = "stopped" => "wgInterface" \notin open

\* While maintainConnection waits, its checker is there.
CheckerThere ==
    loop = "maintain" =>
        /\ cur \in Checkers \ hstop
        /\ hpc[cur] = "free" => ctx = "done"

\* The inductive invariant.
Inv ==
    /\ TypeOK /\ Phases /\ LoopJoined /\ FirewallProgress /\ DenyOnlyWithAllows
    /\ InterfaceStored /\ CleanupProgress /\ RoutesTracked /\ BackoffBounded
    /\ CheckerThere

------------------------------------------------------------------------------
\* The initial values have their types.
LEMMA InitTypeOK == Init => TypeOK
  BY MachineTunnelAssumption DEF Init, TypeOK, CallerPC, MachineState,
   LoopPC, Handles, FirewallRules

\* One step per action.  That cur is a checker while maintainConnection waits is
\* what LeaveMaintenance needs.
LEMMA NextTypeOK ==
    ASSUME TypeOK, loop = "maintain" => cur \in Checkers, [Next]_vars
    PROVE  TypeOK'
<1> USE MachineTunnelAssumption DEF TypeOK, CallerPC, MachineState, LoopPC, Handles
<1> USE DEF callVars, loopVars, refVars, checkVars, devVars, ruleVars, envVars, vars
<1>1. CASE Start
  BY <1>1 DEF Start
<1>2. CASE Stop
  BY <1>2 DEF Stop
<1>3. CASE JoinLoop
  BY <1>3 DEF JoinLoop
<1>4. CASE CloseEngine
  BY <1>4 DEF CloseEngine
<1>5. CASE CloseClient
  BY <1>5 DEF CloseClient
<1>6. CASE CleanupNRPT
  BY <1>6 DEF CleanupNRPT, Flag
<1>7. CASE CleanupFirewall
  BY <1>7 DEF CleanupFirewall, Flag
<1>8. CASE CleanupRoutes
  <2>1. /\ routes' \in SUBSET Networks
        /\ dirty' \in SUBSET {"nrpt", "fw", "routes"}
        /\ activeRoutes' \in SUBSET Networks
    BY <1>8, Zenon DEF CleanupRoutes, Flag
  <2>. QED
    BY <1>8, <2>1 DEF CleanupRoutes
<1>9. CASE CloseInterface
  BY <1>9 DEF CloseInterface, DeviceGone
<1>10. CASE LoopTop
  BY <1>10 DEF LoopTop
<1>11. CASE CleanupStaleResources
  BY <1>11 DEF CleanupStaleResources, DisableStaleInterface, Flag, Goto
<1>12. CASE BootstrapSucceeds
  BY <1>12 DEF BootstrapSucceeds, Goto
<1>13. CASE BootstrapFails
  BY <1>13 DEF BootstrapFails, Goto
<1>14. CASE SetupWireGuard
  BY <1>14 DEF SetupWireGuard, Goto, Store
<1>15. CASE CreateFails
  <2>1. device' \in {"absent", "up", "down"} /\ owner' \in {"field", "dropped", "none"}
    BY <1>15, ZenonT(30) DEF CreateFails, DeviceGone
  <2>2. routes' \in SUBSET Networks
    BY <1>15, Zenon DEF CreateFails, DeviceGone
  <2>. QED
    BY <1>15, <2>1, <2>2 DEF CreateFails, Goto
<1>16. CASE UpFails
  BY <1>16 DEF UpFails, Goto
<1>17. CASE BeginFirewall
  BY <1>17 DEF BeginFirewall
<1>18. CASE EnableDenyDefault
  BY <1>18 DEF EnableDenyDefault, PairWritten, PairBroken, Pair,
     FirewallRules
<1>19. CASE CreateMgmClient
  <2>1. open' \in SUBSET Handles /\ leaked' \in SUBSET Handles
    BY <1>19, Zenon DEF CreateMgmClient, Store
  <2>2. loop' \in LoopPC
    BY <1>19 DEF CreateMgmClient
  <2>. QED
    BY <1>19, <2>1, <2>2 DEF CreateMgmClient
<1>20. CASE GetNetworkMap
  BY <1>20 DEF GetNetworkMap
<1>21. CASE StartPeerEngine
  <2>1. open' \in SUBSET Handles /\ leaked' \in SUBSET Handles
    BY <1>21, Zenon DEF StartPeerEngine, Store
  <2>2. loop' \in LoopPC
    BY <1>21 DEF StartPeerEngine
  <2>. QED
    BY <1>21, <2>1, <2>2 DEF StartPeerEngine
<1>22. CASE ConnectToRemotePeers
  BY <1>22 DEF ConnectToRemotePeers
<1>23. CASE RoutesAdded
  BY <1>23 DEF RoutesAdded
<1>24. CASE LeaveMaintenance
  BY <1>24 DEF LeaveMaintenance
<1>25. CASE Backoff
  BY <1>25 DEF Backoff, Goto, Min2
<1>26. CASE GiveUp
  BY <1>26 DEF GiveUp, Goto
<1>27. CASE Outage
  BY <1>27 DEF Outage, Fault
<1>28. CASE OutageEnds
  BY <1>28 DEF OutageEnds
<1>29. CASE DeviceFails
  BY <1>29 DEF DeviceFails, Fault, DeviceGone
<1>30. CASE DeviceRecovers
  BY <1>30 DEF DeviceRecovers
<1>31. CASE Crash
  BY <1>31 DEF Crash, Fault, DeviceGone
<1>32. ASSUME NEW ns \in Namespaces, AddNRPTRule(ns) PROVE TypeOK'
  BY <1>32 DEF AddNRPTRule, RuleWritten, RuleBroken
<1>33. ASSUME NEW ip \in DCs, AllowDCTraffic(ip) PROVE TypeOK'
  BY <1>33 DEF AllowDCTraffic, PairWritten, PairBroken, Pair,
     FirewallRules
<1>34. ASSUME NEW p \in Networks, AddSystemRoute(p) PROVE TypeOK'
  BY <1>34 DEF AddSystemRoute
<1>35. ASSUME NEW c \in Checkers, EnterMaintenance(c) PROVE TypeOK'
  BY <1>35 DEF EnterMaintenance, Goto
<1>36. ASSUME NEW c \in Checkers, SampleAdapter(c) PROVE TypeOK'
  BY <1>36 DEF SampleAdapter
<1>37. ASSUME NEW c \in Checkers, PerformCheck(c) PROVE TypeOK'
  BY <1>37 DEF PerformCheck
<1>38. ASSUME NEW c \in Checkers, Tick(c) PROVE TypeOK'
  BY <1>38 DEF Tick
<1>39. ASSUME NEW c \in Checkers, ExitChecker(c) PROVE TypeOK'
  BY <1>39 DEF ExitChecker
<1>40. CASE UNCHANGED vars
  BY <1>40 DEF vars
<1>41. QED
  BY <1>1, <1>2, <1>3, <1>4, <1>5, <1>6, <1>7, <1>8, <1>9, <1>10, <1>11,
     <1>12, <1>13, <1>14, <1>15, <1>16, <1>17, <1>18, <1>19, <1>20, <1>21,
     <1>22, <1>23, <1>24, <1>25, <1>26, <1>27, <1>28, <1>29, <1>30, <1>31,
     <1>32, <1>33, <1>34, <1>35, <1>36, <1>37, <1>38, <1>39, <1>40, ZenonT(30) DEF Next,
     CallerNext, CleanupStep, LoopStep, ConnectStep, CheckerStep,
     Environment

\* Start begins the loop under Connecting, every success and every loss sets the
\* state, and only Stop, after the join, goes back to Disconnected.
LEMMA NextPhases ==
    ASSUME Phases, LoopJoined, [Next]_vars
    PROVE  Phases' /\ LoopJoined'
<1> USE DEF Phases, LoopJoined
<1> USE DEF callVars, loopVars, refVars, checkVars, devVars, ruleVars, envVars, vars
<1>1. \/ Start \/ (\E c \in Checkers : EnterMaintenance(c)) \/ LeaveMaintenance
      \/ CloseInterface \/ JoinLoop \/ Crash
      \/ /\ loop \notin {"off", "maintain"} /\ loop' # "maintain"
         /\ UNCHANGED <<caller, state>>
      \/ /\ caller' = "join" \/ caller \notin {"idle", "join"}
         /\ UNCHANGED <<state, loop>>
      \/ UNCHANGED <<caller, state, loop>>
  BY Zenon DEF Stop, CloseEngine, CloseClient, CleanupNRPT, CleanupFirewall,
     CleanupRoutes, LoopTop, CleanupStaleResources, DisableStaleInterface, BootstrapSucceeds,
     BootstrapFails, SetupWireGuard, CreateFails, UpFails, BeginFirewall,
     EnableDenyDefault, CreateMgmClient, GetNetworkMap, StartPeerEngine,
     ConnectToRemotePeers, RoutesAdded, Backoff, GiveUp, Outage, OutageEnds,
     DeviceFails, DeviceRecovers, AddNRPTRule, RuleWritten, RuleBroken, AllowDCTraffic,
     AddSystemRoute, SampleAdapter, PerformCheck, Tick, ExitChecker, Goto,
     Store, Next, CallerNext, CleanupStep, LoopStep, ConnectStep,
     CheckerStep, Environment
<1>2. CASE Start
  BY <1>2 DEF Start
<1>3. ASSUME NEW c \in Checkers, EnterMaintenance(c) PROVE Phases' /\ LoopJoined'
  BY <1>3 DEF EnterMaintenance, Goto
<1>4. CASE LeaveMaintenance
  BY <1>4 DEF LeaveMaintenance
<1>5. CASE CloseInterface
  BY <1>5 DEF CloseInterface
<1>6. CASE JoinLoop
  BY <1>6 DEF JoinLoop
<1>7. CASE Crash
  BY <1>7 DEF Crash
<1>8. CASE /\ loop \notin {"off", "maintain"} /\ loop' # "maintain"
           /\ UNCHANGED <<caller, state>>
  BY <1>8
<1>9. CASE /\ caller' = "join" \/ caller \notin {"idle", "join"}
           /\ UNCHANGED <<state, loop>>
  BY <1>9
<1>10. CASE UNCHANGED <<caller, state, loop>>
  BY <1>10, ZenonT(30)
<1>. QED
  BY <1>1, <1>2, <1>3, <1>4, <1>5, <1>6, <1>7, <1>8, <1>9, <1>10, ZenonT(30)

\* Only a removal that leaves nothing clears the dirty mark; the allow rules are
\* written before the deny rules, and an address that fails ends the function.
LEMMA NextFirewall ==
    ASSUME TypeOK, LoopJoined, FirewallProgress, DenyOnlyWithAllows, [Next]_vars
    PROVE  FirewallProgress' /\ DenyOnlyWithAllows'
<1> USE MachineTunnelAssumption DEF FirewallProgress, DenyOnlyWithAllows
<1> USE DEF callVars, loopVars, refVars, checkVars, devVars, ruleVars, envVars, vars
<1>1. \/ CleanupNRPT \/ CleanupFirewall \/ CleanupRoutes \/ CleanupStaleResources
      \/ BootstrapSucceeds \/ SetupWireGuard \/ UpFails
      \/ (\E ns \in Namespaces : AddNRPTRule(ns)) \/ BeginFirewall
      \/ (\E ip \in DCs : AllowDCTraffic(ip)) \/ EnableDenyDefault
      \/ /\ loop' \notin {"bootstrap", "wg", "nrpt", "fw"}
         /\ UNCHANGED <<dcIPs, fw, dirty>>
      \/ UNCHANGED <<loop, todo, dcIPs, fw, dirty>>
  BY ZenonT(30) DEF Start, Stop, JoinLoop, CloseEngine, CloseClient, CloseInterface,
     LoopTop, BootstrapFails, CreateFails, CreateMgmClient, GetNetworkMap,
     StartPeerEngine, ConnectToRemotePeers, RoutesAdded, LeaveMaintenance,
     Backoff, GiveUp, Outage, OutageEnds, DeviceFails, DeviceRecovers,
     Crash, AddSystemRoute, EnterMaintenance, SampleAdapter, PerformCheck,
     Tick, ExitChecker, Goto, Store, Next, CallerNext, CleanupStep,
     LoopStep, ConnectStep, CheckerStep, Environment
<1>2. CASE CleanupNRPT
  BY <1>2 DEF CleanupNRPT, Flag
<1>3. CASE CleanupFirewall
  <2>1. PICK left \in SUBSET fw : fw' = left /\ dirty' = Flag(dirty, "fw", left)
    BY <1>3 DEF CleanupFirewall
  <2>2. CASE left = {}
    BY <2>1, <2>2, <1>3 DEF CleanupFirewall, LoopJoined, Flag, loopVars
  <2>3. CASE left # {}
    BY <2>1, <2>3 DEF Flag
  <2>. QED
    BY <2>2, <2>3
<1>4. CASE CleanupRoutes
  BY <1>4 DEF CleanupRoutes, Flag
<1>5. CASE CleanupStaleResources
  BY <1>5 DEF CleanupStaleResources, DisableStaleInterface, Flag, Goto
<1>6. CASE BootstrapSucceeds
  BY <1>6 DEF BootstrapSucceeds, Goto
<1>7. CASE SetupWireGuard
  BY <1>7 DEF SetupWireGuard, Goto
<1>8. CASE UpFails
  BY <1>8 DEF UpFails, Goto
<1>9. ASSUME NEW ns \in Namespaces, AddNRPTRule(ns) PROVE FirewallProgress' /\ DenyOnlyWithAllows'
  BY <1>9 DEF AddNRPTRule, RuleWritten, RuleBroken
<1>10. CASE BeginFirewall
  BY <1>10 DEF BeginFirewall
<1>11. ASSUME NEW ip \in DCs, AllowDCTraffic(ip) PROVE FirewallProgress' /\ DenyOnlyWithAllows'
  BY <1>11 DEF AllowDCTraffic, TypeOK, PairWritten, PairBroken, Pair
<1>12. CASE EnableDenyDefault
  BY <1>12 DEF EnableDenyDefault, TypeOK, PairWritten, PairBroken, Pair
<1>13. CASE /\ loop' \notin {"bootstrap", "wg", "nrpt", "fw"}
            /\ UNCHANGED <<dcIPs, fw, dirty>>
  BY <1>13
<1>14. CASE UNCHANGED <<loop, todo, dcIPs, fw, dirty>>
  BY <1>14
<1>. QED
  BY <1>1, <1>2, <1>3, <1>4, <1>5, <1>6, <1>7, <1>8, <1>9, <1>10, <1>11,
     <1>12, <1>13, <1>14, ZenonT(30)

\* wgInterface is cleared only by the last step of Cleanup, after the routes.
LEMMA NextInterface ==
    ASSUME InterfaceStored, CleanupProgress, LoopJoined, [Next]_vars
    PROVE  InterfaceStored'
<1> USE DEF InterfaceStored, CleanupProgress, LoopJoined
<1> USE DEF callVars, loopVars, refVars, checkVars, devVars, ruleVars, envVars, vars
<1>1. \/ CloseInterface \/ CleanupRoutes \/ SetupWireGuard
      \/ (\E p \in Networks : AddSystemRoute(p)) \/ Crash
      \/ /\ loop' \in {"fw", "client", "map", "engine", "peers", "routes"}
               => loop \in {"nrpt", "fw", "client", "map", "engine", "peers", "routes"}
         /\ loop' = "nrpt" => loop = "nrpt"
         /\ "wgInterface" \in open => "wgInterface" \in open'
         /\ UNCHANGED activeRoutes
  BY ZenonT(30) DEF Start, Stop, JoinLoop, CloseEngine, CloseClient, CleanupNRPT,
     CleanupFirewall, LoopTop, CleanupStaleResources, DisableStaleInterface, BootstrapSucceeds,
     BootstrapFails, CreateFails, UpFails, BeginFirewall, EnableDenyDefault,
     CreateMgmClient, GetNetworkMap, StartPeerEngine, ConnectToRemotePeers,
     RoutesAdded, LeaveMaintenance, Backoff, GiveUp, Outage, OutageEnds,
     DeviceFails, DeviceRecovers, AddNRPTRule, RuleWritten, RuleBroken, AllowDCTraffic,
     EnterMaintenance, SampleAdapter, PerformCheck, Tick, ExitChecker, Goto,
     Store, Next, CallerNext, CleanupStep, LoopStep, ConnectStep,
     CheckerStep, Environment
<1>2. CASE CloseInterface
  BY <1>2 DEF CloseInterface
<1>3. CASE CleanupRoutes
  BY <1>3 DEF CleanupRoutes
<1>4. CASE SetupWireGuard
  BY <1>4 DEF SetupWireGuard, Goto, Store
<1>5. ASSUME NEW p \in Networks, AddSystemRoute(p) PROVE InterfaceStored'
  BY <1>5 DEF AddSystemRoute
<1>6. CASE Crash
  BY <1>6 DEF Crash
<1>7. CASE /\ loop' \in {"fw", "client", "map", "engine", "peers", "routes"}
                 => loop \in {"nrpt", "fw", "client", "map", "engine", "peers", "routes"}
           /\ loop' = "nrpt" => loop = "nrpt"
           /\ "wgInterface" \in open => "wgInterface" \in open'
           /\ UNCHANGED activeRoutes
  BY <1>7
<1>. QED
  BY <1>1, <1>2, <1>3, <1>4, <1>5, <1>6, <1>7, ZenonT(30)

\* Each step of Cleanup undoes its part, and with the loop joined nothing is put
\* in place again before Stop returns.
LEMMA NextCleanup ==
    ASSUME CleanupProgress, LoopJoined, InterfaceStored, [Next]_vars
    PROVE  CleanupProgress'
<1> USE DEF CleanupProgress, LoopJoined, InterfaceStored
<1> USE DEF callVars, loopVars, refVars, checkVars, devVars, ruleVars, envVars, vars
<1>1. \/ CloseEngine \/ CloseClient \/ CleanupNRPT \/ CleanupFirewall
      \/ CleanupRoutes \/ CloseInterface
      \/ caller' \in {"idle", "join", "engine"}
      \/ /\ loop # "off"
         /\ UNCHANGED caller
      \/ UNCHANGED <<caller, open, nrpt, fw, dirty, activeRoutes>>
  BY ZenonT(30) DEF Start, Stop, JoinLoop, LoopTop, CleanupStaleResources, DisableStaleInterface,
     BootstrapSucceeds, BootstrapFails, SetupWireGuard, CreateFails,
     UpFails, BeginFirewall, EnableDenyDefault, CreateMgmClient,
     GetNetworkMap, StartPeerEngine, ConnectToRemotePeers, RoutesAdded,
     LeaveMaintenance, Backoff, GiveUp, Outage, OutageEnds, DeviceFails,
     DeviceRecovers, Crash, AddNRPTRule, RuleWritten, RuleBroken, AllowDCTraffic, AddSystemRoute,
     EnterMaintenance, SampleAdapter, PerformCheck, Tick, ExitChecker, Goto,
     Store, Next, CallerNext, CleanupStep, LoopStep, ConnectStep,
     CheckerStep, Environment
<1>2. CASE CloseEngine
  BY <1>2 DEF CloseEngine
<1>3. CASE CloseClient
  BY <1>3 DEF CloseClient
<1>4. CASE CleanupNRPT
  BY <1>4 DEF CleanupNRPT, Flag
<1>5. CASE CleanupFirewall
  BY <1>5 DEF CleanupFirewall, Flag
<1>6. CASE CleanupRoutes
  BY <1>6 DEF CleanupRoutes, Flag
<1>7. CASE CloseInterface
  BY <1>7 DEF CloseInterface
<1>8. CASE caller' \in {"idle", "join", "engine"}
  BY <1>8
<1>9. CASE /\ loop # "off"
           /\ UNCHANGED caller
  BY <1>9
<1>10. CASE UNCHANGED <<caller, open, nrpt, fw, dirty, activeRoutes>>
  BY <1>10
<1>. QED
  BY <1>1, <1>2, <1>3, <1>4, <1>5, <1>6, <1>7, <1>8, <1>9, <1>10, ZenonT(30)

\* A route the system has is tracked until its removal has been tried.
LEMMA NextRoutes ==
    ASSUME RoutesTracked, [Next]_vars
    PROVE  RoutesTracked'
<1> USE DEF RoutesTracked
<1> USE DEF callVars, loopVars, refVars, checkVars, devVars, ruleVars, envVars, vars
<1>1. \/ CleanupNRPT \/ CleanupFirewall \/ CleanupRoutes \/ CleanupStaleResources
      \/ CloseInterface \/ SetupWireGuard \/ CreateFails \/ UpFails
      \/ (\E p \in Networks : AddSystemRoute(p)) \/ DeviceFails \/ Crash
      \/ UNCHANGED <<routes, owner, dirty, activeRoutes>>
  BY Zenon DEF Start, Stop, JoinLoop, CloseEngine, CloseClient, LoopTop,
     BootstrapSucceeds, BootstrapFails, BeginFirewall, EnableDenyDefault,
     CreateMgmClient, GetNetworkMap, StartPeerEngine, ConnectToRemotePeers,
     RoutesAdded, LeaveMaintenance, Backoff, GiveUp, Outage, OutageEnds,
     DeviceRecovers, AddNRPTRule, RuleWritten, RuleBroken, AllowDCTraffic, EnterMaintenance,
     SampleAdapter, PerformCheck, Tick, ExitChecker, Goto, Store, Next,
     CallerNext, CleanupStep, LoopStep, ConnectStep, CheckerStep,
     Environment
<1>2. CASE CleanupNRPT
  BY <1>2 DEF CleanupNRPT, Flag
<1>3. CASE CleanupFirewall
  BY <1>3 DEF CleanupFirewall, Flag
<1>4. CASE CleanupRoutes
  BY <1>4 DEF CleanupRoutes, Flag
<1>5. CASE CleanupStaleResources
  BY <1>5 DEF CleanupStaleResources, DisableStaleInterface, Flag
<1>6. CASE CloseInterface
  BY <1>6 DEF CloseInterface, DeviceGone
<1>7. CASE SetupWireGuard
  BY <1>7 DEF SetupWireGuard
<1>8. CASE CreateFails
  BY <1>8, ZenonT(30) DEF CreateFails, DeviceGone
<1>9. CASE UpFails
  BY <1>9 DEF UpFails
<1>10. ASSUME NEW p \in Networks, AddSystemRoute(p) PROVE RoutesTracked'
  BY <1>10 DEF AddSystemRoute
<1>11. CASE DeviceFails
  BY <1>11 DEF DeviceFails, DeviceGone
<1>12. CASE Crash
  BY <1>12 DEF Crash, DeviceGone
<1>13. CASE UNCHANGED <<routes, owner, dirty, activeRoutes>>
  BY <1>13
<1>. QED
  BY <1>1, <1>2, <1>3, <1>4, <1>5, <1>6, <1>7, <1>8, <1>9, <1>10, <1>11,
     <1>12, <1>13, ZenonT(30)

\* The interval is set by Start and by a success, and doubled under the cap.
LEMMA NextBackoff ==
    ASSUME TypeOK, BackoffBounded, [Next]_vars
    PROVE  BackoffBounded'
<1> USE MachineTunnelAssumption DEF BackoffBounded, Min2
<1> USE DEF callVars, loopVars, refVars, checkVars, devVars, ruleVars, envVars, vars
<1>1. \/ Start \/ (\E c \in Checkers : EnterMaintenance(c)) \/ Backoff \/ Crash
      \/ /\ loop' = "maintain" => loop = "maintain"
         /\ UNCHANGED interval
  BY Zenon DEF Stop, JoinLoop, CloseEngine, CloseClient, CleanupNRPT,
     CleanupFirewall, CleanupRoutes, CloseInterface, LoopTop,
     CleanupStaleResources, DisableStaleInterface, BootstrapSucceeds, BootstrapFails,
     SetupWireGuard, CreateFails, UpFails, BeginFirewall, EnableDenyDefault,
     CreateMgmClient, GetNetworkMap, StartPeerEngine, ConnectToRemotePeers,
     RoutesAdded, LeaveMaintenance, GiveUp, Outage, OutageEnds, DeviceFails,
     DeviceRecovers, AddNRPTRule, RuleWritten, RuleBroken, AllowDCTraffic, AddSystemRoute,
     SampleAdapter, PerformCheck, Tick, ExitChecker, Goto, Store, Next,
     CallerNext, CleanupStep, LoopStep, ConnectStep, CheckerStep,
     Environment
<1>2. CASE Start
  BY <1>2 DEF Start
<1>3. ASSUME NEW c \in Checkers, EnterMaintenance(c) PROVE BackoffBounded'
  BY <1>3 DEF EnterMaintenance, Goto
<1>4. CASE Backoff
  BY <1>4 DEF Backoff, Goto, TypeOK
<1>5. CASE Crash
  BY <1>5 DEF Crash
<1>6. CASE /\ loop' = "maintain" => loop = "maintain"
           /\ UNCHANGED interval
  BY <1>6
<1>. QED
  BY <1>1, <1>2, <1>3, <1>4, <1>5, <1>6, ZenonT(30)

\* A checker exits only when it is stopped or cancelled, and the loop stops it only
\* when it leaves the wait.
LEMMA NextChecker ==
    ASSUME TypeOK, CheckerThere, [Next]_vars
    PROVE  CheckerThere'
<1> USE DEF CheckerThere, TypeOK
<1> USE DEF callVars, loopVars, refVars, checkVars, devVars, ruleVars, envVars, vars
<1>1. \/ (\E c \in Checkers : EnterMaintenance(c)) \/ Stop
      \/ (\E c \in Checkers : SampleAdapter(c))
      \/ (\E c \in Checkers : PerformCheck(c)) \/ (\E c \in Checkers : Tick(c))
      \/ (\E c \in Checkers : ExitChecker(c))
      \/ loop' # "maintain"
      \/ UNCHANGED <<loop, ctx, cur, hpc, hstop>>
  BY Zenon DEF Start, JoinLoop, CloseEngine, CloseClient, CleanupNRPT,
     CleanupFirewall, CleanupRoutes, CloseInterface, LoopTop,
     CleanupStaleResources, DisableStaleInterface, BootstrapSucceeds, BootstrapFails,
     SetupWireGuard, CreateFails, UpFails, BeginFirewall, EnableDenyDefault,
     CreateMgmClient, GetNetworkMap, StartPeerEngine, ConnectToRemotePeers,
     RoutesAdded, LeaveMaintenance, Backoff, GiveUp, Outage, OutageEnds,
     DeviceFails, DeviceRecovers, Crash, AddNRPTRule, RuleWritten, RuleBroken, AllowDCTraffic,
     AddSystemRoute, Goto, Store, Next, CallerNext, CleanupStep, LoopStep,
     ConnectStep, CheckerStep, Environment
<1>2. ASSUME NEW c \in Checkers, EnterMaintenance(c) PROVE CheckerThere'
  BY <1>2 DEF EnterMaintenance, Goto
<1>3. CASE Stop
  BY <1>3 DEF Stop
<1>4. ASSUME NEW c \in Checkers, SampleAdapter(c) PROVE CheckerThere'
  BY <1>4 DEF SampleAdapter
<1>5. ASSUME NEW c \in Checkers, PerformCheck(c) PROVE CheckerThere'
  BY <1>5 DEF PerformCheck
<1>6. ASSUME NEW c \in Checkers, Tick(c) PROVE CheckerThere'
  BY <1>6 DEF Tick
<1>7. ASSUME NEW c \in Checkers, ExitChecker(c) PROVE CheckerThere'
  BY <1>7 DEF ExitChecker
<1>8. CASE loop' # "maintain"
  BY <1>8
<1>9. CASE UNCHANGED <<loop, ctx, cur, hpc, hstop>>
  BY <1>9
<1>. QED
  BY <1>1, <1>2, <1>3, <1>4, <1>5, <1>6, <1>7, <1>8, <1>9, ZenonT(30)

------------------------------------------------------------------------------
\* The three facts about the inductive invariant: it holds initially, ...
LEMMA InitInv == Init => Inv
<1> SUFFICES ASSUME Init PROVE Inv
  OBVIOUS
<1>1. TypeOK
  BY InitTypeOK
<1>2. Phases /\ LoopJoined /\ FirewallProgress /\ InterfaceStored /\ CleanupProgress
  BY DEF Init, Phases, LoopJoined, FirewallProgress, InterfaceStored,
     CleanupProgress
<1>3. DenyOnlyWithAllows /\ RoutesTracked /\ CheckerThere
  BY DEF Init, DenyOnlyWithAllows, RoutesTracked, CheckerThere
<1>4. BackoffBounded
  BY MachineTunnelAssumption DEF Init, BackoffBounded, Min2
<1>. QED
  BY <1>1, <1>2, <1>3, <1>4 DEF Inv

\* ... every step keeps it, ...
LEMMA NextInv == Inv /\ [Next]_vars => Inv'
<1> SUFFICES ASSUME Inv, [Next]_vars PROVE Inv'
  OBVIOUS
<1> USE DEF Inv
<1>1. TypeOK'
  BY NextTypeOK DEF CheckerThere
<1>2. Phases' /\ LoopJoined' /\ CleanupProgress' /\ InterfaceStored'
  BY NextPhases, NextCleanup, NextInterface
<1>3. FirewallProgress' /\ DenyOnlyWithAllows'
  BY NextFirewall
<1>4. RoutesTracked' /\ BackoffBounded' /\ CheckerThere'
  BY NextRoutes, NextBackoff, NextChecker
<1>. QED
  BY <1>1, <1>2, <1>3, <1>4

\* ... and so it always holds.
LEMMA Invariance == Spec => []Inv
  BY InitInv, NextInv, PTL DEF Spec

\* Every variable keeps its type: the buffer of unhealthyCh holds at most one
\* signal, and no checker counts past its threshold.
THEOREM TypeCorrect == Spec => []TypeOK
<1>1. Inv => TypeOK
  BY DEF Inv
<1>. QED
  BY <1>1, Invariance, PTL

\* Stop waits for connectionLoop before it cleans up, and a Start that is not
\* refused finds no loop.
THEOREM LoopIsJoined == Spec => []LoopJoined
<1>1. Inv => LoopJoined
  BY DEF Inv
<1>. QED
  BY <1>1, Invariance, PTL

\* After Stop no field, NRPT rule or firewall rule is left, save rules whose
\* removal failed.
THEOREM StopCleans == Spec => []StopLeavesNothing
<1>1. Inv => StopLeavesNothing
  <2> SUFFICES ASSUME Inv, caller = "stopped" PROVE StopLeavesNothing
    BY DEF StopLeavesNothing
  <2>1. open = {}
    BY DEF Inv, CleanupProgress, TypeOK, Handles
  <2>. QED
    BY <2>1 DEF Inv, CleanupProgress, StopLeavesNothing
<1>. QED
  BY <1>1, Invariance, PTL

\* configureFirewall never leaves deny-default in place without the allow rules
\* of every address it was given.
THEOREM DenyNeedsAllows == Spec => []DenyOnlyWithAllows
<1>1. Inv => DenyOnlyWithAllows
  BY DEF Inv
<1>. QED
  BY <1>1, Invariance, PTL

\* activeRoutes covers the routes through an adapter of this process.
THEOREM RoutesAreTracked == Spec => []RoutesTracked
<1>1. Inv => RoutesTracked
  BY DEF Inv
<1>. QED
  BY <1>1, Invariance, PTL

\* The reconnect interval stays within its configured bounds and is reset by a
\* success.
THEOREM BackoffIsBounded == Spec => []BackoffBounded
<1>1. Inv => BackoffBounded
  BY DEF Inv
<1>. QED
  BY <1>1, Invariance, PTL

\* A connected tunnel has a live health checker that has not been stopped.
THEOREM ConnectedIsMonitored == Spec => []Monitored
<1>1. Inv => Monitored
  BY DEF Inv, CheckerThere, Monitored
<1>. QED
  BY <1>1, Invariance, PTL

------------------------------------------------------------------------------
(***************************************************************************)
(* Refinement: with state for phase and nrpt \cup fw for rules, every step   *)
(* is a step of TunnelLifecycle or changes neither.                         *)
(***************************************************************************)
\* A new tunnel is disconnected and has put no rule in place.
LEMMA InitLifecycle == Init => Lifecycle!Init
  BY DEF Init, Lifecycle!Init

\* Phases tells under which state a step of connect falls.
LEMMA NextLifecycle ==
    ASSUME Phases, [Next]_vars
    PROVE  [Lifecycle!Next]_(Lifecycle!vars)
<1> USE DEF Lifecycle!Next, Lifecycle!vars
<1>1. \/ Start \/ CleanupNRPT \/ CleanupFirewall \/ CloseInterface \/ LeaveMaintenance
      \/ (\E c \in Checkers : EnterMaintenance(c)) \/ Crash
      \/ loop \notin {"off", "maintain"} /\ UNCHANGED state
      \/ UNCHANGED <<state, nrpt, fw>>
  BY Zenon DEF Stop, JoinLoop, CloseEngine, CloseClient, CleanupRoutes,
     LoopTop, CleanupStaleResources, DisableStaleInterface, BootstrapSucceeds, BootstrapFails,
     SetupWireGuard, CreateFails, UpFails, BeginFirewall, EnableDenyDefault,
     CreateMgmClient, GetNetworkMap, StartPeerEngine, ConnectToRemotePeers,
     RoutesAdded, Backoff, GiveUp, Outage, OutageEnds, DeviceFails,
     DeviceRecovers, AddNRPTRule, RuleWritten, RuleBroken, AllowDCTraffic, AddSystemRoute,
     SampleAdapter, PerformCheck, Tick, ExitChecker, Goto, Next, CallerNext,
     CleanupStep, LoopStep, ConnectStep, CheckerStep, Environment, callVars,
     ruleVars, vars
<1>2. CASE Start
  BY <1>2 DEF Start, Lifecycle!Begin, ruleVars
<1>3. CASE CleanupNRPT
  BY <1>3 DEF CleanupNRPT, Lifecycle!Withdraw
<1>4. CASE CleanupFirewall
  BY <1>4 DEF CleanupFirewall, Lifecycle!Withdraw
<1>5. CASE CloseInterface
  BY <1>5 DEF CloseInterface, Lifecycle!End, ruleVars
<1>6. CASE LeaveMaintenance
  BY <1>6 DEF LeaveMaintenance, Phases, Lifecycle!Lose, ruleVars
<1>7. ASSUME NEW c \in Checkers, EnterMaintenance(c) PROVE Lifecycle!Establish
  BY <1>7 DEF EnterMaintenance, Goto, Phases, Lifecycle!Establish,
     ruleVars
<1>8. CASE Crash
  BY <1>8 DEF Crash, Lifecycle!End, ruleVars
<1>9. CASE loop \notin {"off", "maintain"} /\ UNCHANGED state
  BY <1>9 DEF Phases, Lifecycle!Configure
<1>10. CASE UNCHANGED <<state, nrpt, fw>>
  BY <1>10
<1>. QED
  BY <1>1, <1>2, <1>3, <1>4, <1>5, <1>6, <1>7, <1>8, <1>9, <1>10, ZenonT(30)

\* The tunnel implements TunnelLifecycle: state follows its edges, and connect
\* adds rules only while the tunnel reports that it is (re)connecting.
THEOREM Refinement == Spec => KeepsLifecycle
<1>1. Inv => Phases
  BY DEF Inv
<1>2. Init => Lifecycle!Init
  BY InitLifecycle
<1>3. Phases /\ [Next]_vars => [Lifecycle!Next]_(Lifecycle!vars)
  BY NextLifecycle
<1>. QED
  BY <1>1, <1>2, <1>3, Invariance, PTL DEF Spec, KeepsLifecycle,
     Lifecycle!Spec
==============================================================================
