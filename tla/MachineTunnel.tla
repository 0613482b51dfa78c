---------------------------- MODULE MachineTunnel ----------------------------
(***************************************************************************)
(* The MachineTunnel of client/internal/tunnel/machine.go: Start and Stop,  *)
(* the goroutine that runs connectionLoop, the steps of connect, the health *)
(* checker that maintainConnection starts, and what all of them leave in    *)
(* the operating system: the WireGuard adapter, NRPT rules, firewall rules  *)
(* and routes.  The process may be killed at any point (taskkill, power);   *)
(* the operating system's state survives that, the tunnel's fields do not.  *)
(*                                                                          *)
(* Start and Stop are called by one goroutine (the service holds a mutex    *)
(* around both).  Within connect the context is looked at only by the       *)
(* calls that talk to the network; the local steps run to their end.        *)
(***************************************************************************)
EXTENDS Naturals

CONSTANTS
    Namespaces,           \* config.DNSNamespaces: one NRPT rule each
    DCs,                  \* the addresses config or bootstrap may allow
    Networks,             \* the prefixes routing peers may announce
    BaseInterval,         \* config.ReconnectInterval
    MaxInterval,          \* config.MaxReconnectInterval
    ConsecutiveFailures,  \* failed checks before onUnhealthy is called
    Checkers,             \* bound: health-check goroutines alive at a time
    MaxFaults,            \* bound: outages, adapter failures and kills together
    MaxFailures,          \* bound: a checker ticks until it counts so many failures
    CreateReplaces        \* whether Create replaces an existing adapter: the
                          \* answers the driver may give

ASSUME MachineTunnelAssumption ==
    /\ BaseInterval \in Nat \ {0}
    /\ MaxInterval \in Nat \ {0}
    /\ ConsecutiveFailures \in Nat \ {0}
    /\ MaxFaults \in Nat
    /\ MaxFailures \in Nat
    /\ CreateReplaces \in {{TRUE}, {FALSE}, BOOLEAN}
    /\ "deny" \notin DCs
    /\ "none" \notin Checkers

\* The fields of MachineTunnel that hold something to be closed.
Handles == {"wgInterface", "mgmClient", "peerEngine"}

\* Every rule comes as an inbound and an outbound one; "deny" is deny-default.
Pair(n) == {n} \X {"in", "out"}
FirewallRules == (DCs \cup {"deny"}) \X {"in", "out"}

MachineState == {"Disconnected", "Connecting", "Connected", "Reconnecting"}

LoopPC == {"off",        \* no connectionLoop goroutine
           "top",        \* head of the for loop
           "stale",      \* cleanupStaleResources
           "bootstrap",  \* toMachineConfig and Bootstrap
           "wg",         \* setupWireGuardInterface
           "nrpt",       \* configureNRPT, namespaces in todo left
           "fw",         \* configureFirewall, addresses in todo left
           "client",     \* createMgmClient
           "map",        \* GetNetworkMap
           "engine",     \* NewPeerEngine and Start
           "peers",      \* connectToRemotePeers
           "routes",     \* addWindowsSystemRoutes, prefixes in todo left
           "connected",  \* connect returned nil
           "maintain",   \* blocked in maintainConnection's select
           "failed"}     \* connect returned an error: the backoff select

\* Where the goroutine that calls Start and Stop is.  From "engine" on it is
\* in Cleanup.
CallerPC == {"idle", "join", "engine", "client", "nrpt", "fw", "routes",
             "iface", "stopped"}

VARIABLES
    caller,        \* control state of the caller of Start and Stop
    state,         \* t.state
    ctx,           \* "live" or "done": t.ctx
    loop,          \* control state of connectionLoop
    interval,      \* reconnectInterval
    todo,          \* what the for loop at hand has not reached yet
    dcIPs,         \* the addresses configureFirewall last worked on
    open,          \* the Handles that are not nil
    leaked,        \* the Handles of which an open one was dropped: nothing refers
                   \* to it any more
    activeRoutes,  \* t.activeRoutes
    unhealthyCh,   \* t.unhealthyCh: 0 or 1 signals in the buffer
    cur,           \* the checker maintainConnection waits for, or "none"
    hpc,           \* control state of each health-check goroutine
    failures,      \* consecutiveFailures of each checker
    bad,           \* the checkers whose check in hand found the adapter not up
    hstop,         \* the checkers that have been stopped
    device,        \* the adapter: "absent", "up" or "down"
    owner,         \* who holds the adapter: "field", "dropped" or "none"
    nrpt,          \* namespaces with an NRPT rule in the registry
    fw,            \* firewall rules in place
    routes,        \* system routes through the adapter
    dirty,         \* what the last removal of it left something of
    net,           \* "good": nothing fails that the environment can avoid
    faults         \* faults so far

callVars == <<caller, state, ctx>>
loopVars == <<loop, interval, todo, dcIPs>>
refVars == <<open, leaked, activeRoutes>>
checkVars == <<unhealthyCh, cur, hpc, failures, bad, hstop>>
devVars == <<device, owner, routes>>
ruleVars == <<nrpt, fw, dirty>>
envVars == <<net, faults>>
vars == <<caller, state, ctx, loop, interval, todo, dcIPs, open, leaked,
          activeRoutes, unhealthyCh, cur, hpc, failures, bad, hstop, device,
          owner, nrpt, fw, routes, dirty, net, faults>>

Init ==
    /\ caller = "idle" /\ state = "Disconnected" /\ ctx = "done"
    /\ loop = "off" /\ interval = BaseInterval /\ todo = {} /\ dcIPs = {}
    /\ open = {} /\ leaked = {} /\ activeRoutes = {}
    /\ unhealthyCh = 0 /\ cur = "none"
    /\ hpc = [c \in Checkers |-> "free"]
    /\ failures = [c \in Checkers |-> 0]
    /\ bad = {} /\ hstop = {}
    /\ device = "absent" /\ owner = "none" /\ routes = {}
    /\ nrpt = {} /\ fw = {} /\ dirty = {}
    /\ net = "good" /\ faults = 0

------------------------------------------------------------------------------
(***************************************************************************)
(* Removal of rules.  RemoveAllRules of either manager goes on after a rule *)
(* it could not delete and returns nil: what is left is any subset.         *)
(***************************************************************************)
Flag(d, what, left) == IF left = {} THEN d \ {what} ELSE d \cup {what}

\* The adapter is gone, and its routes with it.
DeviceGone == device' = "absent" /\ owner' = "none" /\ routes' = {}

(***************************************************************************)
(* The caller.                                                             *)
(***************************************************************************)
Start ==
    /\ caller \in {"idle", "stopped"}
    /\ state = "Disconnected"
    /\ ctx' = "live"
    /\ state' = "Connecting"
    /\ caller' = "idle"
    /\ loop' = "top" /\ interval' = BaseInterval /\ todo' = {}
    /\ UNCHANGED <<dcIPs, refVars, checkVars, devVars, ruleVars, envVars>>

\* Stop cancels the context and then waits for the loop.
Stop ==
    /\ caller \in {"idle", "stopped"}
    /\ ctx' = "done"
    /\ caller' = "join"
    /\ UNCHANGED <<state, loopVars, refVars, checkVars, devVars, ruleVars, envVars>>

\* Mutant of JoinLoop: Stop does not wait for the loop.
JoinLoopNoWait ==
    /\ caller = "join"
    /\ caller' = "engine"
    /\ UNCHANGED <<state, ctx, loopVars, refVars, checkVars, devVars, ruleVars, envVars>>

JoinLoop ==
    /\ caller = "join"
    /\ loop = "off"
    /\ caller' = "engine"
    /\ UNCHANGED <<state, ctx, loopVars, refVars, checkVars, devVars, ruleVars, envVars>>

\* Cleanup, one step per resource, in its order.  An error of Close is
\* collected and the field is cleared all the same.
CloseEngine ==
    /\ caller = "engine"
    /\ open' = open \ {"peerEngine"}
    /\ caller' = "client"
    /\ UNCHANGED <<state, ctx, leaked, activeRoutes, loopVars, checkVars, devVars,
                   ruleVars, envVars>>

CloseClient ==
    /\ caller = "client"
    /\ open' = open \ {"mgmClient"}
    /\ caller' = "nrpt"
    /\ UNCHANGED <<state, ctx, leaked, activeRoutes, loopVars, checkVars, devVars,
                   ruleVars, envVars>>

CleanupNRPT ==
    /\ caller = "nrpt"
    /\ \E left \in SUBSET nrpt :
          nrpt' = left /\ dirty' = Flag(dirty, "nrpt", left)
    /\ caller' = "fw"
    /\ UNCHANGED <<state, ctx, fw, loopVars, refVars, checkVars, devVars, envVars>>

CleanupFirewall ==
    /\ caller = "fw"
    /\ \E left \in SUBSET fw :
          fw' = left /\ dirty' = Flag(dirty, "fw", left)
    /\ caller' = "routes"
    /\ UNCHANGED <<state, ctx, nrpt, loopVars, refVars, checkVars, devVars, envVars>>

\* removeWindowsSystemRoutes forgets all routes before it deletes them one by
\* one; a route it cannot delete stays.  Without an interface it does nothing.
CleanupRoutes ==
    /\ caller = "routes"
    /\ IF "wgInterface" \in open
         THEN \E failed \in SUBSET activeRoutes :
                 /\ routes' = routes \ (activeRoutes \ failed)
                 /\ dirty' = Flag(dirty, "routes", routes')
                 /\ activeRoutes' = {}
         ELSE UNCHANGED <<routes, dirty, activeRoutes>>
    /\ caller' = "iface"
    /\ UNCHANGED <<state, ctx, open, leaked, device, owner, nrpt, fw, loopVars,
                   checkVars, envVars>>

\* WGIface.Close removes the adapter it holds; an adapter that is still there
\* afterwards is only disabled (Destroy).  Stop then sets the state.
CloseInterface ==
    /\ caller = "iface"
    /\ open' = open \ {"wgInterface"}
    /\ \/ "wgInterface" \in open /\ owner = "field" /\ DeviceGone
       \/ /\ "wgInterface" \in open
          /\ device' = IF device = "absent" THEN "absent" ELSE "down"
          /\ owner' = IF owner = "field" THEN "none" ELSE owner
          /\ UNCHANGED routes
       \/ "wgInterface" \notin open /\ UNCHANGED devVars
    /\ caller' = "stopped"
    /\ state' = "Disconnected"
    /\ UNCHANGED <<ctx, leaked, activeRoutes, loopVars, checkVars, ruleVars, envVars>>

CleanupStep ==
    CloseEngine \/ CloseClient \/ CleanupNRPT \/ CleanupFirewall \/ CleanupRoutes
        \/ CloseInterface

------------------------------------------------------------------------------
(***************************************************************************)
(* The connection loop and connect.                                        *)
(***************************************************************************)
Goto(from, to) == loop = from /\ loop' = to

\* connect returns an error only when the environment lets a step fail, or
\* when the step saw the cancelled context.
MayFail == net = "bad" \/ ctx = "done"

\* Mutant of LoopTop: the head of the loop does not look at the context.
LoopTopIgnoresContext ==
    /\ Goto("top", "stale")
    /\ UNCHANGED <<callVars, interval, todo, dcIPs, refVars, checkVars, devVars,
                   ruleVars, envVars>>

LoopTop ==
    /\ loop = "top"
    /\ loop' = IF ctx = "done" THEN "off" ELSE "stale"
    /\ UNCHANGED <<callVars, interval, todo, dcIPs, refVars, checkVars, devVars,
                   ruleVars, envVars>>

\* An adapter that is found is disabled with netsh, which may fail.
DisableStaleInterface == UNCHANGED device \/ (device = "up" /\ device' = "down")

\* First the adapter, then both kinds of rules.
CleanupStaleResources ==
    /\ Goto("stale", "bootstrap")
    /\ DisableStaleInterface
    /\ \E leftN \in SUBSET nrpt, leftF \in SUBSET fw :
          /\ nrpt' = leftN
          /\ fw' = leftF
          /\ dirty' = Flag(Flag(dirty, "nrpt", leftN), "fw", leftF)
    /\ UNCHANGED <<callVars, interval, todo, dcIPs, refVars, checkVars, owner, routes,
                   envVars>>

\* toMachineConfig and Bootstrap: authenticated, ...
BootstrapSucceeds ==
    /\ Goto("bootstrap", "wg")
    /\ UNCHANGED <<callVars, interval, todo, dcIPs, refVars, checkVars, devVars,
                   ruleVars, envVars>>

\* ... or refused.  While the server is unreachable the dial blocks, and only
\* a cancelled context is sure to end it.
BootstrapFails ==
    /\ MayFail
    /\ Goto("bootstrap", "failed")
    /\ UNCHANGED <<callVars, interval, todo, dcIPs, refVars, checkVars, devVars,
                   ruleVars, envVars>>

\* A handle stored over an open one drops the open one.
Store(h) ==
    /\ open' = open \cup {h}
    /\ leaked' = IF h \in open THEN leaked \cup {h} ELSE leaked

\* Create finds no adapter, or replaces the one it finds.
CreateMay == device = "absent" \/ TRUE \in CreateReplaces

\* setupWireGuardInterface: Create and Up succeed and the interface is stored.
SetupWireGuard ==
    /\ Goto("wg", "nrpt")
    /\ CreateMay
    /\ device' = "up" /\ owner' = "field" /\ routes' = {}
    /\ dirty' = dirty \ {"routes"}
    /\ Store("wgInterface")
    /\ todo' = Namespaces
    /\ UNCHANGED <<callVars, interval, dcIPs, activeRoutes, checkVars, nrpt, fw, envVars>>

\* Create fails: over an existing adapter, or for a reason of its own, in which
\* case an adapter it had already made is closed again.  Neither Create nor Up
\* takes the context.
CreateFails ==
    /\ Goto("wg", "failed")
    /\ \/ device # "absent" /\ FALSE \in CreateReplaces /\ UNCHANGED devVars
       \/ net = "bad" /\ UNCHANGED devVars
       \/ net = "bad" /\ CreateMay /\ DeviceGone
    /\ UNCHANGED <<callVars, interval, todo, dcIPs, refVars, checkVars, ruleVars, envVars>>

\* Create succeeds and Up fails: the new interface is neither stored nor closed.
UpFails ==
    /\ net = "bad"
    /\ Goto("wg", "failed")
    /\ CreateMay
    /\ device' \in {"up", "down"} /\ owner' = "dropped" /\ routes' = {}
    /\ dirty' = dirty \ {"routes"}
    /\ leaked' = leaked \cup {"wgInterface"}
    /\ UNCHANGED <<callVars, interval, todo, dcIPs, open, activeRoutes, checkVars,
                   nrpt, fw, envVars>>

\* AddRule writes the key of one namespace; a registry error may leave it behind
\* half-written.
RuleWritten(ns) == nrpt \cup {ns}
RuleBroken(ns) == {nrpt, nrpt \cup {ns}}

\* configureNRPT: one AddRule per namespace.  An error ends the loop, but not
\* connect.
AddNRPTRule(ns) ==
    /\ loop = "nrpt" /\ ns \in todo
    /\ \/ nrpt' = RuleWritten(ns) /\ todo' = todo \ {ns}
       \/ nrpt' \in RuleBroken(ns) /\ todo' = {}
    /\ UNCHANGED <<callVars, loop, interval, dcIPs, refVars, checkVars, devVars, fw, dirty,
                   envVars>>

\* configureFirewall takes the addresses of the config or else of the bootstrap
\* result, and has nothing to do when there are none.
BeginFirewall ==
    /\ loop = "nrpt" /\ todo = {}
    /\ \E ips \in SUBSET DCs :
          /\ dcIPs' = ips
          /\ todo' = ips
          /\ loop' = IF ips = {} THEN "client" ELSE "fw"
    /\ UNCHANGED <<callVars, interval, refVars, checkVars, devVars, ruleVars, envVars>>

\* Both managers' way to (re)write the rules of n: delete the pair, ignoring
\* errors, add the inbound rule, add the outbound rule.
PairWritten(n) == fw \cup Pair(n)

\* What an error of the first or of the second addition can leave.
PairBroken(n) ==
    { (fw \ Pair(n)) \cup kept : kept \in SUBSET ((fw \cap Pair(n)) \cup {<<n, "in">>}) }

\* Mutant of AllowDCTraffic: a failed address is skipped instead of ending the loop.
AllowDCTrafficSkips(ip) ==
    /\ loop = "fw" /\ ip \in todo
    /\ fw' \in {PairWritten(ip)} \cup PairBroken(ip)
    /\ todo' = todo \ {ip}
    /\ UNCHANGED <<callVars, loop, interval, dcIPs, refVars, checkVars, devVars, nrpt, dirty,
                   envVars>>

\* An address whose rules cannot be written ends configureFirewall before
\* deny-default is enabled; connect goes on.
AllowDCTraffic(ip) ==
    /\ loop = "fw" /\ ip \in todo
    /\ \/ fw' = PairWritten(ip) /\ todo' = todo \ {ip} /\ UNCHANGED loop
       \/ fw' \in PairBroken(ip) /\ todo' = {} /\ loop' = "client"
    /\ UNCHANGED <<callVars, interval, dcIPs, refVars, checkVars, devVars, nrpt, dirty,
                   envVars>>

EnableDenyDefault ==
    /\ loop = "fw" /\ todo = {}
    /\ fw' \in {PairWritten("deny")} \cup PairBroken("deny")
    /\ loop' = "client"
    /\ UNCHANGED <<callVars, interval, todo, dcIPs, refVars, checkVars, devVars, nrpt, dirty,
                   envVars>>

\* initializePeerEngine: the management client, ...
CreateMgmClient ==
    /\ loop = "client"
    /\ \/ loop' = "map" /\ Store("mgmClient")
       \/ MayFail /\ loop' = "failed" /\ UNCHANGED <<open, leaked>>
    /\ UNCHANGED <<callVars, interval, todo, dcIPs, activeRoutes, checkVars, devVars,
                   ruleVars, envVars>>

\* ... the network map, which may name no peers (connect is then done), ...
GetNetworkMap ==
    /\ loop = "map"
    /\ loop' \in {"engine", "connected"} \cup (IF MayFail THEN {"failed"} ELSE {})
    /\ UNCHANGED <<callVars, interval, todo, dcIPs, refVars, checkVars, devVars,
                   ruleVars, envVars>>

\* ... the engine, whose Start returns no error, ...
StartPeerEngine ==
    /\ loop = "engine"
    /\ \/ loop' = "peers" /\ Store("peerEngine")
       \/ MayFail /\ loop' = "failed" /\ UNCHANGED <<open, leaked>>
    /\ UNCHANGED <<callVars, interval, todo, dcIPs, activeRoutes, checkVars, devVars,
                   ruleVars, envVars>>

\* ... and the peers.  All of them failing is an error that connect ignores;
\* otherwise the networks of the routing peers get system routes, if the
\* adapter can be found.
ConnectToRemotePeers ==
    /\ loop = "peers"
    /\ \/ loop' = "connected" /\ UNCHANGED todo
       \/ /\ device # "absent"
          /\ loop' = "routes"
          /\ todo' \in SUBSET Networks
    /\ UNCHANGED <<callVars, interval, dcIPs, refVars, checkVars, devVars, ruleVars, envVars>>

\* Mutant of AddSystemRoute: the route is not tracked.
AddSystemRouteUntracked(p) ==
    /\ loop = "routes" /\ p \in todo
    /\ todo' = todo \ {p}
    /\ device # "absent" /\ routes' = routes \cup {p}
    /\ UNCHANGED <<callVars, loop, interval, dcIPs, open, leaked, activeRoutes, checkVars,
                   device, owner, ruleVars, envVars>>

\* A route is tracked in activeRoutes once the system has it.
AddSystemRoute(p) ==
    /\ loop = "routes" /\ p \in todo
    /\ todo' = todo \ {p}
    /\ \/ /\ device # "absent" /\ p \notin routes
          /\ routes' = routes \cup {p}
          /\ activeRoutes' = activeRoutes \cup {p}
       \/ UNCHANGED <<routes, activeRoutes>>
    /\ UNCHANGED <<callVars, loop, interval, dcIPs, open, leaked, checkVars, device, owner,
                   ruleVars, envVars>>

RoutesAdded ==
    /\ loop = "routes" /\ todo = {}
    /\ loop' = "connected"
    /\ UNCHANGED <<callVars, interval, todo, dcIPs, refVars, checkVars, devVars,
                   ruleVars, envVars>>

\* Mutant of EnterMaintenance: a checker that was stopped is taken up again as
\* it is.
EnterMaintenanceReuses(c) ==
    /\ Goto("connected", "maintain")
    /\ interval' = BaseInterval
    /\ state' = "Connected"
    /\ hpc[c] = "free"
    /\ hpc' = [hpc EXCEPT ![c] = "check"]
    /\ failures' = [failures EXCEPT ![c] = 0]
    /\ cur' = c
    /\ UNCHANGED <<caller, ctx, todo, dcIPs, refVars, unhealthyCh, bad, hstop, devVars,
                   ruleVars, envVars>>

\* connect returned nil: the backoff is reset, the state set, and
\* maintainConnection starts a checker of its own.
EnterMaintenance(c) ==
    /\ Goto("connected", "maintain")
    /\ interval' = BaseInterval
    /\ state' = "Connected"
    /\ hpc[c] = "free"
    /\ hpc' = [hpc EXCEPT ![c] = "check"]
    /\ failures' = [failures EXCEPT ![c] = 0]
    /\ hstop' = hstop \ {c}
    /\ cur' = c
    /\ UNCHANGED <<caller, ctx, todo, dcIPs, refVars, unhealthyCh, bad, devVars, ruleVars,
                   envVars>>

\* Mutant of LeaveMaintenance: the signal is looked at but not received.
LeaveMaintenancePeeks ==
    /\ loop = "maintain"
    /\ ctx = "done" \/ unhealthyCh = 1
    /\ hstop' = hstop \cup {cur}
    /\ cur' = "none"
    /\ IF ctx = "done"
         THEN loop' = "off" /\ UNCHANGED state
         ELSE loop' = "top" /\ state' = "Reconnecting"
    /\ UNCHANGED <<caller, ctx, interval, todo, dcIPs, refVars, unhealthyCh, hpc, failures,
                   bad, devVars, ruleVars, envVars>>

\* Mutant of LeaveMaintenance: the loop goes back to connect without a change of
\* state.
LeaveMaintenanceSilently ==
    /\ loop = "maintain"
    /\ \/ ctx = "done" /\ UNCHANGED unhealthyCh
       \/ unhealthyCh = 1 /\ unhealthyCh' = 0
    /\ hstop' = hstop \cup {cur}
    /\ cur' = "none"
    /\ loop' = IF ctx = "done" THEN "off" ELSE "top"
    /\ UNCHANGED <<callVars, interval, todo, dcIPs, refVars, hpc, failures, bad, devVars,
                   ruleVars, envVars>>

\* The select of maintainConnection, its deferred Stop of the checker, and the
\* loop's look at the context afterwards.  Nothing is cleaned up before the
\* next connect.
LeaveMaintenance ==
    /\ loop = "maintain"
    /\ \/ ctx = "done" /\ UNCHANGED unhealthyCh
       \/ unhealthyCh = 1 /\ unhealthyCh' = 0
    /\ hstop' = hstop \cup {cur}
    /\ cur' = "none"
    /\ IF ctx = "done"
         THEN loop' = "off" /\ UNCHANGED state
         ELSE loop' = "top" /\ state' = "Reconnecting"
    /\ UNCHANGED <<caller, ctx, interval, todo, dcIPs, refVars, hpc, failures, bad, devVars,
                   ruleVars, envVars>>

Min2(a, b) == IF a < b THEN a ELSE b

\* Mutant of Backoff: the doubled interval is not capped.
BackoffUncapped ==
    /\ Goto("failed", "top")
    /\ interval' = 2 * interval
    /\ UNCHANGED <<callVars, todo, dcIPs, refVars, checkVars, devVars, ruleVars, envVars>>

\* The backoff select: the timer, ...
Backoff ==
    /\ Goto("failed", "top")
    /\ interval' = Min2(2 * interval, MaxInterval)
    /\ UNCHANGED <<callVars, todo, dcIPs, refVars, checkVars, devVars, ruleVars, envVars>>

\* ... or the context.
GiveUp ==
    /\ ctx = "done"
    /\ Goto("failed", "off")
    /\ UNCHANGED <<callVars, interval, todo, dcIPs, refVars, checkVars, devVars, ruleVars,
                   envVars>>

------------------------------------------------------------------------------
(***************************************************************************)
(* The health-check goroutines (module HealthChecker has them in detail).   *)
(* A stopped one finishes the check it is in.                               *)
(***************************************************************************)
SampleAdapter(c) ==
    /\ hpc[c] = "check"
    /\ bad' = IF device = "up" THEN bad \ {c} ELSE bad \cup {c}
    /\ hpc' = [hpc EXCEPT ![c] = "apply"]
    /\ UNCHANGED <<callVars, loopVars, refVars, unhealthyCh, cur, failures, hstop, devVars,
                   ruleVars, envVars>>

\* Mutant of PerformCheck: every failing check past the threshold queues a signal
\* of its own.
PerformCheckQueues(c) ==
    /\ hpc[c] = "apply"
    /\ hpc' = [hpc EXCEPT ![c] = "select"]
    /\ bad' = bad \ {c}
    /\ failures' = [failures EXCEPT ![c] = IF c \in bad THEN @ + 1 ELSE 0]
    /\ unhealthyCh' = IF c \in bad /\ failures[c] + 1 >= ConsecutiveFailures
                        THEN unhealthyCh + 1 ELSE unhealthyCh
    /\ UNCHANGED <<callVars, loopVars, refVars, cur, hstop, devVars, ruleVars, envVars>>

\* performCheck counts, and at the threshold signals without blocking: a signal
\* already in the buffer stays alone.
PerformCheck(c) ==
    /\ hpc[c] = "apply"
    /\ hpc' = [hpc EXCEPT ![c] = "select"]
    /\ bad' = bad \ {c}
    /\ IF c \in bad
         THEN /\ failures' = [failures EXCEPT ![c] = @ + 1]
              /\ unhealthyCh' = IF failures[c] + 1 >= ConsecutiveFailures
                                  THEN 1 ELSE unhealthyCh
         ELSE /\ failures' = [failures EXCEPT ![c] = 0]
              /\ UNCHANGED unhealthyCh
    /\ UNCHANGED <<callVars, loopVars, refVars, cur, hstop, devVars, ruleVars, envVars>>

\* A check takes less than the check interval, so a goroutine that comes back to
\* its select after Stop finds the closed channel and no tick.
Tick(c) ==
    /\ hpc[c] = "select"
    /\ c \notin hstop /\ ctx = "live"
    /\ failures[c] < MaxFailures
    /\ hpc' = [hpc EXCEPT ![c] = "check"]
    /\ UNCHANGED <<callVars, loopVars, refVars, unhealthyCh, cur, failures, bad, hstop, devVars,
                   ruleVars, envVars>>

ExitChecker(c) ==
    /\ hpc[c] = "select"
    /\ c \in hstop \/ ctx = "done"
    /\ hpc' = [hpc EXCEPT ![c] = "free"]
    /\ failures' = [failures EXCEPT ![c] = 0]
    /\ UNCHANGED <<callVars, loopVars, refVars, unhealthyCh, cur, bad, hstop, devVars,
                   ruleVars, envVars>>

------------------------------------------------------------------------------
(***************************************************************************)
(* The environment.                                                        *)
(***************************************************************************)
Fault == faults < MaxFaults /\ faults' = faults + 1

Outage ==
    /\ Fault /\ net = "good" /\ net' = "bad"
    /\ UNCHANGED <<callVars, loopVars, refVars, checkVars, devVars, ruleVars>>

OutageEnds ==
    /\ net = "bad" /\ net' = "good"
    /\ UNCHANGED <<callVars, loopVars, refVars, checkVars, devVars, ruleVars, faults>>

\* The adapter goes down under a connected tunnel, or vanishes with its routes.
DeviceFails ==
    /\ Fault /\ device = "up"
    /\ \/ device' = "down" /\ UNCHANGED <<owner, routes>>
       \/ DeviceGone
    /\ UNCHANGED <<callVars, loopVars, refVars, checkVars, ruleVars, net>>

DeviceRecovers ==
    /\ device = "down" /\ loop = "maintain"
    /\ device' = "up"
    /\ UNCHANGED <<callVars, loopVars, refVars, checkVars, owner, routes, ruleVars, envVars>>

\* The process is killed.  Its handles and fields are gone; the rules stay, and
\* the adapter may.  A new process starts with a new MachineTunnel.
Crash ==
    /\ Fault
    /\ caller' = "idle" /\ state' = "Disconnected" /\ ctx' = "done"
    /\ loop' = "off" /\ interval' = BaseInterval /\ todo' = {}
    /\ open' = {} /\ leaked' = {} /\ activeRoutes' = {}
    /\ unhealthyCh' = 0 /\ cur' = "none"
    /\ hpc' = [c \in Checkers |-> "free"]
    /\ failures' = [c \in Checkers |-> 0]
    /\ bad' = {} /\ hstop' = {}
    /\ \/ DeviceGone
       \/ owner' = "none" /\ UNCHANGED <<device, routes>>
    /\ UNCHANGED <<dcIPs, ruleVars, net>>

------------------------------------------------------------------------------
CallerNext == Start \/ Stop \/ JoinLoop \/ CleanupStep

ConnectStep ==
    \/ CleanupStaleResources \/ BootstrapSucceeds \/ BootstrapFails \/ SetupWireGuard \/ CreateFails
    \/ UpFails \/ BeginFirewall \/ EnableDenyDefault \/ CreateMgmClient
    \/ GetNetworkMap \/ StartPeerEngine \/ ConnectToRemotePeers \/ RoutesAdded
    \/ \E ns \in Namespaces : AddNRPTRule(ns)
    \/ \E ip \in DCs : AllowDCTraffic(ip)
    \/ \E p \in Networks : AddSystemRoute(p)

LoopStep ==
    \/ LoopTop \/ ConnectStep \/ LeaveMaintenance \/ Backoff \/ GiveUp
    \/ \E c \in Checkers : EnterMaintenance(c)

CheckerStep(c) == SampleAdapter(c) \/ PerformCheck(c) \/ Tick(c) \/ ExitChecker(c)

Environment == Outage \/ OutageEnds \/ DeviceFails \/ DeviceRecovers \/ Crash

Next ==
    \/ CallerNext \/ LoopStep \/ Environment
    \/ \E c \in Checkers : CheckerStep(c)

Spec == Init /\ [][Next]_vars

\* Goroutines that can run do, and timers fire.  A Stop that has begun goes on;
\* nobody has to call one.  Bootstrap has to end only once the server can be
\* reached or the context is cancelled.
Fairness ==
    /\ WF_vars(JoinLoop \/ CleanupStep)
    /\ WF_vars(LoopStep /\ (loop = "bootstrap" => net = "good" \/ ctx = "done"))
    /\ \A c \in Checkers : WF_vars(CheckerStep(c))

FairSpec == Spec /\ Fairness

------------------------------------------------------------------------------

\* Every variable has a value of its type: no more than one signal waits in
\* unhealthyCh however many checkers give one, and the rules, routes and handles
\* are ones connect makes.
TypeOK ==
    /\ caller \in CallerPC
    /\ state \in MachineState
    /\ ctx \in {"live", "done"}
    /\ loop \in LoopPC
    /\ interval \in Nat
    /\ todo \in SUBSET (Namespaces \cup DCs \cup Networks)
    /\ dcIPs \in SUBSET DCs
    /\ open \in SUBSET Handles
    /\ leaked \in SUBSET Handles
    /\ activeRoutes \in SUBSET Networks
    /\ unhealthyCh \in {0, 1}
    /\ cur \in Checkers \cup {"none"}
    /\ hpc \in [Checkers -> {"free", "check", "apply", "select"}]
    /\ failures \in [Checkers -> Nat]
    /\ bad \in SUBSET Checkers
    /\ hstop \in SUBSET Checkers
    /\ device \in {"absent", "up", "down"}
    /\ owner \in {"field", "dropped", "none"}
    /\ nrpt \in SUBSET Namespaces
    /\ fw \in SUBSET FirewallRules
    /\ routes \in SUBSET Networks
    /\ dirty \in SUBSET {"nrpt", "fw", "routes"}
    /\ net \in {"good", "bad"}
    /\ faults \in 0 .. MaxFaults

\* Stop joins the loop before Cleanup, so no step of connect falls into or
\* after Cleanup, and a Start that is not refused finds no loop running.
LoopJoined ==
    (caller \notin {"idle", "join"} \/ state = "Disconnected") => loop = "off"

\* When Stop has returned, nothing the tunnel put in place is left behind:
\* neither fields nor NRPT or firewall rules, save rules whose removal failed.
StopLeavesNothing ==
    caller = "stopped" =>
        /\ open = {} /\ activeRoutes = {}
        /\ nrpt # {} => "nrpt" \in dirty
        /\ fw # {} => "fw" \in dirty

\* Deny-default never cuts off a domain controller: whenever a deny rule is in
\* place, so are both allow rules of every address being allowed, through
\* failures, kills and reconnects, unless a removal of old rules went wrong.
DenyOnlyWithAllows ==
    ("fw" \notin dirty /\ fw \cap Pair("deny") # {}) =>
        \A ip \in dcIPs : Pair(ip) \subseteq fw

\* Every route through an adapter this process made is one Cleanup will
\* remove, unless its removal has already been tried and failed.
RoutesTracked ==
    ("routes" \notin dirty /\ owner # "none") => routes \subseteq activeRoutes

\* The wait between attempts stays between the two configured durations, and a
\* success brings it back to the first.
BackoffBounded ==
    /\ interval = BaseInterval \/ interval <= MaxInterval
    /\ interval >= Min2(BaseInterval, MaxInterval)
    /\ loop = "maintain" => interval = BaseInterval

\* A tunnel that reports Connected is watched: the checker that
\* maintainConnection waits for is alive and has not been stopped.
Monitored ==
    (loop = "maintain" /\ ctx = "live") =>
        cur \in Checkers /\ hpc[cur] # "free" /\ cur \notin hstop

\* A Stop that has begun returns (or the process is killed): no dial, backoff or
\* health wait outlives the cancelled context.
StopReturns ==
    caller = "join" ~> caller \in {"stopped", "idle"}

\* Once faults have ceased, nobody stops the tunnel and Create does not go on
\* failing, it ends up connected over a working adapter and stays so: signals
\* left over from stopped checkers do not keep it reconnecting.  Create can go
\* on failing without a fault where the driver refuses an existing adapter:
\* cleanupStaleWireGuardInterface only disables the adapter it finds.
Recovers ==
    <>[](net = "good" /\ ctx = "live") /\ <>[][~CreateFails]_vars
        => <>[](state = "Connected" /\ device = "up")

\* The tunnel keeps the promise of TunnelLifecycle.
Lifecycle == INSTANCE TunnelLifecycle WITH phase <- state, rules <- nrpt \cup fw

\* Seen from outside, the states follow the lifecycle's edges, and connect adds
\* rules only under the states that announce it: never while Connected, and
\* never after a Stop.
KeepsLifecycle == Lifecycle!Spec

\* The comment on Cleanup: it closes PeerEngine and management client.  A Stop
\* that has returned leaves none of this process's open.
StopClosesHandles ==
    caller = "stopped" => leaked \cap {"peerEngine", "mgmClient"} = {}
==============================================================================
