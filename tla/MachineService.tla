---------------------------- MODULE MachineService ----------------------------
(***************************************************************************)
(* The Windows service around the tunnel (service_windows.go): Execute,     *)
(* which starts the tunnel in a goroutine and waits for it for 25 s, and    *)
(* stopMachineTunnel, which runs Stop in a goroutine, waits for it for 10 s *)
(* and then calls Cleanup itself.  When the wait times out, the loop, the   *)
(* Cleanup of Stop and the Cleanup of the service all run at once, on       *)
(* fields that no mutex protects.                                           *)
(*                                                                          *)
(* Module MachineTunnel has the tunnel in detail, with one Cleanup at a     *)
(* time.  Here connect and Cleanup are modelled at the grain of their reads *)
(* and writes of the fields peerEngine, mgmClient and wgInterface, and the  *)
(* rules and routes of a kind are one thing.                                *)
(***************************************************************************)
EXTENDS Naturals, Sequences

CONSTANTS
    Timeouts      \* the waits that may run out: a subset of {"start", "stop"}

ASSUME MachineServiceAssumption == Timeouts \subseteq {"start", "stop"}

\* Cleanup, in its order.
Order == <<"peerEngine", "mgmClient", "nrpt", "fw", "routes", "wgInterface">>
Rules == {"nrpt", "fw"}
Fields == {"peerEngine", "mgmClient", "wgInterface"}

\* Who runs it: the goroutine of Stop, and the service.
Cleaners == {"stop", "service"}

VARIABLES
    main,      \* control state of Execute
    starter,   \* control state of the goroutine that runs startMachineTunnel
    startErr,  \* what it has sent: "none", "nil" or "error"
    mu,        \* who holds h.mu: "free", "starter" or "main"
    stopped,   \* "yes" once h.stopped is set
    tunnel,    \* h.tunnel: "nil" or "started"
    ctx,       \* "live" or "done"
    loop,      \* control state of connectionLoop
    stop,      \* the goroutine that runs Stop: "none", "join", "clean", "done"
    step,      \* the position in Order of each Cleanup; 0: not running
    phase,     \* what each Cleanup does at its step: "test", "take", "use", "clear"
    there,     \* the rules and routes in place and the fields that are not nil
    tracked,   \* "yes" if activeRoutes has the routes
    timedOut,  \* "yes" once the wait for Stop has run out
    process    \* "alive", "panicked" or "exited"

vars == <<main, starter, startErr, mu, stopped, tunnel, ctx, loop, stop, step,
          phase, there, tracked, timedOut, process>>

\* The variables of the service, of the tunnel's loop and of the two Cleanups.
execVars == <<main, starter, startErr, mu, stopped, tunnel, ctx, timedOut>>
loopVars == <<loop, stop>>
cleanVars == <<step, phase>>
fieldVars == <<there, tracked>>
tunnelVars == <<loopVars, cleanVars, fieldVars, process>>

Init ==
    /\ main = "wait" /\ starter = "lock" /\ startErr = "none"
    /\ mu = "free" /\ stopped = "no" /\ tunnel = "nil" /\ ctx = "live"
    /\ loop = "off" /\ stop = "none"
    /\ step = [c \in Cleaners |-> 0] /\ phase = [c \in Cleaners |-> "test"]
    /\ there = {} /\ tracked = "no" /\ timedOut = "no" /\ process = "alive"

Alive == process = "alive"

(***************************************************************************)
(* startMachineTunnel, in its goroutine.                                   *)
(***************************************************************************)
StarterLocks ==
    /\ Alive /\ starter = "lock" /\ mu = "free"
    /\ mu' = "starter" /\ starter' = "locked"
    /\ UNCHANGED <<main, startErr, stopped, tunnel, ctx, timedOut, tunnelVars>>

\* Mutant of StarterReturns: an error return that leaves the mutex locked.
StarterReturnsLocked(err) ==
    /\ mu' = (IF err = "nil" THEN "free" ELSE mu)
    /\ starter' = "done" /\ startErr' = err
    /\ UNCHANGED <<main, stopped, ctx, timedOut, stop, cleanVars, fieldVars, process>>

StarterReturns(err) ==
    /\ mu' = "free"
    /\ starter' = "done" /\ startErr' = err
    /\ UNCHANGED <<main, stopped, ctx, timedOut, stop, cleanVars, fieldVars, process>>

\* Mutant of StartMachineTunnel: h.stopped is not looked at.
StartMachineTunnelLate ==
    /\ Alive /\ starter = "locked"
    /\ \/ StarterReturns("error") /\ UNCHANGED <<tunnel, loop>>
       \/ StarterReturns("nil") /\ tunnel' = "started" /\ loop' = "top"

\* It refuses when the service is stopping; an error of loadConfig or of
\* NewMachineTunnel leaves h.tunnel nil.  Start of a new tunnel succeeds.
StartMachineTunnel ==
    /\ Alive /\ starter = "locked"
    /\ \/ StarterReturns("error") /\ UNCHANGED <<tunnel, loop>>
       \/ /\ stopped = "no"
          /\ StarterReturns("nil")
          /\ tunnel' = "started" /\ loop' = "top"

------------------------------------------------------------------------------
(***************************************************************************)
(* Execute and stopMachineTunnel, in the service's goroutine.              *)
(***************************************************************************)

\* A start that failed ends the service ...
StartFailed ==
    /\ Alive /\ main = "wait" /\ startErr = "error"
    /\ main' = "returned"
    /\ UNCHANGED <<starter, startErr, mu, stopped, tunnel, ctx, timedOut, tunnelVars>>

\* ... one that succeeded, or takes longer than 25 s, lets it run.
ReportRunning ==
    /\ Alive /\ main = "wait"
    /\ startErr = "nil" \/ "start" \in Timeouts
    /\ main' = "running"
    /\ UNCHANGED <<starter, startErr, mu, stopped, tunnel, ctx, timedOut, tunnelVars>>

StopRequested ==
    /\ Alive /\ main = "running"
    /\ main' = "lock"
    /\ UNCHANGED <<starter, startErr, mu, stopped, tunnel, ctx, timedOut, tunnelVars>>

\* h.stopped is set, the context is cancelled, and Stop is started if there is
\* a tunnel to stop.
StopMachineTunnel ==
    /\ Alive /\ main = "lock" /\ mu = "free"
    /\ mu' = "main" /\ stopped' = "yes" /\ ctx' = "done"
    /\ IF tunnel = "nil"
         THEN main' = "unlock" /\ UNCHANGED stop
         ELSE main' = "waitStop" /\ stop' = "join"
    /\ UNCHANGED <<starter, startErr, tunnel, timedOut, loop, cleanVars, fieldVars, process>>

\* Mutant of WaitStop: the service does not wait for Stop.
WaitStopNot ==
    /\ Alive /\ main = "waitStop"
    /\ main' = "cleanup" /\ step' = [step EXCEPT !["service"] = 1]
    /\ UNCHANGED <<starter, startErr, mu, stopped, tunnel, ctx, timedOut, loopVars, phase,
                   fieldVars, process>>

\* Stop is done, or 10 s have passed; either way Cleanup is called again.
WaitStop ==
    /\ Alive /\ main = "waitStop"
    /\ \/ stop = "done" /\ UNCHANGED timedOut
       \/ "stop" \in Timeouts /\ timedOut' = "yes"
    /\ main' = "cleanup" /\ step' = [step EXCEPT !["service"] = 1]
    /\ UNCHANGED <<starter, startErr, mu, stopped, tunnel, ctx, loopVars, phase, fieldVars,
                   process>>

CleanupReturned ==
    /\ Alive /\ main = "cleanup" /\ step["service"] > Len(Order)
    /\ main' = "unlock"
    /\ UNCHANGED <<starter, startErr, mu, stopped, tunnel, ctx, timedOut, tunnelVars>>

ReturnFromExecute ==
    /\ Alive /\ main = "unlock"
    /\ mu' = "free" /\ main' = "returned"
    /\ UNCHANGED <<starter, startErr, stopped, tunnel, ctx, timedOut, tunnelVars>>

\* The process ends once Execute has returned; what runs, runs until then.
Exit ==
    /\ Alive /\ main = "returned"
    /\ process' = "exited"
    /\ UNCHANGED <<execVars, loopVars, cleanVars, fieldVars>>

------------------------------------------------------------------------------
(***************************************************************************)
(* connectionLoop and connect.                                             *)
(***************************************************************************)
Panic ==
    /\ process' = "panicked"
    /\ UNCHANGED <<execVars, loopVars, cleanVars, fieldVars>>

LoopTo(pc) ==
    /\ loop' = pc
    /\ UNCHANGED <<execVars, stop, cleanVars, process>>

\* connect begins with cleanupStaleResources, unless the context is done.
LoopTop ==
    /\ Alive /\ loop = "top"
    /\ IF ctx = "done"
         THEN LoopTo("off") /\ UNCHANGED fieldVars
         ELSE LoopTo("wgInterface") /\ there' = there \ Rules /\ UNCHANGED tracked

\* Bootstrap, setupWireGuardInterface, createMgmClient with GetNetworkMap, and
\* NewPeerEngine: connect goes on or fails.  A map without peers ends it early.
SetField(field, pc) ==
    /\ Alive /\ loop = field
    /\ \/ LoopTo(pc) /\ there' = there \cup {field}
       \/ LoopTo("backoff") /\ UNCHANGED there
       \/ field = "mgmClient" /\ there' = there \cup {field} /\ LoopTo("connected")
       \/ field = "mgmClient" /\ there' = there \cup {field} /\ LoopTo("backoff")
    /\ UNCHANGED tracked

\* The rules are added without a look at the context; they may not be
\* configured, and adding them may fail.
AddRules(kind, pc) ==
    /\ Alive /\ loop = kind
    /\ LoopTo(pc)
    /\ there' \in {there, there \cup {kind}}
    /\ UNCHANGED tracked

\* t.peerEngine.Start() reads the field again.
StartEngine ==
    /\ Alive /\ loop = "start"
    /\ IF "peerEngine" \in there THEN LoopTo("peers") /\ UNCHANGED fieldVars ELSE Panic

\* connectToRemotePeers tests the field ...
TestEngine ==
    /\ Alive /\ loop = "peers"
    /\ LoopTo(IF "peerEngine" \in there THEN "connectPeers" ELSE "connected")
    /\ UNCHANGED fieldVars

\* ... and its goroutines read it once more.  If every peer fails, or none has
\* routes, connect is done.
ConnectPeers ==
    /\ Alive /\ loop = "connectPeers"
    /\ IF "peerEngine" \in there
         THEN (LoopTo("routes") \/ LoopTo("connected")) /\ UNCHANGED fieldVars
         ELSE Panic

\* addWindowsSystemRoutes tests wgInterface ...
TestInterface ==
    /\ Alive /\ loop = "routes"
    /\ LoopTo(IF "wgInterface" \in there THEN "addRoutes" ELSE "connected")
    /\ UNCHANGED fieldVars

\* ... and reads it again for its name; the routes are tracked when added.
AddRoutes ==
    /\ Alive /\ loop = "addRoutes"
    /\ IF "wgInterface" \notin there
         THEN Panic
         ELSE /\ LoopTo("connected")
              /\ \/ there' = there \cup {"routes"} /\ tracked' = "yes"
                 \/ UNCHANGED fieldVars

\* maintainConnection ends with the context or an unhealthy tunnel, the backoff
\* with the context or its timer.
LeaveMaintenance ==
    /\ Alive /\ loop = "connected"
    /\ LoopTo(IF ctx = "done" THEN "off" ELSE "top")
    /\ UNCHANGED fieldVars

Backoff ==
    /\ Alive /\ loop = "backoff"
    /\ LoopTo("top") \/ (ctx = "done" /\ LoopTo("off"))
    /\ UNCHANGED fieldVars

------------------------------------------------------------------------------
(***************************************************************************)
(* Stop and Cleanup.                                                       *)
(***************************************************************************)
StopJoins ==
    /\ Alive /\ stop = "join" /\ loop = "off"
    /\ stop' = "clean" /\ step' = [step EXCEPT !["stop"] = 1]
    /\ UNCHANGED <<execVars, loop, phase, fieldVars, process>>

At(c) == Order[step[c]]
InCleanup(c) == step[c] \in 1 .. Len(Order)

\* For the routes it is wgInterface that is tested and used.
Field(c) == IF At(c) = "routes" THEN "wgInterface" ELSE At(c)

NextStep(c) ==
    /\ step' = [step EXCEPT ![c] = @ + 1]
    /\ phase' = [phase EXCEPT ![c] = "test"]
    /\ UNCHANGED process

ToPhase(c, p) ==
    /\ phase' = [phase EXCEPT ![c] = p]
    /\ UNCHANGED <<step, process>>

\* RemoveAllRules looks at no field.
RemoveRules(c) ==
    /\ Alive /\ InCleanup(c) /\ At(c) \in Rules
    /\ there' = there \ {At(c)}
    /\ NextStep(c)
    /\ UNCHANGED <<execVars, loopVars, tracked>>

\* Mutant of TestField: a nil field makes Cleanup pass over the next step as well.
TestFieldSkipsTwo(c) ==
    /\ Alive /\ InCleanup(c) /\ At(c) \notin Rules /\ phase[c] = "test"
    /\ IF Field(c) \notin there
         THEN step' = [step EXCEPT ![c] = @ + 2] /\ UNCHANGED <<phase, process>>
         ELSE ToPhase(c, IF At(c) = "routes" THEN "take" ELSE "use")
    /\ UNCHANGED <<execVars, loopVars, fieldVars>>

\* "if t.field != nil": a nil field is skipped.
TestField(c) ==
    /\ Alive /\ InCleanup(c) /\ At(c) \notin Rules /\ phase[c] = "test"
    /\ IF Field(c) \notin there
         THEN NextStep(c)
         ELSE ToPhase(c, IF At(c) = "routes" THEN "take" ELSE "use")
    /\ UNCHANGED <<execVars, loopVars, fieldVars>>

\* activeRoutes is copied and reset under its mutex; without routes that is all.
TakeRoutes(c) ==
    /\ Alive /\ InCleanup(c) /\ phase[c] = "take"
    /\ IF tracked = "no" THEN NextStep(c) ELSE ToPhase(c, "use")
    /\ tracked' = "no"
    /\ UNCHANGED <<execVars, loopVars, there>>

\* The field is read again to call its method: if it has become nil since it
\* was tested, the call panics and takes the process down.
UseField(c) ==
    /\ Alive /\ InCleanup(c) /\ phase[c] = "use"
    /\ IF Field(c) \notin there
         THEN Panic
         ELSE /\ ToPhase(c, "clear")
              /\ UNCHANGED <<execVars, loopVars, fieldVars>>

\* The routes are removed, or the field is set to nil.
ClearField(c) ==
    /\ Alive /\ InCleanup(c) /\ phase[c] = "clear"
    /\ there' = there \ {At(c)}
    /\ NextStep(c)
    /\ UNCHANGED <<execVars, loopVars, tracked>>

StopReturns ==
    /\ Alive /\ stop = "clean" /\ step["stop"] > Len(Order)
    /\ stop' = "done"
    /\ UNCHANGED <<execVars, loop, cleanVars, fieldVars, process>>

------------------------------------------------------------------------------
Starter == StarterLocks \/ StartMachineTunnel

Main ==
    \/ StartFailed \/ ReportRunning \/ StopMachineTunnel \/ WaitStop \/ CleanupReturned
    \/ ReturnFromExecute \/ Exit

Loop ==
    \/ LoopTop
    \/ SetField("wgInterface", "nrpt") \/ AddRules("nrpt", "fw") \/ AddRules("fw", "mgmClient")
    \/ SetField("mgmClient", "peerEngine") \/ SetField("peerEngine", "start")
    \/ StartEngine \/ TestEngine \/ ConnectPeers \/ TestInterface \/ AddRoutes
    \/ LeaveMaintenance \/ Backoff

Cleanup(c) == RemoveRules(c) \/ TestField(c) \/ TakeRoutes(c) \/ UseField(c) \/ ClearField(c)

Next ==
    \/ Starter \/ Main \/ StopRequested \/ Loop \/ StopJoins \/ StopReturns
    \/ \E c \in Cleaners : Cleanup(c)

\* Goroutines that can run do; nobody has to ask for a stop.  Every wait of the
\* loop ends with the context, which is what WF_vars(Loop) stands for.
Fairness ==
    /\ WF_vars(Starter) /\ WF_vars(Main)
    /\ WF_vars(Loop) /\ WF_vars(StopJoins) /\ WF_vars(StopReturns)
    /\ \A c \in Cleaners : WF_vars(Cleanup(c))

Spec == Init /\ [][Next]_vars

FairSpec == Spec /\ Fairness

------------------------------------------------------------------------------
LoopPC ==
    {"off", "top", "wgInterface", "nrpt", "fw", "mgmClient", "peerEngine", "start", "peers",
     "connectPeers", "routes", "addRoutes", "connected", "backoff"}

\* Every variable has a value of its type, and a Cleanup is at one of its steps
\* or just past the last (the sequence of Cleanup).
TypeOK ==
    /\ main \in {"wait", "running", "lock", "waitStop", "cleanup", "unlock", "returned"}
    /\ starter \in {"lock", "locked", "done"}
    /\ startErr \in {"none", "nil", "error"}
    /\ mu \in {"free", "starter", "main"}
    /\ stopped \in {"no", "yes"}
    /\ tunnel \in {"nil", "started"}
    /\ ctx \in {"live", "done"}
    /\ loop \in LoopPC
    /\ stop \in {"none", "join", "clean", "done"}
    /\ step \in [Cleaners -> 0 .. Len(Order) + 1]
    /\ phase \in [Cleaners -> {"test", "take", "use", "clear"}]
    /\ there \in SUBSET (Fields \cup Rules \cup {"routes"})
    /\ tracked \in {"no", "yes"}
    /\ timedOut \in {"no", "yes"}
    /\ process \in {"alive", "panicked", "exited"}

\* A service whose wait for Stop did not run out has, when it returns, nothing
\* left: no field, rule or route, no loop, and no start that is still under way
\* can bring one about (stopMachineTunnel, h.stopped in startMachineTunnel).
CleanReturn ==
    (main = "returned" /\ timedOut = "no") => there = {} /\ loop = "off"

\* Cleanup and connect, which share their fields without a mutex, get into each
\* other's way only when the wait for Stop ran out (stopMachineTunnel).
PanicsOnlyAfterTimeout ==
    process = "panicked" => timedOut = "yes"

\* A service that has been asked to stop ends, whatever its tunnel and a start
\* still under way do (the 10 s wait of stopMachineTunnel, the mutex h.mu).
StopEnds == main = "lock" ~> process # "alive"
================================================================================
