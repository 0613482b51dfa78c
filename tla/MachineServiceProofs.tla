------------------------- MODULE MachineServiceProofs -------------------------
(***************************************************************************)
(* Proofs about MachineService, whichever of the two waits may run out.     *)
(***************************************************************************)
EXTENDS MachineService, TLAPS

\* h.mu is held by the goroutine whose control state says so.
Mutex ==
    /\ mu = "starter" <=> starter = "locked"
    /\ mu = "main" <=> main \in {"waitStop", "cleanup", "unlock"}

\* What has happened of the start.  Without a tunnel there is no loop, nothing
\* it could have left, and no Cleanup.
Started ==
    /\ startErr = "none" <=> starter # "done"
    /\ startErr = "nil" <=> tunnel = "started"
    /\ tunnel = "nil" =>
         loop = "off" /\ there = {} /\ stop = "none" /\ main \notin {"waitStop", "cleanup"}

\* What has happened of the stop: once it has been asked for no start can
\* succeed, and Stop cleans up when the loop has ended.
Stopping ==
    /\ main \in {"waitStop", "cleanup", "unlock"} => stopped = "yes"
    /\ main = "returned" => stopped = "yes" \/ startErr = "error"
    /\ main \in {"wait", "running", "lock"} => stop = "none"
    /\ main \in {"waitStop", "cleanup", "unlock", "returned"} /\ tunnel = "started" => stop # "none"
    /\ stop \in {"clean", "done"} => loop = "off"

\* Where the two Cleanups are.
Steps ==
    /\ stop \in {"none", "join"} => step["stop"] = 0
    /\ stop = "clean" => step["stop"] > 0
    /\ stop = "done" => step["stop"] = Len(Order) + 1
    /\ main \in {"wait", "running", "lock", "waitStop"} \/ tunnel = "nil" => step["service"] = 0
    /\ \A c \in Cleaners :
         /\ phase[c] # "test" => InCleanup(c) /\ At(c) \notin Rules
         /\ phase[c] = "take" => At(c) = "routes"

\* As long as the wait for Stop has not run out, the service's Cleanup follows
\* Stop's and finds nothing, and Stop's has the fields to itself: what it has
\* tested stays, and what it has passed is gone.
InTurn ==
    timedOut = "no" =>
        /\ stop \in {"join", "clean"} => main = "waitStop"
        /\ stop = "done" => there = {}
        /\ phase["service"] = "test"
        /\ phase["stop"] # "test" => Field("stop") \in there
        /\ stop = "clean" => \A k \in 1 .. Len(Order) : k < step["stop"] => Order[k] \notin there

\* ... connect finds the fields it has set, and routes are tracked until a
\* Cleanup takes them over.
Connecting ==
    timedOut = "no" =>
        /\ loop \in {"start", "connectPeers"} => "peerEngine" \in there
        /\ loop = "addRoutes" => "wgInterface" \in there
        /\ "routes" \in there =>
             /\ "wgInterface" \in there
             /\ tracked = "yes" \/ (step["stop"] = 5 /\ phase["stop"] \in {"use", "clear"})

Inv ==
    /\ TypeOK /\ Mutex /\ Started /\ Stopping /\ Steps /\ InTurn /\ Connecting
    /\ PanicsOnlyAfterTimeout

-----------------------------------------------------------------------------
(* Cleanup's order.                                                        *)

\* What Cleanup does at which step.
LEMMA OrderSteps ==
    /\ Len(Order) = 6
    /\ Order[1] = "peerEngine" /\ Order[2] = "mgmClient" /\ Order[3] = "nrpt"
    /\ Order[4] = "fw" /\ Order[5] = "routes" /\ Order[6] = "wgInterface"
BY DEF Order

\* Every step of it is for something that can be there, and no two are for the
\* same.
LEMMA OrderRange ==
    /\ \A k \in 1 .. 6 : Order[k] \in Fields \cup Rules \cup {"routes"}
    /\ \A k \in 1 .. 6 : Order[k] \in Rules <=> k \in {3, 4}
    /\ \A k \in 1 .. 6 : Order[k] = "routes" <=> k = 5
    /\ \A x \in Fields \cup Rules \cup {"routes"} : \E k \in 1 .. 6 : Order[k] = x
    /\ \A j, k \in 1 .. 6 : Order[j] = Order[k] => j = k
<1>1. \A k \in 1 .. 6 : k = 1 \/ k = 2 \/ k = 3 \/ k = 4 \/ k = 5 \/ k = 6
  OBVIOUS
<1> QED
  BY <1>1, OrderSteps DEF Fields, Rules

-----------------------------------------------------------------------------
(* What the steps leave alone.                                             *)

\* connectionLoop and connect run only after a start, and not once Stop has
\* joined the loop.
LEMMA LoopFrame ==
    ASSUME Loop
    PROVE  loop # "off" /\ Alive /\ UNCHANGED <<execVars, stop, cleanVars>>
BY DEF Loop, LoopTop, SetField, AddRules, StartEngine, TestEngine, ConnectPeers, TestInterface, AddRoutes,
     LeaveMaintenance, Backoff, LoopTo, Panic, loopVars

\* Cleanup changes what there is, and its own progress.
LEMMA CleanupFrame ==
    ASSUME NEW c \in Cleaners, Cleanup(c)
    PROVE  InCleanup(c) /\ Alive /\ UNCHANGED <<execVars, loopVars>>
BY DEF Cleanup, RemoveRules, TestField, TakeRoutes, UseField, ClearField, Panic

\* The goroutines of the service touch neither the fields nor a Cleanup's
\* progress, save that the service begins its own.
LEMMA ExecFrame ==
    ASSUME Starter \/ Main \/ StopRequested
    PROVE  Alive /\ UNCHANGED <<phase, fieldVars>>
BY DEF Starter, Main, StarterLocks, StartMachineTunnel, StarterReturns, StartFailed, ReportRunning, StopMachineTunnel,
     WaitStop, CleanupReturned, ReturnFromExecute, Exit, StopRequested, tunnelVars, cleanVars, fieldVars

-----------------------------------------------------------------------------
(* The invariant.                                                          *)

\* The invariant holds at first.
LEMMA InitInv == Init => Inv
<1> SUFFICES ASSUME Init PROVE Inv
  OBVIOUS
<1>1. TypeOK
  BY OrderSteps DEF Init, TypeOK, LoopPC
<1>2. Mutex /\ Started /\ Stopping
  BY DEF Init, Mutex, Started, Stopping
<1>3. Steps /\ InTurn /\ Connecting /\ PanicsOnlyAfterTimeout
  BY DEF Init, Steps, InTurn, Connecting, PanicsOnlyAfterTimeout, Cleaners
<1> QED
  BY <1>1, <1>2, <1>3 DEF Inv

\* The service and its goroutine that starts the tunnel keep the invariant.
LEMMA ExecInv == Inv /\ (Starter \/ Main \/ StopRequested) => Inv'
<1> SUFFICES ASSUME Inv, Starter \/ Main \/ StopRequested PROVE Inv'
  OBVIOUS
<1>0. phase' = phase /\ there' = there /\ tracked' = tracked
  BY ExecFrame DEF fieldVars
<1>1. CASE StarterLocks
  BY <1>0, <1>1 DEF StarterLocks, tunnelVars, loopVars, cleanVars, Inv, TypeOK, Mutex, Started, Stopping, Steps, InTurn,
       Connecting, PanicsOnlyAfterTimeout, InCleanup, At, Field
<1>2. CASE StartMachineTunnel
  BY <1>0, <1>2 DEF StartMachineTunnel, StarterReturns, cleanVars, Inv, TypeOK, LoopPC, Mutex, Started, Stopping, Steps,
       InTurn, Connecting, PanicsOnlyAfterTimeout, InCleanup, At, Field
<1>3. CASE StartFailed \/ ReportRunning \/ StopRequested
  BY <1>0, <1>3 DEF StartFailed, ReportRunning, StopRequested, tunnelVars, loopVars, cleanVars, Inv, TypeOK, Mutex,
       Started, Stopping, Steps, InTurn, Connecting, PanicsOnlyAfterTimeout, InCleanup, At, Field
<1>4. CASE StopMachineTunnel
  BY <1>0, <1>4 DEF StopMachineTunnel, cleanVars, Inv, TypeOK, Mutex,
       Started, Stopping, Steps, InTurn, Connecting, PanicsOnlyAfterTimeout, InCleanup, At, Field
<1>5. CASE WaitStop
  BY <1>0, <1>5, OrderSteps DEF WaitStop, loopVars, Inv, TypeOK, Mutex,
       Started, Stopping, Steps, InTurn, Connecting, PanicsOnlyAfterTimeout, InCleanup, At, Field, Cleaners
<1>6. CASE CleanupReturned \/ ReturnFromExecute
  BY <1>0, <1>6 DEF CleanupReturned, ReturnFromExecute, tunnelVars, loopVars, cleanVars, Inv, TypeOK, Mutex,
       Started, Stopping, Steps, InTurn, Connecting, PanicsOnlyAfterTimeout, InCleanup, At, Field
<1>7. CASE Exit
  BY <1>0, <1>7 DEF Exit, execVars, loopVars, cleanVars, Inv, TypeOK, Mutex,
       Started, Stopping, Steps, InTurn, Connecting, PanicsOnlyAfterTimeout, InCleanup, At, Field
<1> QED
  BY <1>1, <1>2, <1>3, <1>4, <1>5, <1>6, <1>7 DEF Starter, Main

\* The loop keeps the invariant.
LEMMA LoopInv == Inv /\ Loop => Inv'
<1> SUFFICES ASSUME Inv, Loop PROVE Inv'
  OBVIOUS
<1>0. /\ loop # "off" /\ stop \in {"none", "join"} /\ step["stop"] = 0 /\ phase["stop"] = "test"
      /\ UNCHANGED <<execVars, stop, cleanVars>>
  BY LoopFrame DEF Inv, TypeOK, Stopping, Steps, InCleanup, Cleaners
<1>1. timedOut = "no" => step["service"] = 0
  BY <1>0 DEF Inv, InTurn, Steps, TypeOK, Stopping, Started
<1>2. /\ loop' \in LoopPC /\ there' \in SUBSET (Fields \cup Rules \cup {"routes"}) /\ tracked' \in {"no", "yes"}
      /\ process' \in {"alive", "panicked", "exited"}
  BY Zenon DEF Inv, TypeOK, Loop, LoopTop, SetField, AddRules, StartEngine, TestEngine, ConnectPeers, TestInterface, AddRoutes,
       LeaveMaintenance, Backoff, LoopTo, Panic, LoopPC, Fields, Rules, loopVars, fieldVars
<1>3. TypeOK'
  BY <1>0, <1>2 DEF Inv, TypeOK, execVars, cleanVars
<1>4. Mutex' /\ Started' /\ Stopping'
  BY <1>0 DEF Inv, TypeOK, Mutex, Started, Stopping, execVars
<1>5. Steps' /\ InTurn'
  BY <1>0, <1>1 DEF Inv, TypeOK, Steps, InTurn, execVars, cleanVars, InCleanup, At
<1>6. Connecting'
  <2>0. Connecting /\ loop # "off" /\ timedOut' = timedOut /\ step' = step /\ phase' = phase
    BY <1>0 DEF Inv, execVars, cleanVars
  <2>1. CASE LoopTop \/ AddRules("nrpt", "fw") \/ AddRules("fw", "mgmClient")
    BY <2>0, <2>1 DEF Connecting, LoopTop, AddRules, LoopTo, Rules, fieldVars
  <2>2. CASE SetField("wgInterface", "nrpt") \/ SetField("mgmClient", "peerEngine") \/ SetField("peerEngine", "start")
    BY <2>0, <2>2 DEF Connecting, SetField, LoopTo
  <2>3. CASE StartEngine \/ TestEngine \/ ConnectPeers \/ TestInterface
    BY <2>0, <2>3 DEF Connecting, StartEngine, TestEngine, ConnectPeers, TestInterface, LoopTo, Panic, loopVars, fieldVars
  <2>4. CASE AddRoutes \/ LeaveMaintenance \/ Backoff
    BY <2>0, <2>4 DEF Connecting, AddRoutes, LeaveMaintenance, Backoff, LoopTo, Panic, loopVars, fieldVars
  <2> QED
    BY <2>1, <2>2, <2>3, <2>4 DEF Loop
<1>7. PanicsOnlyAfterTimeout'
  BY <1>0, <1>1 DEF Inv, TypeOK, Connecting, PanicsOnlyAfterTimeout, Loop, LoopTop, SetField, AddRules, StartEngine,
       TestEngine, ConnectPeers, TestInterface, AddRoutes, LeaveMaintenance, Backoff, LoopTo, Panic, LoopPC, execVars
<1> QED
  BY <1>3, <1>4, <1>5, <1>6, <1>7 DEF Inv

\* Stop, when it has joined the loop and when it returns, keeps the invariant.
LEMMA StopInv == Inv /\ (StopJoins \/ StopReturns) => Inv'
<1> SUFFICES ASSUME Inv, StopJoins \/ StopReturns PROVE Inv'
  OBVIOUS
<1>1. CASE StopJoins
  <2>1. /\ stop = "join" /\ loop = "off" /\ stop' = "clean" /\ step' = [step EXCEPT !["stop"] = 1]
        /\ UNCHANGED <<execVars, loop, phase, fieldVars, process>>
    BY <1>1 DEF StopJoins
  <2>2. step["stop"] = 0 /\ phase["stop"] = "test"
    BY <2>1 DEF Inv, TypeOK, Steps, InCleanup, Cleaners
  <2>3. TypeOK'
    <3>1. step \in [Cleaners -> 0 .. Len(Order) + 1] /\ 1 \in 0 .. Len(Order) + 1
      BY OrderSteps DEF Inv, TypeOK
    <3>2. step' \in [Cleaners -> 0 .. Len(Order) + 1]
      BY <2>1, <3>1, Zenon
    <3> QED
      BY <2>1, <3>1, <3>2 DEF Inv, TypeOK, execVars, fieldVars
  <2>4. Mutex' /\ Started' /\ Stopping' /\ PanicsOnlyAfterTimeout'
    BY <2>1 DEF Inv, Mutex, Started, Stopping, PanicsOnlyAfterTimeout, execVars, fieldVars
  <2>5. Steps'
    BY <2>1, <2>2, OrderSteps DEF Inv, TypeOK, Steps, InCleanup, At, Cleaners, execVars
  <2>6. InTurn' /\ Connecting'
    BY <2>1, <2>2, OrderSteps DEF Inv, TypeOK, InTurn, Connecting, Cleaners, execVars, fieldVars
  <2> QED
    BY <2>3, <2>4, <2>5, <2>6 DEF Inv
<1>2. CASE StopReturns
  <2>1. /\ stop = "clean" /\ step["stop"] > Len(Order) /\ stop' = "done"
        /\ UNCHANGED <<execVars, loop, cleanVars, fieldVars, process>>
    BY <1>2 DEF StopReturns
  <2>2. TypeOK' /\ Mutex' /\ Started' /\ Stopping' /\ PanicsOnlyAfterTimeout'
    BY <2>1 DEF Inv, TypeOK, Mutex, Started, Stopping, PanicsOnlyAfterTimeout, execVars, cleanVars, fieldVars
  <2>3. Steps'
    BY <2>1, OrderSteps DEF Inv, TypeOK, Steps, InCleanup, At, Cleaners, execVars, cleanVars
  <2>4. timedOut = "no" => there = {}
    <3>1. timedOut = "no" => \A k \in 1 .. 6 : Order[k] \notin there
      BY <2>1, OrderSteps DEF Inv, TypeOK, InTurn, Cleaners
    <3> QED
      BY <3>1, OrderRange DEF Inv, TypeOK
  <2>5. InTurn' /\ Connecting'
    BY <2>1, <2>4 DEF Inv, TypeOK, InTurn, Connecting, Field, At, execVars, cleanVars, fieldVars
  <2> QED
    BY <2>2, <2>3, <2>5 DEF Inv
<1> QED
  BY <1>1, <1>2

\* A Cleanup keeps the invariant.
LEMMA CleanupInv == ASSUME NEW c \in Cleaners PROVE Inv /\ Cleanup(c) => Inv'
<1> SUFFICES ASSUME Inv, Cleanup(c) PROVE Inv'
  OBVIOUS
<1>0. /\ InCleanup(c) /\ Alive /\ UNCHANGED <<execVars, loopVars>>
      /\ step \in [Cleaners -> 0 .. 7] /\ step[c] \in 1 .. 6
      /\ phase \in [Cleaners -> {"test", "take", "use", "clear"}]
  BY CleanupFrame, OrderSteps DEF InCleanup, Inv, TypeOK
<1>1. /\ process' \in {"alive", "panicked"}
      /\ \/ step' = [step EXCEPT ![c] = @ + 1] /\ phase' = [phase EXCEPT ![c] = "test"]
         \/ step' = step /\ phase' = phase
         \/ step' = step /\ \E p \in {"take", "use", "clear"} : phase' = [phase EXCEPT ![c] = p]
  BY <1>0 DEF Cleanup, RemoveRules, TestField, TakeRoutes, UseField, ClearField, Panic, NextStep, ToPhase, cleanVars,
       Alive
<1>2. there' \in {there, there \ {At(c)}} /\ tracked' \in {tracked, "no"}
  BY DEF Cleanup, RemoveRules, TestField, TakeRoutes, UseField, ClearField, Panic, fieldVars
<1>3. TypeOK'
  BY <1>0, <1>1, <1>2, OrderSteps DEF Inv, TypeOK, execVars, loopVars
<1>4. Mutex' /\ Started' /\ Stopping'
  BY <1>0, <1>2 DEF Inv, Mutex, Started, Stopping, execVars, loopVars
<1>5. Steps'
  <2>1. CASE step' = [step EXCEPT ![c] = @ + 1] /\ phase' = [phase EXCEPT ![c] = "test"]
    BY <1>0, <2>1, OrderSteps DEF Inv, Steps, InCleanup, At, Cleaners, execVars, loopVars, TypeOK
  <2>2. CASE step' = step /\ phase' = phase
    BY <1>0, <2>2 DEF Inv, Steps, InCleanup, At, execVars, loopVars
  <2>3. CASE step' = step /\ \E p \in {"take", "use", "clear"} : phase' = [phase EXCEPT ![c] = p]
    <3>1. At(c) \notin Rules /\ (phase'[c] = "take" => At(c) = "routes")
      BY <1>0, <2>3 DEF Cleanup, RemoveRules, TestField, TakeRoutes, UseField, ClearField, NextStep, ToPhase, Panic,
           cleanVars, Inv, Steps
    <3> QED
      BY <1>0, <2>3, <3>1 DEF Inv, Steps, InCleanup, At, Cleaners, execVars, loopVars
  <2> QED
    BY <1>1, <2>1, <2>2, <2>3
<1>6. PanicsOnlyAfterTimeout'
  <2>1. process' = "panicked" => phase[c] = "use" /\ Field(c) \notin there
    BY <1>0 DEF Cleanup, RemoveRules, TestField, TakeRoutes, UseField, ClearField, Panic, NextStep, ToPhase, Alive
  <2> QED
    BY <1>0, <2>1 DEF Inv, InTurn, PanicsOnlyAfterTimeout, Cleaners, execVars, TypeOK
<1>7. CASE timedOut = "yes"
  <2>1. InTurn' /\ Connecting'
    BY <1>0, <1>7 DEF InTurn, Connecting, execVars
  <2> QED
    BY <1>3, <1>4, <1>5, <1>6, <2>1 DEF Inv
<1>8. CASE timedOut = "no" /\ c = "service"
  <2>1. stop = "done" /\ there = {} /\ phase["service"] = "test" /\ phase["stop"] = "test"
    BY <1>0, <1>8, OrderSteps DEF Inv, TypeOK, Started, Stopping, Steps, InTurn, InCleanup, Cleaners
  <2>2. there' = {} /\ phase' = [phase EXCEPT !["service"] = "test"]
    BY <1>2, <1>8, <2>1 DEF Cleanup, RemoveRules, TestField, TakeRoutes, UseField, ClearField, NextStep
  <2>3. InTurn' /\ Connecting'
    BY <1>0, <1>8, <2>1, <2>2 DEF Inv, Stopping, InTurn, Connecting, Cleaners, execVars, loopVars
  <2> QED
    BY <1>3, <1>4, <1>5, <1>6, <2>3 DEF Inv
<1>9. CASE timedOut = "no" /\ c = "stop"
  <2> DEFINE n == step["stop"]
  <2> SUFFICES InTurn' /\ Connecting'
    BY <1>3, <1>4, <1>5, <1>6 DEF Inv
  <2>1. /\ n \in 1 .. 6 /\ stop = "clean" /\ main = "waitStop" /\ loop = "off"
        /\ timedOut' = "no" /\ stop' = "clean" /\ main' = "waitStop" /\ loop' = "off"
        /\ phase["service"] = "test" /\ phase'["service"] = "test"
    BY <1>0, <1>1, <1>9, OrderSteps DEF Inv, TypeOK, Stopping, Steps, InTurn, Cleaners, execVars, loopVars
  <2>2. \A k \in 1 .. 6 : k < n => Order[k] \notin there
    BY <1>9, <2>1, OrderSteps DEF Inv, InTurn
  <2>3. "routes" \in there =>
           "wgInterface" \in there /\ (tracked = "yes" \/ (n = 5 /\ phase["stop"] \in {"use", "clear"}))
    BY <1>9 DEF Inv, Connecting
  <2>4. At("stop") = Order[n] /\ Field("stop") = (IF n = 5 THEN "wgInterface" ELSE Order[n])
    BY <2>1, OrderRange DEF At, Field
  <2>5. phase["stop"] # "test" => Field("stop") \in there
    BY <1>9 DEF Inv, InTurn
  <2>6. ASSUME step' = [step EXCEPT !["stop"] = @ + 1], phase' = [phase EXCEPT !["stop"] = "test"],
               there' \in {there, there \ {Order[n]}}, Order[n] \notin there', tracked' = tracked \/ "routes" \notin there'
        PROVE  InTurn' /\ Connecting'
    <3>1. step'["stop"] = n + 1 /\ phase'["stop"] = "test"
      BY <1>0, <2>6 DEF Cleaners
    <3>2. \A k \in 1 .. 6 : k < n + 1 => Order[k] \notin there'
      BY <2>1, <2>2, <2>6
    <3>3. InTurn'
      BY <2>1, <3>1, <3>2, OrderSteps DEF InTurn
    <3>4. "routes" \in there' => n < 5
      BY <2>1, <2>2, <2>6, <3>2, OrderSteps
    <3>5. "routes" \in there' => "wgInterface" \in there' /\ tracked' = "yes"
      BY <2>1, <2>3, <2>6, <3>4, OrderSteps, OrderRange
    <3>6. Connecting'
      BY <2>1, <3>5 DEF Connecting
    <3> QED
      BY <3>3, <3>6
  <2>7. ASSUME step' = step, NEW p \in {"take", "use", "clear"}, phase' = [phase EXCEPT !["stop"] = p], there' = there,
               Field("stop") \in there,
               "routes" \in there => tracked' = "yes" \/ (n = 5 /\ p \in {"use", "clear"})
        PROVE  InTurn' /\ Connecting'
    <3>1. step'["stop"] = n /\ phase'["stop"] = p /\ Field("stop")' = Field("stop")
      BY <1>0, <2>7 DEF Cleaners, Field, At
    <3>2. InTurn'
      BY <2>1, <2>2, <2>7, <3>1, OrderSteps DEF InTurn
    <3>3. Connecting'
      BY <2>1, <2>3, <2>7, <3>1 DEF Connecting
    <3> QED
      BY <3>2, <3>3
  <2>8. CASE RemoveRules("stop")
    BY <2>4, <2>6, <2>8 DEF RemoveRules, NextStep
  <2>9. CASE TestField("stop")
    <3>1. CASE Field("stop") \notin there
      <4>1. Order[n] \notin there
        BY <2>1, <2>3, <2>4, <3>1, OrderSteps
      <4> QED
        BY <2>6, <2>9, <3>1, <4>1 DEF TestField, NextStep, fieldVars
    <3>2. CASE Field("stop") \in there
      <4>1. phase["stop"] = "test" /\ ToPhase("stop", IF At("stop") = "routes" THEN "take" ELSE "use")
            /\ there' = there /\ tracked' = tracked
        BY <2>9, <3>2 DEF TestField, fieldVars
      <4>2. "routes" \in there => tracked' = "yes"
        BY <2>3, <4>1
      <4> QED
        BY <2>7, <3>2, <4>1, <4>2, Zenon DEF ToPhase
    <3> QED
      BY <3>1, <3>2
  <2>10. CASE TakeRoutes("stop")
    <3>1. n = 5 /\ Order[n] = "routes" /\ phase["stop"] = "take" /\ there' = there /\ tracked' = "no"
      BY <2>1, <2>4, <2>10, OrderRange DEF TakeRoutes, Inv, Steps, Cleaners
    <3>2. CASE tracked = "no"
      BY <2>3, <2>6, <2>10, <3>1, <3>2 DEF TakeRoutes, NextStep
    <3>3. CASE tracked # "no"
      BY <2>5, <2>7, <2>10, <3>1, <3>3 DEF TakeRoutes, ToPhase
    <3> QED
      BY <3>2, <3>3
  <2>11. CASE UseField("stop")
    <3>1. phase["stop"] = "use" /\ Field("stop") \in there /\ ToPhase("stop", "clear") /\ there' = there /\ tracked' = tracked
      BY <2>5, <2>11 DEF UseField, fieldVars
    <3> QED
      BY <2>3, <2>7, <3>1 DEF ToPhase
  <2>12. CASE ClearField("stop")
    BY <2>4, <2>6, <2>12 DEF ClearField, NextStep
  <2> QED
    BY <1>9, <2>8, <2>9, <2>10, <2>11, <2>12 DEF Cleanup
<1> QED
  BY <1>7, <1>8, <1>9 DEF Inv, TypeOK, Cleaners

\* The invariant always holds.
LEMMA Inductive == Spec => []Inv
<1>1. Inv /\ [Next]_vars => Inv'
  <2>1. Inv /\ UNCHANGED vars => Inv'
    BY DEF vars, Inv, TypeOK, Mutex, Started, Stopping, Steps, InTurn, Connecting, PanicsOnlyAfterTimeout, InCleanup,
         At, Field
  <2> QED
    BY <2>1, ExecInv, LoopInv, StopInv, CleanupInv DEF Next
<1> QED
  BY <1>1, InitInv, PTL DEF Spec

\* Every variable keeps its type, and a Cleanup its place in the sequence.
THEOREM TypeCorrect == Spec => []TypeOK
<1>1. Inv => TypeOK
  BY DEF Inv
<1> QED
  BY <1>1, Inductive, PTL

\* Unless the wait for Stop has run out, a service that has returned has left no
\* field, rule, route or loop (stopMachineTunnel).
THEOREM ReturnsClean == Spec => []CleanReturn
<1>1. Inv => CleanReturn
  BY DEF Inv, TypeOK, Started, Stopping, InTurn, CleanReturn
<1> QED
  BY <1>1, Inductive, PTL

\* Unless the wait for Stop has run out, no read of a field that has become nil
\* takes the process down (connect, Cleanup).
THEOREM NoPanicInTurn == Spec => []PanicsOnlyAfterTimeout
<1>1. Inv => PanicsOnlyAfterTimeout
  BY DEF Inv
<1> QED
  BY <1>1, Inductive, PTL
================================================================================
