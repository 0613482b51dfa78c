---------------------------- MODULE HealthChecker ----------------------------
(***************************************************************************)
(* The HealthChecker of client/internal/tunnel/health.go: Start, Stop and   *)
(* the goroutines that run healthCheckLoop.  One checker may be started and *)
(* stopped several times; every Start makes a new stop channel and a new    *)
(* goroutine, and Stop waits for no goroutine.                              *)
(*                                                                          *)
(* Channels and goroutines are numbered by the Start that made them.  The   *)
(* loop reads the field h.stopCh each time it enters its select, without    *)
(* the mutex: that read is the step EnterSelect.                            *)
(***************************************************************************)
EXTENDS Naturals

CONSTANTS
    ConsecutiveFailures,  \* config.ConsecutiveFailures: failures before onUnhealthy
    MaxStarts,            \* bound on successful calls of Start
    MaxFailures           \* bound: no further tick once so many failures are counted

ASSUME HealthCheckerAssumption ==
    /\ ConsecutiveFailures \in Nat \ {0}
    /\ MaxStarts \in Nat \ {0}
    /\ MaxFailures \in Nat

Loops == 1 .. MaxStarts

\* HealthStatus as Check can return it ("unknown" is "no result yet").
Status == {"healthy", "degraded", "unhealthy"}

\* Where a healthCheckLoop goroutine is.
LoopPC == {"none",      \* not started
           "check",     \* in Check(ctx)
           "apply",     \* Check returned, waiting for h.mu in performCheck
           "fire",      \* lock released, about to call onUnhealthy
           "enter",     \* performCheck returned, about to enter the select
           "select",    \* blocked in the select
           "done"}      \* returned

VARIABLES
    running,      \* h.running
    stopCh,       \* h.stopCh, the number of the Start that made it; 0: the constructor
    closed,       \* the stop channels that have been closed
    failures,     \* h.consecutiveFailures: a failing check counts on past the threshold
    lastStatus,   \* the status of h.lastResult
    pc,           \* control state of each loop
    result,       \* the status Check returned, while performCheck holds it
    watch,        \* the stop channel the loop's select waits on
    cancelled     \* the loops whose context has been cancelled

vars == <<running, stopCh, closed, failures, lastStatus, pc, result, watch,
          cancelled>>

Live(l) == pc[l] \notin {"none", "done"}

Init ==
    /\ running = FALSE
    /\ stopCh = 0
    /\ closed = {}
    /\ failures = 0
    /\ lastStatus = "unknown"
    /\ pc = [l \in Loops |-> "none"]
    /\ result = [l \in Loops |-> "unknown"]
    /\ watch = [l \in Loops |-> 0]
    /\ cancelled = {}

\* Mutant of Start: the running flag is not tested, so an open channel is dropped.
StartAlways(l) ==
    /\ pc[l] = "none"
    /\ \A k \in Loops : k < l => pc[k] # "none"
    /\ running' = TRUE
    /\ stopCh' = l
    /\ pc' = [pc EXCEPT ![l] = "check"]
    /\ UNCHANGED <<closed, failures, lastStatus, result, watch, cancelled>>

\* Mutant of Start: no new channel is made.
StartKeepsChannel(l) ==
    /\ ~running
    /\ pc[l] = "none"
    /\ \A k \in Loops : k < l => pc[k] # "none"
    /\ running' = TRUE
    /\ pc' = [pc EXCEPT ![l] = "check"]
    /\ UNCHANGED <<stopCh, closed, failures, lastStatus, result, watch, cancelled>>

\* Start returns an error when already running (no state change); otherwise it
\* replaces the stop channel and spawns the loop.
Start(l) ==
    /\ ~running
    /\ pc[l] = "none"
    /\ \A k \in Loops : k < l => pc[k] # "none"
    /\ running' = TRUE
    /\ stopCh' = l
    /\ pc' = [pc EXCEPT ![l] = "check"]
    /\ UNCHANGED <<closed, failures, lastStatus, result, watch, cancelled>>

\* Mutant of Stop: the channel is not closed.
StopWithoutClose ==
    /\ running
    /\ running' = FALSE
    /\ UNCHANGED <<stopCh, closed, failures, lastStatus, pc, result, watch, cancelled>>

\* Stop does nothing unless running; it closes the current channel and returns.
Stop ==
    /\ running
    /\ closed' = closed \cup {stopCh}
    /\ running' = FALSE
    /\ UNCHANGED <<stopCh, failures, lastStatus, pc, result, watch, cancelled>>

\* The owner of the context given to Start cancels it.
CancelContext(l) ==
    /\ pc[l] # "none"
    /\ l \notin cancelled
    /\ cancelled' = cancelled \cup {l}
    /\ UNCHANGED <<running, stopCh, closed, failures, lastStatus, pc, result, watch>>

\* Check: an interface that is down or cannot be read is unhealthy; a dead gRPC
\* connection or a stale handshake degrades, a handshake that cannot be read
\* does not; the deferred function stores the result.
CheckStatus(ifaceOK, grpcOK, handshake) ==
    IF ~ifaceOK THEN "unhealthy"
    ELSE IF grpcOK /\ handshake # "stale" THEN "healthy" ELSE "degraded"

Check(l) ==
    /\ pc[l] = "check"
    /\ \E ifaceOK, grpcOK \in BOOLEAN, handshake \in {"fresh", "stale", "error"} :
          LET s == CheckStatus(ifaceOK, grpcOK, handshake)
          IN  /\ result' = [result EXCEPT ![l] = s]
              /\ lastStatus' = s
    /\ pc' = [pc EXCEPT ![l] = "apply"]
    /\ UNCHANGED <<running, stopCh, closed, failures, watch, cancelled>>

\* The locked part of performCheck: count a failure, or reset the count.  At
\* the threshold the lock is released before the callback is called.
PerformCheck(l) ==
    /\ pc[l] = "apply"
    /\ lastStatus' = result[l]
    /\ IF result[l] = "unhealthy"
         THEN /\ failures' = failures + 1
              /\ pc' = [pc EXCEPT ![l] = IF failures + 1 >= ConsecutiveFailures
                                           THEN "fire" ELSE "enter"]
         ELSE /\ failures' = 0
              /\ pc' = [pc EXCEPT ![l] = "enter"]
    /\ result' = [result EXCEPT ![l] = "unknown"]
    /\ UNCHANGED <<running, stopCh, closed, watch, cancelled>>

\* The call of onUnhealthy, outside the lock.
Fire(l) ==
    /\ pc[l] = "fire"
    /\ pc' = [pc EXCEPT ![l] = "enter"]
    /\ UNCHANGED <<running, stopCh, closed, failures, lastStatus, result, watch, cancelled>>

\* Entering the select evaluates h.stopCh, whatever channel it now holds.
EnterSelect(l) ==
    /\ pc[l] = "enter"
    /\ watch' = [watch EXCEPT ![l] = stopCh]
    /\ pc' = [pc EXCEPT ![l] = "select"]
    /\ UNCHANGED <<running, stopCh, closed, failures, lastStatus, result, cancelled>>

\* The select takes any ready case: a tick of the ticker ...
Tick(l) ==
    /\ pc[l] = "select"
    /\ failures < MaxFailures
    /\ pc' = [pc EXCEPT ![l] = "check"]
    /\ UNCHANGED <<running, stopCh, closed, failures, lastStatus, result, watch, cancelled>>

\* ... or a cancelled context or closed channel, both of which return.
Exit(l) ==
    /\ pc[l] = "select"
    /\ l \in cancelled \/ watch[l] \in closed
    /\ pc' = [pc EXCEPT ![l] = "done"]
    /\ UNCHANGED <<running, stopCh, closed, failures, lastStatus, result, watch, cancelled>>

\* One step of the goroutine of loop l.
LoopStep(l) ==
    Check(l) \/ PerformCheck(l) \/ Fire(l) \/ EnterSelect(l) \/ Tick(l) \/ Exit(l)

Next ==
    \/ Stop
    \/ \E l \in Loops : Start(l) \/ CancelContext(l) \/ LoopStep(l)

\* The callers of Start, Stop and cancel are under no obligation.  A goroutine
\* that can run does (weak fairness), and a select whose closed channel and
\* ticker are both ready chooses at random, so it cannot take the ticker for
\* ever (strong fairness of Exit).
Fairness ==
    \A l \in Loops : WF_vars(LoopStep(l)) /\ SF_vars(Exit(l))

Spec == Init /\ [][Next]_vars

FairSpec == Spec /\ Fairness

------------------------------------------------------------------------------

\* Every variable has a value of its type.
TypeOK ==
    /\ running \in BOOLEAN
    /\ stopCh \in 0 .. MaxStarts
    /\ closed \in SUBSET (0 .. MaxStarts)
    /\ failures \in Nat
    /\ lastStatus \in Status \cup {"unknown"}
    /\ pc \in [Loops -> LoopPC]
    /\ result \in [Loops -> Status \cup {"unknown"}]
    /\ watch \in [Loops -> 0 .. MaxStarts]
    /\ cancelled \in SUBSET Loops

\* No goroutine waits on a stop channel that nobody can close any more: the
\* channel a loop blocks on in its select is closed already, or it is the one
\* the next Stop closes.  It depends on Start refusing while running (which
\* would drop an open channel) and on Stop closing before it clears running.
NoAbandonedWait ==
    \A l \in Loops :
        pc[l] = "select" => \/ watch[l] \in closed
                            \/ running /\ watch[l] = stopCh

\* Stop never closes a channel that is closed already, which would panic: the
\* channel of a running checker is open.  It depends on Start making a new
\* channel every time and on Stop clearing running together with the close.
StopClosesOnce ==
    running => stopCh \notin closed

\* A checker that is stopped for good leaves no goroutine behind, even when
\* Stop and Start overlapped a check and an old loop came to watch a newer
\* channel.
StoppedForGoodEndsLoops ==
    <>[](~running) => <>[](\A l \in Loops : ~Live(l))
==============================================================================
