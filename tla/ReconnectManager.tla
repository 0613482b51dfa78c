--------------------------- MODULE ReconnectManager ---------------------------
(***************************************************************************)
(* The ReconnectManager of client/internal/tunnel/reconnect.go: the         *)
(* goroutines that run reconnectLoop, one for every successful Start, and   *)
(* one caller of ConnectWithRetry.  They share the backoff, the retry count *)
(* and the two channels.                                                    *)
(*                                                                          *)
(* Loops and stop channels are numbered by the Start that made them; 0 is   *)
(* the caller of ConnectWithRetry and the channel of the constructor, which *)
(* nobody closes.  The field r.stopCh is read without the mutex each time a *)
(* select is entered (EnterSelect), and r.retryCount when it is compared    *)
(* with MaxRetries (CheckRetries).                                          *)
(***************************************************************************)
EXTENDS Naturals

CONSTANTS
    InitialBackoff, MaxBackoff, Multiplier,   \* ReconnectConfig
    MaxRetries,                               \* of ReconnectConfig; 0: no limit
    MaxStarts                                 \* bound on successful calls of Start

ASSUME ReconnectManagerAssumption ==
    /\ InitialBackoff \in Nat \ {0} /\ MaxBackoff \in Nat /\ Multiplier \in Nat \ {0}
    /\ InitialBackoff <= MaxBackoff
    /\ MaxRetries \in Nat
    /\ MaxStarts \in Nat

Loops == 1 .. MaxStarts
Procs == 0 .. MaxStarts

PC == {"none",          \* not started
       "top",           \* at the head of the loop
       "connect",       \* in connectFunc
       "check",         \* failed, about to compare retryCount with MaxRetries
       "giveUp",        \* about to clear running
       "enterWait",     \* connected, about to enter the select
       "wait",          \* in the select that waits for a disconnect
       "enterBackoff",  \* about to enter the select with the timer
       "backoff",       \* in it
       "raise",         \* the timer fired, about to raise the backoff
       "done"}

VARIABLES
    running,         \* r.running
    stopCh,          \* r.stopCh
    closed,          \* the stop channels that have been closed
    disconnectCh,    \* how many notifications the channel holds
    currentBackoff,  \* r.currentBackoff
    retryCount,      \* r.retryCount, capped at MaxRetries
    pc,              \* control state of each loop and of ConnectWithRetry
    watch,           \* the stop channel the loop's select waits on
    cancelled,       \* those whose context has been cancelled
    lastCall         \* the last call that took effect: "none", "Start" or "Stop"

vars == <<running, stopCh, closed, disconnectCh, currentBackoff, retryCount, pc, watch,
          cancelled, lastCall>>

shared == <<running, stopCh, closed, lastCall>>

Init ==
    /\ running = FALSE /\ stopCh = 0 /\ closed = {} /\ disconnectCh = 0
    /\ currentBackoff = InitialBackoff /\ retryCount = 0
    /\ pc = [p \in Procs |-> "none"] /\ watch = [p \in Procs |-> 0]
    /\ cancelled = {} /\ lastCall = "none"

Live(p) == pc[p] \notin {"none", "done"}

Goto(p, l) == pc' = [pc EXCEPT ![p] = l]

------------------------------------------------------------------------------
(***************************************************************************)
(* The callers.                                                            *)
(***************************************************************************)

\* Start fails while running; backoff and retry count stay as they are.
Start(l) ==
    /\ ~running
    /\ pc[l] = "none" /\ \A k \in Loops : k < l => pc[k] # "none"
    /\ running' = TRUE /\ stopCh' = l /\ lastCall' = "Start"
    /\ Goto(l, "top")
    /\ UNCHANGED <<closed, disconnectCh, currentBackoff, retryCount, watch, cancelled>>

\* Mutant of Stop: the channel is not closed.
StopWithoutClose ==
    /\ running' = FALSE /\ lastCall' = "Stop"
    /\ UNCHANGED <<closed, stopCh, disconnectCh, currentBackoff, retryCount, pc, watch,
                   cancelled>>

\* Stop does nothing unless running.
Stop ==
    /\ closed' = IF running THEN closed \cup {stopCh} ELSE closed
    /\ running' = FALSE /\ lastCall' = "Stop"
    /\ UNCHANGED <<stopCh, disconnectCh, currentBackoff, retryCount, pc, watch, cancelled>>

\* Mutant of NotifyDisconnect: a notification more than the channel holds.
NotifyDisconnectTwice ==
    /\ disconnectCh' = disconnectCh + 1 /\ disconnectCh < 2
    /\ UNCHANGED <<shared, currentBackoff, retryCount, pc, watch, cancelled>>

\* A notification that finds the channel full is dropped.
NotifyDisconnect ==
    /\ disconnectCh' = 1
    /\ UNCHANGED <<shared, currentBackoff, retryCount, pc, watch, cancelled>>

ResetBackoff == currentBackoff' = InitialBackoff /\ retryCount' = 0

\* ResetBackoff may be called from outside as well.
CallResetBackoff ==
    /\ ResetBackoff
    /\ UNCHANGED <<shared, disconnectCh, pc, watch, cancelled>>

ConnectWithRetry ==
    /\ pc[0] = "none"
    /\ Goto(0, "top")
    /\ UNCHANGED <<shared, disconnectCh, currentBackoff, retryCount, watch, cancelled>>

CancelContext(p) ==
    /\ pc[p] # "none" /\ p \notin cancelled
    /\ cancelled' = cancelled \cup {p}
    /\ UNCHANGED <<shared, disconnectCh, currentBackoff, retryCount, pc, watch>>

------------------------------------------------------------------------------
(***************************************************************************)
(* reconnectLoop, and ConnectWithRetry where it does the same.             *)
(***************************************************************************)

\* The head: only the loops look at the stop channel.
Top(p) ==
    /\ pc[p] = "top"
    /\ Goto(p, IF p \in cancelled \/ (p # 0 /\ stopCh \in closed) THEN "done" ELSE "connect")
    /\ UNCHANGED <<shared, disconnectCh, currentBackoff, retryCount, watch, cancelled>>

\* connectFunc succeeds: ConnectWithRetry returns, a loop waits for a disconnect.
ConnectSucceeds(p) ==
    /\ pc[p] = "connect"
    /\ ResetBackoff
    /\ Goto(p, IF p = 0 THEN "done" ELSE "enterWait")
    /\ UNCHANGED <<shared, disconnectCh, watch, cancelled>>

\* Only "retryCount >= MaxRetries" is ever asked, so counting stops there.
ConnectFails(p) ==
    /\ pc[p] = "connect"
    /\ retryCount' = IF retryCount < MaxRetries THEN retryCount + 1 ELSE MaxRetries
    /\ Goto(p, "check")
    /\ UNCHANGED <<shared, disconnectCh, currentBackoff, watch, cancelled>>

\* The comparison is made after the mutex has been released.
CheckRetries(p) ==
    /\ pc[p] = "check"
    /\ Goto(p, IF MaxRetries > 0 /\ retryCount >= MaxRetries
                 THEN IF p = 0 THEN "done" ELSE "giveUp"
                 ELSE "enterBackoff")
    /\ UNCHANGED <<shared, disconnectCh, currentBackoff, retryCount, watch, cancelled>>

\* A loop that gives up clears running, whoever set it.
GiveUp(p) ==
    /\ pc[p] = "giveUp"
    /\ running' = FALSE
    /\ Goto(p, "done")
    /\ UNCHANGED <<stopCh, closed, lastCall, disconnectCh, currentBackoff, retryCount, watch,
                   cancelled>>

EnterSelect(p) ==
    /\ pc[p] \in {"enterWait", "enterBackoff"}
    /\ watch' = [watch EXCEPT ![p] = IF p = 0 THEN 0 ELSE stopCh]
    /\ Goto(p, IF pc[p] = "enterWait" THEN "wait" ELSE "backoff")
    /\ UNCHANGED <<shared, disconnectCh, currentBackoff, retryCount, cancelled>>

\* The select takes any of its ready cases.
Leave(p) ==
    /\ pc[p] \in {"wait", "backoff"}
    /\ p \in cancelled \/ watch[p] \in closed
    /\ Goto(p, "done")
    /\ UNCHANGED <<shared, disconnectCh, currentBackoff, retryCount, watch, cancelled>>

Disconnected(p) ==
    /\ pc[p] = "wait" /\ disconnectCh > 0
    /\ disconnectCh' = disconnectCh - 1
    /\ Goto(p, "top")
    /\ UNCHANGED <<shared, currentBackoff, retryCount, watch, cancelled>>

TimerFires(p) ==
    /\ pc[p] = "backoff"
    /\ Goto(p, "raise")
    /\ UNCHANGED <<shared, disconnectCh, currentBackoff, retryCount, watch, cancelled>>

\* Mutant of CalculateNextBackoff: no upper limit.
CalculateNextBackoffUnlimited(current) == current * Multiplier

CalculateNextBackoff(current) ==
    IF current * Multiplier > MaxBackoff THEN MaxBackoff ELSE current * Multiplier

RaiseBackoff(p) ==
    /\ pc[p] = "raise"
    /\ currentBackoff' = CalculateNextBackoff(currentBackoff)
    /\ Goto(p, "top")
    /\ UNCHANGED <<shared, disconnectCh, retryCount, watch, cancelled>>

------------------------------------------------------------------------------
LoopStep(p) ==
    \/ Top(p) \/ ConnectSucceeds(p) \/ ConnectFails(p) \/ CheckRetries(p) \/ GiveUp(p)
    \/ EnterSelect(p) \/ Leave(p) \/ Disconnected(p) \/ TimerFires(p) \/ RaiseBackoff(p)

Next ==
    \/ Stop \/ NotifyDisconnect \/ CallResetBackoff \/ ConnectWithRetry
    \/ \E l \in Loops : Start(l)
    \/ \E p \in Procs : CancelContext(p) \/ LoopStep(p)

Spec == Init /\ [][Next]_vars

\* The callers are under no obligation.  A goroutine that can run does, and a
\* select chooses among its ready cases at random, so it does not pass over a
\* closed channel for ever.
Fairness == \A p \in Procs : WF_vars(LoopStep(p)) /\ SF_vars(Leave(p))

FairSpec == Spec /\ Fairness

------------------------------------------------------------------------------
\* Every variable has a value of its type; disconnectCh holds one notification
\* at most (its buffer, and the default case of NotifyDisconnect).
TypeOK ==
    /\ running \in BOOLEAN
    /\ stopCh \in Procs /\ closed \in SUBSET Procs
    /\ disconnectCh \in 0 .. 1
    /\ currentBackoff \in Nat
    /\ retryCount \in 0 .. MaxRetries
    /\ pc \in [Procs -> PC] /\ watch \in [Procs -> Procs]
    /\ cancelled \in SUBSET Procs
    /\ lastCall \in {"none", "Start", "Stop"}

\* However loops and ConnectWithRetry interleave, raising the backoff and
\* resetting it, it stays between its configured bounds (calculateNextBackoff).
BackoffBounded == currentBackoff \in InitialBackoff .. MaxBackoff

\* Stop stops the reconnect loop: when no Start follows it, every loop ends,
\* those of earlier Starts included (Stop, reconnectLoop).
StopStopsLoops ==
    <>[](lastCall = "Stop") => <>[](\A l \in Loops : ~Live(l))

\* As long as no loop gives up, Stop does stop them all, although an old loop may
\* come to watch the channel of a newer Start (Start, Stop, the reads of r.stopCh).
StopEndsLoops ==
    [](\A l \in Loops : pc[l] # "giveUp") => StopStopsLoops
================================================================================
