----------------------------- MODULE PeerGuard ------------------------------
(***************************************************************************)
(* PeerConn with the guard: the goroutine that sends offers while the      *)
(* connection is not complete.  It reads the state of the transports       *)
(* without conn.mu; the callbacks tell it of a lost one through two        *)
(* channels of one slot.  Close waits for it while it holds conn.mu.       *)
(***************************************************************************)
EXTENDS PeerConn

CONSTANT
    MaxRetries  \* maxICERetries

VARIABLE
    guard       \* reconnectLoopWithRetry and its iceRetryState

guardVars == <<vars, guard>>

GuardInit ==
    /\ Init
    /\ guard = [pc |-> "off", retries |-> 0, hourly |-> FALSE]

\* Open starts the guard, and Close waits for it.
GuardOpens == Open /\ guard' = [guard EXCEPT !.pc = "idle"]

GuardClosed == CloseUnlocks /\ guard.pc = "off" /\ UNCHANGED guard

\* A tick that finds the peer partially connected.  In the other two cases
\* an offer is sent, or not, and nothing here changes.
GuardTicks ==
    /\ guard.pc = "idle"
    /\ ConnStatus = "partially"
    /\ guard' = [guard EXCEPT !.pc = "partially"]
    /\ UNCHANGED vars

\* shouldRetry, or enterHourlyMode
GuardRetries ==
    /\ guard.pc = "partially"
    /\ guard' = IF guard.hourly THEN [guard EXCEPT !.pc = "idle"]
                ELSE [pc |-> "idle", retries |-> guard.retries + 1, hourly |-> guard.retries >= MaxRetries]
    /\ UNCHANGED vars

\* A note of a lost connection, or a change that SRWatcher saw.
GuardResets ==
    /\ guard.pc = "idle"
    /\ \/ UNCHANGED notes
       \/ \E n \in notes : notes' = notes \ {n}
    /\ guard' = [guard EXCEPT !.retries = 0, !.hourly = FALSE]
    /\ UNCHANGED <<controller, life, iceVars, hs, relayVars, connVars, count>>

GuardReturns ==
    /\ ~Live /\ guard.pc = "idle"
    /\ guard' = [pc |-> "off", retries |-> 0, hourly |-> FALSE]
    /\ UNCHANGED vars

GuardNext ==
    \/ GuardOpens \/ GuardClosed
    \/ GuardTicks \/ GuardRetries \/ GuardResets \/ GuardReturns
    \/ ConnStep /\ UNCHANGED guard

GuardSpec == GuardInit /\ [][GuardNext]_guardVars

\* The goroutines that Close waits for run when they can.
GuardFairSpec ==
    /\ GuardSpec
    /\ WF_guardVars(OnNewOffer /\ UNCHANGED guard) /\ WF_guardVars(ListenReturns /\ UNCHANGED guard)
    /\ WF_guardVars(GuardRetries) /\ WF_guardVars(GuardReturns)
    /\ WF_guardVars(GuardClosed) /\ WF_guardVars(CloseReturns /\ UNCHANGED guard)
    /\ \A w \in Watchers : WF_guardVars(Watcher(w) /\ UNCHANGED guard)

-----------------------------------------------------------------------------
(* Properties.                                                             *)

\* Once the retries for a partially connected peer are used up, the guard looks
\* once in an hour.  It never sleeps so while both transports are down, not
\* even if it read their state before one was lost (reconnectLoopWithRetry,
\* onICEStateDisconnected, handleRelayDisconnectedLocked): a note waits.
GuardAwake == guard.hourly /\ up = {} /\ Live => notes # {}

\* Close holds conn.mu while it waits for Listen and for the guard, and
\* waits for the watchers, whose callback takes conn.mu, only when it has
\* released it (the order of the deferred calls): it returns.
CloseEnds == life = "closing" ~> life = "closed"
=============================================================================
