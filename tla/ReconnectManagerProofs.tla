------------------------ MODULE ReconnectManagerProofs ------------------------
(***************************************************************************)
(* Proofs about ReconnectManager for every configuration and any number of  *)
(* Starts.                                                                  *)
(***************************************************************************)
EXTENDS ReconnectManager, TLAPS

\* calculateNextBackoff keeps a backoff within its configured bounds, for every
\* multiplier that is at least 1.
LEMMA NextBackoffBounded ==
    ASSUME NEW current \in InitialBackoff .. MaxBackoff
    PROVE  CalculateNextBackoff(current) \in InitialBackoff .. MaxBackoff
<1>1. /\ InitialBackoff \in Nat /\ MaxBackoff \in Nat /\ InitialBackoff <= MaxBackoff
      /\ Multiplier \in Nat /\ 1 <= Multiplier /\ current \in Nat
  BY ReconnectManagerAssumption
<1>2. current * Multiplier \in Nat /\ current <= current * Multiplier
  BY <1>1
<1> QED
  BY <1>1, <1>2 DEF CalculateNextBackoff

\* The channels and what the callers have done.
ChannelType ==
    /\ running \in BOOLEAN
    /\ stopCh \in Procs /\ closed \in SUBSET Procs
    /\ disconnectCh \in 0 .. 1
    /\ cancelled \in SUBSET Procs
    /\ lastCall \in {"none", "Start", "Stop"}

\* The goroutines and the counter they share.
LoopType == retryCount \in 0 .. MaxRetries /\ pc \in [Procs -> PC] /\ watch \in [Procs -> Procs]

Inv == ChannelType /\ LoopType /\ BackoffBounded

\* A goroutine that goes on leaves the control states typed.
LEMMA GotoType ==
    ASSUME LoopType, NEW p \in Procs, NEW l \in PC, Goto(p, l)
    PROVE  pc' \in [Procs -> PC]
BY DEF Goto, LoopType

\* The invariant holds at first.
LEMMA InitInv == Init => Inv
<1> SUFFICES ASSUME Init PROVE Inv
  OBVIOUS
<1>1. 0 \in Procs /\ "none" \in PC
  BY ReconnectManagerAssumption DEF Procs, PC
<1>2. ChannelType
  <2>1. running \in BOOLEAN
    BY Zenon DEF Init
  <2>2. disconnectCh \in 0 .. 1
    BY DEF Init
  <2>3. /\ stopCh \in Procs /\ closed \in SUBSET Procs /\ cancelled \in SUBSET Procs
        /\ lastCall \in {"none", "Start", "Stop"}
    BY <1>1 DEF Init
  <2> QED
    BY <2>1, <2>2, <2>3 DEF ChannelType
<1>3. LoopType
  BY <1>1, ReconnectManagerAssumption DEF Init, LoopType
<1>4. BackoffBounded
  BY ReconnectManagerAssumption DEF Init, BackoffBounded
<1> QED
  BY <1>2, <1>3, <1>4 DEF Inv

\* Every step keeps the types of the channels.
LEMMA NextChannels == Inv /\ [Next]_vars => ChannelType'
<1> SUFFICES ASSUME Inv, [Next]_vars PROVE ChannelType'
  OBVIOUS
<1> USE DEF Inv, ChannelType
<1>0. CASE Stop
  BY <1>0, Zenon DEF Stop
<1>1. CASE NotifyDisconnect \/ CallResetBackoff \/ ConnectWithRetry
  BY <1>1 DEF NotifyDisconnect, CallResetBackoff, ConnectWithRetry, shared
<1>2. ASSUME NEW l \in Loops, Start(l) PROVE ChannelType'
  BY <1>2, ReconnectManagerAssumption DEF Start, Loops, Procs
<1>3. ASSUME NEW p \in Procs, CancelContext(p) PROVE ChannelType'
  BY <1>3 DEF CancelContext, shared
<1>4. ASSUME NEW p \in Procs, GiveUp(p) PROVE ChannelType'
  BY <1>4, Zenon DEF GiveUp
<1>5. ASSUME NEW p \in Procs, Disconnected(p) PROVE ChannelType'
  BY <1>5 DEF Disconnected, shared
<1>6. ASSUME NEW p \in Procs,
             \/ Top(p) \/ ConnectSucceeds(p) \/ ConnectFails(p) \/ CheckRetries(p)
             \/ EnterSelect(p) \/ Leave(p) \/ TimerFires(p) \/ RaiseBackoff(p)
      PROVE  UNCHANGED <<shared, disconnectCh, cancelled>>
  BY <1>6 DEF Top, ConnectSucceeds, ConnectFails, CheckRetries, EnterSelect, Leave, TimerFires, RaiseBackoff
<1>7. CASE UNCHANGED vars
  BY <1>7 DEF vars
<1>8. CASE UNCHANGED <<shared, disconnectCh, cancelled>>
  BY <1>8 DEF shared
<1> QED
  BY <1>0, <1>1, <1>2, <1>3, <1>4, <1>5, <1>6, <1>7, <1>8 DEF Next, LoopStep

\* Every step keeps the types of the goroutines.
LEMMA NextLoops == Inv /\ [Next]_vars => LoopType'
<1> SUFFICES ASSUME Inv, [Next]_vars PROVE LoopType'
  OBVIOUS
<1>0. LoopType /\ stopCh \in Procs /\ 0 \in Procs /\ MaxRetries \in Nat
  BY ReconnectManagerAssumption DEF Inv, ChannelType, Procs
<1>1. CASE Stop \/ NotifyDisconnect \/ CallResetBackoff \/ UNCHANGED vars
  BY <1>0, <1>1 DEF Stop, NotifyDisconnect, CallResetBackoff, ResetBackoff, LoopType, vars
<1>2. CASE ConnectWithRetry
  BY <1>0, <1>2, GotoType DEF ConnectWithRetry, LoopType, PC
<1>3. ASSUME NEW l \in Loops, Start(l) PROVE LoopType'
  <2>1. l \in Procs /\ "top" \in PC
    BY ReconnectManagerAssumption DEF Loops, Procs, PC
  <2> QED
    BY <1>0, <1>3, <2>1, GotoType DEF Start, LoopType
<1>4. ASSUME NEW p \in Procs, CancelContext(p) PROVE LoopType'
  BY <1>0, <1>4 DEF CancelContext, LoopType
<1>5. ASSUME NEW p \in Procs, LoopStep(p) PROVE pc' \in [Procs -> PC]
  <2>1. \E l \in PC : Goto(p, l)
    BY <1>5 DEF LoopStep, Top, ConnectSucceeds, ConnectFails, CheckRetries, GiveUp, EnterSelect, Leave,
         Disconnected, TimerFires, RaiseBackoff, PC
  <2> QED
    BY <1>0, <2>1, GotoType
<1>6. ASSUME NEW p \in Procs, EnterSelect(p) PROVE LoopType'
  <2>1. pc' \in [Procs -> PC]
    BY <1>5, <1>6 DEF LoopStep
  <2> QED
    BY <1>0, <1>6, <2>1, Zenon DEF EnterSelect, LoopType
<1>7. ASSUME NEW p \in Procs, ConnectSucceeds(p) \/ ConnectFails(p) PROVE LoopType'
  <2>1. pc' \in [Procs -> PC]
    BY <1>5, <1>7 DEF LoopStep
  <2> QED
    BY <1>0, <1>7, <2>1 DEF ConnectSucceeds, ConnectFails, ResetBackoff, LoopType
<1>8. ASSUME NEW p \in Procs,
             \/ Top(p) \/ CheckRetries(p) \/ GiveUp(p) \/ Leave(p) \/ Disconnected(p) \/ TimerFires(p)
             \/ RaiseBackoff(p)
      PROVE  LoopType'
  <2>1. pc' \in [Procs -> PC]
    BY <1>5, <1>8 DEF LoopStep
  <2>2. UNCHANGED <<retryCount, watch>>
    BY <1>8 DEF Top, CheckRetries, GiveUp, Leave, Disconnected, TimerFires, RaiseBackoff
  <2> QED
    BY <1>0, <2>1, <2>2 DEF LoopType
<1> QED
  BY <1>1, <1>2, <1>3, <1>4, <1>6, <1>7, <1>8 DEF Next, LoopStep

\* Every step keeps the backoff within its bounds.
LEMMA NextBackoff == BackoffBounded /\ [Next]_vars => BackoffBounded'
<1> SUFFICES ASSUME BackoffBounded, [Next]_vars PROVE BackoffBounded'
  OBVIOUS
<1>1. \/ currentBackoff' = currentBackoff \/ currentBackoff' = InitialBackoff
      \/ currentBackoff' = CalculateNextBackoff(currentBackoff)
  BY DEF Next, LoopStep, Stop, NotifyDisconnect, CallResetBackoff, ConnectWithRetry, Start, CancelContext, Top,
       ConnectSucceeds, ConnectFails, CheckRetries, GiveUp, EnterSelect, Leave, Disconnected, TimerFires,
       RaiseBackoff, ResetBackoff, vars
<1>2. InitialBackoff \in InitialBackoff .. MaxBackoff
  BY ReconnectManagerAssumption
<1> QED
  BY <1>1, <1>2, NextBackoffBounded DEF BackoffBounded

\* The invariant always holds.
LEMMA Inductive == Spec => []Inv
<1>1. Inv /\ [Next]_vars => Inv'
  BY NextChannels, NextLoops, NextBackoff DEF Inv
<1> QED
  BY <1>1, InitInv, PTL DEF Spec

\* Every variable keeps its type; disconnectCh never holds more than the one
\* notification its buffer has room for (NotifyDisconnect).
THEOREM TypeCorrect == Spec => []TypeOK
<1>1. Inv => TypeOK
  BY ReconnectManagerAssumption DEF Inv, ChannelType, LoopType, BackoffBounded, TypeOK
<1> QED
  BY <1>1, Inductive, PTL

\* For all configured bounds and multipliers, and any interleaving of the loops
\* with ConnectWithRetry, the backoff stays within its bounds.
THEOREM BackoffIsBounded == Spec => []BackoffBounded
<1>1. Inv => BackoffBounded
  BY DEF Inv
<1> QED
  BY <1>1, Inductive, PTL
================================================================================
