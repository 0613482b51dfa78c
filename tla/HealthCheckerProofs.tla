------------------------- MODULE HealthCheckerProofs -------------------------
(***************************************************************************)
(* Proofs about the HealthChecker for every failure threshold and every     *)
(* number of Starts.                                                        *)
(***************************************************************************)
EXTENDS HealthChecker, TLAPS

\* A stopped checker's channel is closed, there is a channel of a Start as soon
\* as there is a loop, and only channels of past Starts are current or closed.
\* With these NoAbandonedWait and StopClosesOnce are inductive.
ChannelInv ==
    /\ stopCh # 0 => running \/ stopCh \in closed
    /\ stopCh = 0 => ~running /\ \A l \in Loops : pc[l] = "none"
    /\ \A l \in Loops : l = stopCh \/ l \in closed => pc[l] # "none"

Safety == NoAbandonedWait /\ StopClosesOnce

IInv == TypeOK /\ ChannelInv /\ Safety

\* The initial state satisfies the inductive invariant.
LEMMA InitIInv == Init => IInv
<1> SUFFICES ASSUME Init PROVE IInv
  OBVIOUS
<1>1. TypeOK
  <2>1. running \in BOOLEAN
    BY Zenon DEF Init
  <2>2. /\ stopCh \in 0 .. MaxStarts
        /\ closed \in SUBSET (0 .. MaxStarts)
        /\ failures \in Nat
        /\ lastStatus \in Status \cup {"unknown"}
        /\ pc \in [Loops -> LoopPC]
        /\ result \in [Loops -> Status \cup {"unknown"}]
        /\ watch \in [Loops -> 0 .. MaxStarts]
        /\ cancelled \in SUBSET Loops
    BY HealthCheckerAssumption DEF Init, LoopPC
  <2> QED
    BY <2>1, <2>2 DEF TypeOK
<1>2. ChannelInv /\ Safety
  <2>1. \A l \in Loops : pc[l] = "none" /\ l # stopCh
    BY HealthCheckerAssumption DEF Init, Loops
  <2> QED
    BY <2>1 DEF Init, ChannelInv, Safety, NoAbandonedWait, StopClosesOnce
<1> QED
  BY <1>1, <1>2 DEF IInv

\* Every step of Start, Stop, cancellation or a healthCheckLoop keeps the types.
LEMMA NextTypeOK == TypeOK /\ [Next]_vars => TypeOK'
<1> SUFFICES ASSUME TypeOK, [Next]_vars PROVE TypeOK'
  OBVIOUS
<1> USE HealthCheckerAssumption DEF TypeOK, Loops, LoopPC, Status
<1>1. CASE Stop
  BY <1>1, Zenon DEF Stop
<1>2. ASSUME NEW l \in Loops, Start(l) PROVE TypeOK'
  BY <1>2 DEF Start
<1>3. ASSUME NEW l \in Loops, CancelContext(l) PROVE TypeOK'
  BY <1>3 DEF CancelContext
<1>4. ASSUME NEW l \in Loops, Check(l) PROVE TypeOK'
  BY <1>4 DEF Check, CheckStatus
<1>5. ASSUME NEW l \in Loops, PerformCheck(l) PROVE TypeOK'
  <2>1. failures' \in Nat
    BY <1>5 DEF PerformCheck
  <2>2. pc' \in [Loops -> LoopPC]
    BY <1>5 DEF PerformCheck
  <2> QED
    BY <1>5, <2>1, <2>2 DEF PerformCheck
<1>6. ASSUME NEW l \in Loops, Fire(l) PROVE TypeOK'
  BY <1>6 DEF Fire
<1>7. ASSUME NEW l \in Loops, EnterSelect(l) PROVE TypeOK'
  BY <1>7 DEF EnterSelect
<1>8. ASSUME NEW l \in Loops, Tick(l) PROVE TypeOK'
  BY <1>8 DEF Tick
<1>9. ASSUME NEW l \in Loops, Exit(l) PROVE TypeOK'
  BY <1>9 DEF Exit
<1>10. CASE UNCHANGED vars
  BY <1>10 DEF vars
<1> QED
  BY <1>1, <1>2, <1>3, <1>4, <1>5, <1>6, <1>7, <1>8, <1>9, <1>10, Zenon DEF Next, LoopStep

\* Every step keeps the inductive invariant: Start only replaces a closed
\* channel, Stop closes the current one, and a loop entering its select finds
\* a channel that is closed or will be.
LEMMA NextIInv == IInv /\ [Next]_vars => IInv'
<1> SUFFICES ASSUME IInv, [Next]_vars PROVE ChannelInv' /\ Safety'
  BY NextTypeOK DEF IInv
<1> USE HealthCheckerAssumption DEF IInv, TypeOK, Loops, ChannelInv, Safety, NoAbandonedWait, StopClosesOnce
<1>1. CASE Stop
  BY <1>1 DEF Stop
<1>2. ASSUME NEW l \in Loops, Start(l) PROVE ChannelInv' /\ Safety'
  BY <1>2 DEF Start
<1>3. ASSUME NEW l \in Loops, CancelContext(l) PROVE ChannelInv' /\ Safety'
  BY <1>3 DEF CancelContext
<1>4. ASSUME NEW l \in Loops, Check(l) PROVE ChannelInv' /\ Safety'
  BY <1>4 DEF Check
<1>5. ASSUME NEW l \in Loops, PerformCheck(l) PROVE ChannelInv' /\ Safety'
  BY <1>5 DEF PerformCheck
<1>6. ASSUME NEW l \in Loops, Fire(l) PROVE ChannelInv' /\ Safety'
  BY <1>6 DEF Fire
<1>7. ASSUME NEW l \in Loops, EnterSelect(l) PROVE ChannelInv' /\ Safety'
  BY <1>7 DEF EnterSelect
<1>8. ASSUME NEW l \in Loops, Tick(l) PROVE ChannelInv' /\ Safety'
  BY <1>8 DEF Tick
<1>9. ASSUME NEW l \in Loops, Exit(l) PROVE ChannelInv' /\ Safety'
  BY <1>9 DEF Exit
<1>10. CASE UNCHANGED vars
  BY <1>10 DEF vars
<1> QED
  BY <1>1, <1>2, <1>3, <1>4, <1>5, <1>6, <1>7, <1>8, <1>9, <1>10 DEF Next, LoopStep

\* The HealthChecker's state is well typed in every reachable state.
THEOREM TypeCorrect == Spec => []TypeOK
<1>1. Init => TypeOK
  BY InitIInv DEF IInv
<1> QED
  BY <1>1, NextTypeOK, PTL DEF Spec

\* No healthCheckLoop ever blocks on a stop channel that no later Stop closes,
\* whatever the interleaving of Start, Stop and the loops.
THEOREM NoAbandonedWaitHolds == Spec => []NoAbandonedWait
<1>1. IInv => NoAbandonedWait
  BY DEF IInv, Safety
<1> QED
  BY <1>1, InitIInv, NextIInv, PTL DEF Spec

\* Stop never closes a stop channel twice, whatever the interleaving of Start,
\* Stop and the loops.
THEOREM StopClosesOnceHolds == Spec => []StopClosesOnce
<1>1. IInv => StopClosesOnce
  BY DEF IInv, Safety
<1> QED
  BY <1>1, InitIInv, NextIInv, PTL DEF Spec
==============================================================================
