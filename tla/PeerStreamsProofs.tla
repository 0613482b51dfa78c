------------------------- MODULE PeerStreamsProofs --------------------------
(***************************************************************************)
(* Proofs about PeerStreams for every number of streams, of registrations   *)
(* and of passes, and every bound.                                          *)
(***************************************************************************)
EXTENDS PeerStreams, FiniteSetTheorems, TLAPS

\* The locals of a handler, as TypeOK has them.
StreamRecords ==
    [pc : Pcs, id : Ids \union {0}, start : Nat, time : Nat, map : Maps \union {0},
     timer : BOOLEAN, pending : Seq(Messages)]

-----------------------------------------------------------------------------
(* Types.                                                                  *)

\* Serials are handed out by registrations, changes and deletions, which are
\* bounded: this makes the type of the maps inductive.
Bounds ==
    /\ done \in [{"changes", "tokens", "reports", "deletes", "faults"} -> Nat]
    /\ done["changes"] <= MaxChanges /\ done["deletes"] <= MaxDeletes
    /\ ids \in Ids
    /\ serial \in Nat /\ 0 < serial /\ serial <= ids + done["changes"] + done["deletes"]

\* A serial within the bounds is a map.
LEMMA SerialMap == Bounds => serial \in Maps
BY StreamsAssumption, SMTT(30) DEF Bounds, Maps

\* A message that is kept stays one of a sequence of messages.
LEMMA CoalescedType ==
    ASSUME NEW ms \in Seq(Messages), NEW m \in Messages
    PROVE  Coalesced(ms, m) \in Seq(Messages)
BY DEF Coalesced

\* SendUpdate keeps the channels within their capacity.
LEMMA SentType ==
    ASSUME buf \in [Streams -> Seq(Messages)], \A s \in Streams : Len(buf[s]) <= ChannelBuffer,
           chan \in [Ids -> Streams \union {None}], NEW i \in Ids \union {0}, NEW m \in Messages
    PROVE  /\ Sent(i, m) \in [Streams -> Seq(Messages)]
           /\ \A s \in Streams : Len(Sent(i, m)[s]) <= ChannelBuffer
<1>0. ChannelBuffer \in Nat
  BY StreamsAssumption
<1>1. CASE Sent(i, m) = buf
  BY <1>1
<1>2. CASE Sent(i, m) # buf
  <2>1. /\ chan[i] \in Streams /\ Len(buf[chan[i]]) < ChannelBuffer
        /\ Sent(i, m) = [buf EXCEPT ![chan[i]] = Append(@, m)]
    BY <1>2, StreamsAssumption DEF Sent, None
  <2>2. buf[chan[i]] \in Seq(Messages)
    BY <2>1
  <2>3. /\ Append(buf[chan[i]], m) \in Seq(Messages)
        /\ Len(Append(buf[chan[i]], m)) = Len(buf[chan[i]]) + 1
    BY <2>2
  <2>4. Len(buf[chan[i]]) + 1 <= ChannelBuffer
    BY <1>0, <2>1, <2>2
  <2>5. ASSUME NEW s \in Streams
        PROVE  Sent(i, m)[s] \in Seq(Messages) /\ Len(Sent(i, m)[s]) <= ChannelBuffer
    <3>1. CASE s = chan[i]
      BY <2>1, <2>3, <2>4, <3>1
    <3>2. CASE s # chan[i]
      <4>1. Sent(i, m)[s] = buf[s]
        BY <2>1, <3>2
      <4> QED
        BY <4>1
    <3> QED
      BY <3>1, <3>2
  <2>6. Sent(i, m) \in [Streams -> Seq(Messages)]
    BY <2>1, <2>3
  <2> QED
    BY <2>5, <2>6
<1> QED
  BY <1>1, <1>2

\* The store, the clock and the passes.
StoreType ==
    /\ kind \in Kinds
    /\ id \in Ids \union {0}
    /\ status \in [connected : BOOLEAN, lastSeen : Nat, missed : BOOLEAN]
    /\ clock \in Nat
    /\ listed \in Nat
    /\ expired \in [id : Ids \union {0}, since : Nat]
    /\ pass \in [Passes -> [map : Maps \union {0}, id : Ids \union {0}]]
    /\ deleting \in Ids \union {0}

\* What is true or false of the peer and of its account.
FlagType == ephemeral \in BOOLEAN /\ wanted \in BOOLEAN

\* The locals of the handlers, the lock and the registry.
HandlerType ==
    /\ stream \in [Streams -> StreamRecords]
    /\ lock \in Streams \union {None}
    /\ left \in [Streams -> BOOLEAN]
    /\ chan \in [Ids -> Streams \union {None}]
    /\ closed \in [Streams -> BOOLEAN]
    /\ refresh \in [Ids -> Streams \union {None}]

\* What is under way to the clients.
QueueType ==
    /\ out \in [Streams -> Seq(Messages)]
    /\ taken \in [Streams -> Seq(Messages)]
    /\ buf \in [Streams -> Seq(Messages)]
    /\ \A s \in Streams : Len(buf[s]) <= ChannelBuffer

TypeInv == Bounds /\ StoreType /\ FlagType /\ HandlerType /\ QueueType

\* With the counter these are the types.
LEMMA TypeInvType == TypeInv /\ syncSem \in Nat => TypeOK
<1> SUFFICES ASSUME TypeInv, syncSem \in Nat PROVE TypeOK
  OBVIOUS
<1>1. serial \in Maps /\ ids \in Nat /\ DOMAIN done = {"changes", "tokens", "reports", "deletes", "faults"}
  BY StreamsAssumption, SerialMap DEF TypeInv, Bounds
<1>2. StoreType /\ FlagType /\ HandlerType /\ QueueType
  BY DEF TypeInv
<1> QED
  BY <1>1, <1>2, Zenon DEF StoreType, FlagType, HandlerType, QueueType, TypeOK, StreamRecords

\* Every step keeps the bounds of the inputs.
LEMMA NextBounds == Bounds /\ [Next]_vars => Bounds'
<1> SUFFICES ASSUME Bounds, [Next]_vars PROVE Bounds'
  OBVIOUS
<1>0. MaxChanges \in Nat /\ MaxDeletes \in Nat /\ Ids \subseteq Nat
  BY StreamsAssumption
<1> USE <1>0 DEF Bounds
<1>1. ASSUME NEW s \in Streams,
             \/ LookUpUser(s) \/ LookUpAccount(s) \/ SyncPeer(s) \/ MarkConnected(s) \/ SendInitialSyncFails(s)
             \/ OnPeerConnected(s) \/ LeaveLoop(s) \/ CancelStatus(s)
      PROVE  Bounds'
  <2>1. ids' = ids /\ serial' = serial /\ (done' = done \/ Count("changes", MaxChanges) \/ Count("faults", MaxFaults))
    BY <1>1, ZenonT(30) DEF LookUpUser, LookUpAccount, Refused, SyncPeer, MarkConnected, SendInitialSyncFails, OnPeerConnected,
         LeaveLoop, CancelStatus, peerVars
  <2> QED
    BY <2>1 DEF Count
<1>2. ASSUME NEW s \in Streams,
             \/ Open(s) \/ Leave(s) \/ AcquirePeerLock(s) \/ SendInitialSync(s)
             \/ RegisterChannel(s) \/ EnterLoop(s) \/ Update(s) \/ Debounced(s)
             \/ CancelChannel(s) \/ CancelRefresh(s)
      PROVE  Bounds'
  <2>1. UNCHANGED <<ids, serial, done>>
    BY <1>2, Zenon DEF Open, Leave, AcquirePeerLock, SendInitialSync, RegisterChannel, EnterLoop,
         Update, Debounced, CancelChannel, CancelRefresh, peerVars
  <2> QED
    BY <2>1
<1>3. CASE Updates
  <2>1. CASE AccountChange
    BY <2>1 DEF AccountChange, Count
  <2>2. ASSUME NEW i \in Ids, PushTokens(i) PROVE Bounds'
    BY <2>2 DEF PushTokens, Count, peerVars
  <2> QED
    BY <1>3, <2>1, <2>2 DEF Updates
<1>4. CASE RegisterPeer
  BY <1>4 DEF RegisterPeer
<1>5. CASE DeletePeer
  BY <1>5 DEF DeletePeer, Count
<1>6. CASE OnPeersDeleted \/ EphemeralCleanup \/ DeletePeers \/ \E up \in BOOLEAN : ReportMachineStatus(up)
  <2>1. ids' = ids /\ serial' = serial /\ (done' = done \/ Count("reports", MaxReports))
    BY <1>6 DEF OnPeersDeleted, EphemeralCleanup, DeletePeers, ReportMachineStatus, peerVars
  <2> QED
    BY <2>1 DEF Count
<1>7. ASSUME NEW p \in Passes, PassReads(p) \/ PassSends(p) \/ PassFails(p) PROVE Bounds'
  <2>1. ids' = ids /\ serial' = serial /\ (done' = done \/ Count("faults", MaxFaults))
    BY <1>7 DEF PassReads, PassSends, PassFails, peerVars
  <2> QED
    BY <2>1 DEF Count
<1>8. CASE UNCHANGED vars
  BY <1>8 DEF vars, peerVars
<1> QED
  BY <1>1, <1>2, <1>3, <1>4, <1>5, <1>6, <1>7, <1>8 DEF Next, StreamNext, Account, Handler

\* Every step keeps the flags.
LEMMA NextFlags == FlagType /\ [Next]_vars => FlagType'
<1> SUFFICES ASSUME FlagType, [Next]_vars PROVE FlagType'
  OBVIOUS
<1> USE DEF FlagType
<1>1. ASSUME NEW s \in Streams, Handler(s) \/ Open(s) \/ Leave(s)
      PROVE  ephemeral' = ephemeral /\ (wanted' = wanted \/ wanted' = TRUE)
  BY <1>1, Zenon DEF Handler, Open, Leave, LookUpUser, LookUpAccount, AcquirePeerLock, SyncPeer, MarkConnected, SendInitialSync, SendInitialSyncFails,
       OnPeerConnected, RegisterChannel, EnterLoop, Update, Debounced, LeaveLoop, CancelStatus, CancelChannel, CancelRefresh,
       peerVars, updateVars
<1>2. CASE Account \/ Updates
  <2>1. ephemeral' = ephemeral /\ (wanted' = wanted \/ wanted' = TRUE)
    BY <1>2 DEF Account, Updates, AccountChange, RegisterPeer, DeletePeer, OnPeersDeleted, EphemeralCleanup, DeletePeers,
         ReportMachineStatus, PushTokens, peerVars, updateVars
  <2> QED
    BY <2>1, Zenon
<1>3. ASSUME NEW p \in Passes, PassReads(p) \/ PassSends(p) \/ PassFails(p)
      PROVE  ephemeral' = ephemeral /\ (wanted' = wanted \/ wanted' = FALSE)
  BY <1>3 DEF PassReads, PassSends, PassFails, peerVars
<1>4. CASE UNCHANGED vars
  BY <1>4 DEF vars, peerVars, updateVars
<1> QED
  BY <1>1, <1>2, <1>3, <1>4, Zenon DEF Next, StreamNext

\* Every step keeps the types of the store, the clock and the passes.
LEMMA NextStore == TypeInv /\ [Next]_vars => StoreType'
<1> SUFFICES ASSUME TypeInv, [Next]_vars PROVE StoreType'
  OBVIOUS
<1>0. StoreType /\ serial \in Maps /\ stream \in [Streams -> StreamRecords] /\ Ids \subseteq Nat
  BY StreamsAssumption, SerialMap DEF TypeInv, HandlerType
<1>1. ASSUME NEW connected \in BOOLEAN, NEW time \in Nat, MarkPeerConnected(connected, time)
      PROVE  status' \in [connected : BOOLEAN, lastSeen : Nat, missed : BOOLEAN]
  BY <1>0, <1>1 DEF MarkPeerConnected, StoreType
<1>2. ASSUME NEW s \in Streams, MarkConnected(s) PROVE StoreType'
  <2>1. stream[s].time \in Nat
    BY <1>0 DEF StreamRecords
  <2>2. status' \in [connected : BOOLEAN, lastSeen : Nat, missed : BOOLEAN]
    <3>1. MarkPeerConnected(TRUE, stream[s].time) \/ status' = status
      BY <1>2, Zenon DEF MarkConnected
    <3>2. CASE status' = status
      BY <1>0, <3>2 DEF StoreType
    <3> QED
      BY <1>1, <2>1, <3>1, <3>2, Zenon
  <2>3. UNCHANGED <<kind, id, clock, listed, expired, pass, deleting>>
    BY <1>2, Zenon DEF MarkConnected, channelVars, updateVars
  <2> QED
    BY <1>0, <2>2, <2>3 DEF StoreType
<1>3. ASSUME NEW s \in Streams, CancelStatus(s) PROVE StoreType'
  <2>1. clock' \in Nat /\ status' \in [connected : BOOLEAN, lastSeen : Nat, missed : BOOLEAN]
    <3>1. \/ UNCHANGED <<status, clock>>
          \/ clock' = clock + 1 /\ MarkPeerConnected(FALSE, clock')
          \/ status' = [status EXCEPT !.missed = TRUE] /\ clock' = clock
      BY <1>3, Zenon DEF CancelStatus
    <3>2. CASE UNCHANGED <<status, clock>>
      BY <1>0, <3>2 DEF StoreType
    <3>3. CASE clock' = clock + 1 /\ MarkPeerConnected(FALSE, clock')
      <4>1. clock' \in Nat
        BY <1>0, <3>3 DEF StoreType
      <4> QED
        BY <1>1, <3>3, <4>1, Zenon
    <3>4. CASE status' = [status EXCEPT !.missed = TRUE] /\ clock' = clock
      BY <1>0, <3>4, ZenonT(30) DEF StoreType
    <3> QED
      BY <3>1, <3>2, <3>3, <3>4, ZenonT(30)
  <2>2. UNCHANGED <<kind, id, listed, expired, pass, deleting>>
    BY <1>3, Zenon DEF CancelStatus, channelVars, updateVars
  <2> QED
    BY <1>0, <2>1, <2>2 DEF StoreType
<1>4. ASSUME NEW s \in Streams,
             \/ Open(s) \/ SyncPeer(s) \/ OnPeerConnected(s) \/ CancelChannel(s)
      PROVE  StoreType'
  <2>1. /\ clock' \in Nat /\ listed' \in Nat
        /\ UNCHANGED <<kind, id, status, expired, pass, deleting>>
    BY <1>0, <1>4 DEF Open, SyncPeer, OnPeerConnected, CancelChannel, peerVars, channelVars, updateVars, StoreType
  <2> QED
    BY <1>0, <2>1 DEF StoreType
<1>5. ASSUME NEW s \in Streams,
             \/ Leave(s) \/ LookUpUser(s) \/ LookUpAccount(s) \/ AcquirePeerLock(s) \/ SendInitialSync(s)
             \/ SendInitialSyncFails(s) \/ RegisterChannel(s) \/ EnterLoop(s) \/ Update(s) \/ Debounced(s)
             \/ LeaveLoop(s) \/ CancelRefresh(s)
      PROVE  StoreType'
  <2>1. UNCHANGED <<kind, id, status, clock, listed, expired, pass, deleting>>
    BY <1>5, ZenonT(30) DEF Leave, LookUpUser, LookUpAccount, AcquirePeerLock, SendInitialSync, SendInitialSyncFails,
         RegisterChannel, EnterLoop, Update, Debounced, LeaveLoop, CancelRefresh, peerVars, channelVars, updateVars
  <2> QED
    BY <1>0, <2>1, ZenonT(30) DEF StoreType
<1>6. CASE RegisterPeer
  <2>1. id' \in Ids \union {0} /\ clock' \in Nat /\ listed' \in Nat
    BY <1>0, <1>6 DEF RegisterPeer, StoreType
  <2>2. status' \in [connected : BOOLEAN, lastSeen : Nat, missed : BOOLEAN]
    BY <1>0, <1>6 DEF RegisterPeer, StoreType
  <2> QED
    BY <1>0, <1>6, <2>1, <2>2 DEF RegisterPeer, StoreType
<1>7. CASE DeletePeer \/ OnPeersDeleted \/ DeletePeers \/ EphemeralCleanup
  <2>1. id' \in Ids \union {0} /\ deleting' \in Ids \union {0} /\ listed' \in Nat
    BY <1>0, <1>7 DEF DeletePeer, OnPeersDeleted, DeletePeers, EphemeralCleanup, peerVars, channelVars, updateVars, StoreType
  <2>2. expired' \in [id : Ids \union {0}, since : Nat]
    BY <1>0, <1>7 DEF DeletePeer, OnPeersDeleted, DeletePeers, EphemeralCleanup, NoneExpired, channelVars, StoreType
  <2>3. UNCHANGED <<kind, status, clock, pass>>
    BY <1>7 DEF DeletePeer, OnPeersDeleted, DeletePeers, EphemeralCleanup, peerVars, updateVars
  <2> QED
    BY <1>0, <2>1, <2>2, <2>3 DEF StoreType
<1>8. ASSUME NEW up \in BOOLEAN, ReportMachineStatus(up) PROVE StoreType'
  <2>1. clock' \in Nat /\ MarkPeerConnected(up, clock')
    BY <1>0, <1>8 DEF ReportMachineStatus, StoreType
  <2>2. status' \in [connected : BOOLEAN, lastSeen : Nat, missed : BOOLEAN]
    BY <1>1, <2>1
  <2> QED
    BY <1>0, <1>8, <2>1, <2>2 DEF ReportMachineStatus, StoreType, channelVars, updateVars
<1>9. CASE Updates \/ UNCHANGED vars
  <2>1. UNCHANGED <<kind, id, status, clock, listed, expired, pass, deleting>>
    BY <1>9 DEF Updates, AccountChange, PushTokens, vars, peerVars, channelVars, updateVars
  <2> QED
    BY <1>0, <2>1 DEF StoreType
<1>10. ASSUME NEW p \in Passes, PassReads(p) \/ PassSends(p) \/ PassFails(p) PROVE StoreType'
  <2>1. pass' \in [Passes -> [map : Maps \union {0}, id : Ids \union {0}]]
    BY <1>0, <1>10 DEF PassReads, PassSends, PassFails, IdlePass, StoreType
  <2>2. UNCHANGED <<kind, id, status, clock, listed, expired, deleting>>
    BY <1>10 DEF PassReads, PassSends, PassFails, peerVars, channelVars
  <2> QED
    BY <1>0, <2>1, <2>2 DEF StoreType
<1> QED
  BY <1>2, <1>3, <1>4, <1>5, <1>6, <1>7, <1>8, <1>9, <1>10 DEF Next, StreamNext, Account, Handler

\* A handler's locals stay typed when one of them is assigned.
LEMMA LocalType ==
    ASSUME NEW f \in [Streams -> StreamRecords], NEW s \in Streams, NEW v
    PROVE  /\ v \in Pcs => [f EXCEPT ![s].pc = v] \in [Streams -> StreamRecords]
           /\ v \in Ids \union {0} => [f EXCEPT ![s].id = v] \in [Streams -> StreamRecords]
           /\ v \in Nat => [f EXCEPT ![s].start = v] \in [Streams -> StreamRecords]
           /\ v \in Nat => [f EXCEPT ![s].time = v] \in [Streams -> StreamRecords]
           /\ v \in Maps \union {0} => [f EXCEPT ![s].map = v] \in [Streams -> StreamRecords]
           /\ v \in BOOLEAN => [f EXCEPT ![s].timer = v] \in [Streams -> StreamRecords]
           /\ v \in Seq(Messages) => [f EXCEPT ![s].pending = v] \in [Streams -> StreamRecords]
<1>1. v \in Pcs => [f EXCEPT ![s].pc = v] \in [Streams -> StreamRecords]
  BY Zenon DEF StreamRecords
<1>2. v \in Ids \union {0} => [f EXCEPT ![s].id = v] \in [Streams -> StreamRecords]
  BY Zenon DEF StreamRecords
<1>3. v \in Nat => [f EXCEPT ![s].start = v] \in [Streams -> StreamRecords]
  BY Zenon DEF StreamRecords
<1>4. v \in Nat => [f EXCEPT ![s].time = v] \in [Streams -> StreamRecords]
  BY Zenon DEF StreamRecords
<1>5. v \in Maps \union {0} => [f EXCEPT ![s].map = v] \in [Streams -> StreamRecords]
  BY Zenon DEF StreamRecords
<1>6. v \in BOOLEAN => [f EXCEPT ![s].timer = v] \in [Streams -> StreamRecords]
  BY Zenon DEF StreamRecords
<1>7. v \in Seq(Messages) => [f EXCEPT ![s].pending = v] \in [Streams -> StreamRecords]
  BY Zenon DEF StreamRecords
<1> QED
  BY <1>1, <1>2, <1>3, <1>4, <1>5, <1>6, <1>7

\* Every step keeps the types of the handlers' locals.
LEMMA NextStream == TypeInv /\ [Next]_vars => stream' \in [Streams -> StreamRecords]
<1> SUFFICES ASSUME TypeInv, [Next]_vars PROVE stream' \in [Streams -> StreamRecords]
  OBVIOUS
<1>0. /\ stream \in [Streams -> StreamRecords] /\ serial \in Maps /\ id \in Ids \union {0} /\ clock \in Nat
      /\ buf \in [Streams -> Seq(Messages)]
  BY SerialMap DEF TypeInv, HandlerType, StoreType, QueueType
<1>1. ASSUME NEW s \in Streams, NEW pc \in Pcs, Pc(s, pc) PROVE stream' \in [Streams -> StreamRecords]
  BY <1>0, <1>1, ZenonT(30) DEF Pc, StreamRecords
<1>2. ASSUME NEW s \in Streams, Return(s) PROVE stream' \in [Streams -> StreamRecords]
  <2>1. <<>> \in Seq(Messages) /\ "done" \in Pcs /\ 0 \in Nat
    BY DEF Pcs
  <2>2. NewStream \in StreamRecords
    BY <2>1 DEF NewStream, StreamRecords, Pcs
  <2>3. [NewStream EXCEPT !.pc = "done"] \in StreamRecords
    BY <2>1, <2>2 DEF StreamRecords
  <2> QED
    BY <1>0, <1>2, <2>3 DEF Return
<1>3. ASSUME NEW s \in Streams, Open(s) PROVE stream' \in [Streams -> StreamRecords]
  <2>1. CASE Return(s)
    BY <1>2, <2>1
  <2>2. CASE ~Return(s)
    <3>1. clock' = clock + 1 /\ stream' = [stream EXCEPT ![s].pc = "user", ![s].start = clock']
      BY <1>3, <2>2, Zenon DEF Open
    <3>2. "user" \in Pcs /\ clock' \in Nat
      BY <1>0, <3>1 DEF Pcs, InitPcs
    <3> DEFINE f == [stream EXCEPT ![s].pc = "user"]
               g == [f EXCEPT ![s].start = clock']
    <3>3. stream' = g
      BY <3>1
    <3>4. f \in [Streams -> StreamRecords]
      BY <1>0, <3>2, LocalType, Zenon
    <3> HIDE DEF f
    <3>5. g \in [Streams -> StreamRecords]
      BY <3>2, <3>4, LocalType, Zenon
    <3> QED
      BY <3>3, <3>5
  <2> QED
    BY <2>1, <2>2
<1>4. ASSUME NEW s \in Streams, SyncPeer(s) PROVE stream' \in [Streams -> StreamRecords]
  <2>1. CASE ~Return(s)
    <3> DEFINE time == IF kind = "machine" THEN clock' ELSE stream[s].start
    <3>1. "mark" \in Pcs /\ time \in Nat
      BY <1>0, <1>4 DEF SyncPeer, StreamRecords, Pcs, InitPcs
    <3>2. stream' = [stream EXCEPT ![s].pc = "mark", ![s].id = id, ![s].map = serial, ![s].time = time]
      BY <1>4, <2>1, Zenon DEF SyncPeer
    <3> HIDE DEF time
    <3> DEFINE f == [stream EXCEPT ![s].pc = "mark"]
               g == [f EXCEPT ![s].id = id]
               h == [g EXCEPT ![s].map = serial]
               k == [h EXCEPT ![s].time = time]
    <3>3. stream' = k
      BY <3>2
    <3>4. f \in [Streams -> StreamRecords]
      BY <1>0, <3>1, LocalType, Zenon
    <3> HIDE DEF f
    <3>5. g \in [Streams -> StreamRecords]
      BY <1>0, <3>4, LocalType, ZenonT(30)
    <3> HIDE DEF g
    <3>6. h \in [Streams -> StreamRecords]
      BY <1>0, <3>5, LocalType, Zenon
    <3> HIDE DEF h
    <3>7. k \in [Streams -> StreamRecords]
      BY <3>1, <3>6, LocalType, Zenon
    <3> QED
      BY <3>3, <3>7
  <2>2. CASE Return(s)
    BY <1>2, <2>2
  <2> QED
    BY <2>1, <2>2
<1>5. ASSUME NEW s \in Streams, Update(s) PROVE stream' \in [Streams -> StreamRecords]
  <2>1. Head(buf[s]) \in Messages /\ stream[s].pending \in Seq(Messages)
    BY <1>0, <1>5 DEF Update, StreamRecords
  <2>2. Coalesced(stream[s].pending, Head(buf[s])) \in Seq(Messages)
    BY <2>1, CoalescedType
  <2>3. CASE kind = "sync" /\ stream[s].timer
    <3>1. stream' = [stream EXCEPT ![s].pending = Coalesced(stream[s].pending, Head(buf[s]))]
      BY <1>0, <1>5, <2>3 DEF Update
    <3> QED
      BY <1>0, <2>2, <3>1, Zenon DEF StreamRecords
  <2>4. CASE ~(kind = "sync" /\ stream[s].timer)
    <3> DEFINE timer == (kind = "sync")
    <3>1. stream' = [stream EXCEPT ![s].timer = timer] /\ timer \in BOOLEAN
      BY <1>5, <2>4 DEF Update
    <3> HIDE DEF timer
    <3> QED
      BY <1>0, <3>1, ZenonT(30) DEF StreamRecords
  <2> QED
    BY <2>3, <2>4
<1>6. ASSUME NEW s \in Streams, Debounced(s) PROVE stream' \in [Streams -> StreamRecords]
  <2> DEFINE timer == (stream[s].pending # <<>>)
  <2>1. stream' = [stream EXCEPT ![s].pending = <<>>, ![s].timer = timer] /\ timer \in BOOLEAN
    BY <1>6 DEF Debounced
  <2>2. <<>> \in Seq(Messages)
    OBVIOUS
  <2> HIDE DEF timer
  <2> DEFINE f == [stream EXCEPT ![s].pending = <<>>]
             g == [f EXCEPT ![s].timer = timer]
  <2>3. stream' = g
    BY <2>1
  <2>4. f \in [Streams -> StreamRecords]
    BY <1>0, <2>2, LocalType, Zenon
  <2> HIDE DEF f
  <2>5. g \in [Streams -> StreamRecords]
    BY <2>1, <2>4, LocalType, Zenon
  <2> QED
    BY <2>3, <2>5
<1>7. ASSUME NEW s \in Streams, LeaveLoop(s) PROVE stream' \in [Streams -> StreamRecords]
  <2>1. "cancelLock" \in Pcs /\ <<>> \in Seq(Messages)
    BY DEF Pcs
  <2>2. stream' = [stream EXCEPT ![s].pc = "cancelLock", ![s].timer = FALSE, ![s].pending = <<>>]
    BY <1>7 DEF LeaveLoop
  <2> DEFINE f == [stream EXCEPT ![s].pc = "cancelLock"]
             g == [f EXCEPT ![s].timer = FALSE]
             h == [g EXCEPT ![s].pending = <<>>]
  <2>3. stream' = h
    BY <2>2
  <2>4. f \in [Streams -> StreamRecords]
    BY <1>0, <2>1, LocalType, Zenon
  <2> HIDE DEF f
  <2>5. g \in [Streams -> StreamRecords]
    BY <2>4, LocalType, Zenon
  <2> HIDE DEF g
  <2>6. h \in [Streams -> StreamRecords]
    BY <2>1, <2>5, LocalType, ZenonT(30)
  <2> QED
    BY <2>3, <2>6
<1>8. ASSUME NEW s \in Streams,
             \/ LookUpUser(s) \/ LookUpAccount(s) \/ AcquirePeerLock(s) \/ MarkConnected(s) \/ SendInitialSync(s)
             \/ SendInitialSyncFails(s) \/ OnPeerConnected(s) \/ RegisterChannel(s) \/ EnterLoop(s)
             \/ CancelStatus(s) \/ CancelChannel(s) \/ CancelRefresh(s)
      PROVE  stream' \in [Streams -> StreamRecords]
  <2>1. (\E pc \in Pcs : Pc(s, pc)) \/ Return(s)
    BY <1>8, Zenon DEF LookUpUser, LookUpAccount, AcquirePeerLock, MarkConnected, SendInitialSync, SendInitialSyncFails,
         OnPeerConnected, RegisterChannel, EnterLoop,
         CancelStatus, CancelChannel, CancelRefresh, Pcs, InitPcs, CancelPcs
  <2> QED
    BY <1>1, <1>2, <2>1
<1>9. ASSUME \/ Account \/ Updates \/ UNCHANGED vars \/ \E s \in Streams : Leave(s)
             \/ \E p \in Passes : PassReads(p) \/ PassSends(p) \/ PassFails(p)
      PROVE  stream' = stream
  BY <1>9, ZenonT(30) DEF Account, Updates, Leave, AccountChange, RegisterPeer, DeletePeer, OnPeersDeleted, EphemeralCleanup, DeletePeers,
       ReportMachineStatus, PushTokens, PassReads, PassSends, PassFails, handlerVars, vars
<1> QED
  BY <1>0, <1>3, <1>4, <1>5, <1>6, <1>7, <1>8, <1>9 DEF Next, StreamNext, Handler

\* The channel of a peer is registered or closed: the registry stays typed.
LEMMA ChannelType ==
    ASSUME chan \in [Ids -> Streams \union {None}], closed \in [Streams -> BOOLEAN],
           NEW s \in Streams, NEW i, CreateChannel(s, i) \/ CloseChannel(i)
    PROVE  chan' \in [Ids -> Streams \union {None}] /\ closed' \in [Streams -> BOOLEAN]
<1>1. chan' \in [Ids -> Streams \union {None}]
  BY DEF CreateChannel, CloseChannel
<1>2. closed' = closed \/ closed' = [closed EXCEPT ![chan[i]] = TRUE]
  BY DEF CreateChannel, CloseChannel
<1>3. [closed EXCEPT ![chan[i]] = TRUE] \in [Streams -> BOOLEAN]
  BY Zenon
<1> QED
  BY <1>1, <1>2, <1>3, Zenon

\* Every step keeps the types of the lock, the clients and the registry.
LEMMA NextHandler == TypeInv /\ [Next]_vars => HandlerType'
<1> SUFFICES ASSUME TypeInv, [Next]_vars PROVE HandlerType'
  OBVIOUS
<1> DEFINE L == lock' \in Streams \union {None} /\ left' \in [Streams -> BOOLEAN]
           C == chan' \in [Ids -> Streams \union {None}] /\ closed' \in [Streams -> BOOLEAN]
           R == refresh' \in [Ids -> Streams \union {None}]
<1>0. HandlerType
  BY DEF TypeInv
<1>1. ASSUME NEW s \in Streams, Handler(s) \/ Open(s) \/ Leave(s) PROVE L
  <2>1. lock' \in {lock, s, None} /\ left' \in {left, [left EXCEPT ![s] = TRUE]}
    BY <1>1, Zenon DEF Handler, Open, Leave, LookUpUser, LookUpAccount, AcquirePeerLock, SyncPeer, MarkConnected, SendInitialSync, SendInitialSyncFails,
         OnPeerConnected, RegisterChannel, EnterLoop, Update, Debounced, LeaveLoop, CancelStatus, CancelChannel, CancelRefresh
  <2> QED
    BY <1>0, <2>1, Zenon DEF HandlerType
<1>2. ASSUME NEW s \in Streams, RegisterChannel(s) \/ CancelChannel(s) PROVE C
  <2>1. \E i : CreateChannel(s, i) \/ CloseChannel(i)
    BY <1>2, Zenon DEF RegisterChannel, CancelChannel
  <2> QED
    BY <1>0, <2>1, ChannelType DEF HandlerType
<1>3. ASSUME NEW s \in Streams,
             \/ Open(s) \/ Leave(s) \/ LookUpUser(s) \/ LookUpAccount(s) \/ AcquirePeerLock(s) \/ SyncPeer(s)
             \/ MarkConnected(s) \/ SendInitialSync(s) \/ SendInitialSyncFails(s) \/ OnPeerConnected(s) \/ EnterLoop(s)
             \/ Update(s) \/ Debounced(s) \/ LeaveLoop(s) \/ CancelStatus(s) \/ CancelRefresh(s)
      PROVE  C
  <2>1. UNCHANGED <<chan, closed>>
    BY <1>3, Zenon DEF Open, Leave, LookUpUser, LookUpAccount, AcquirePeerLock, SyncPeer, MarkConnected, SendInitialSync,
         SendInitialSyncFails, OnPeerConnected, EnterLoop, Update, Debounced, LeaveLoop, CancelStatus, CancelRefresh, channelVars
  <2> QED
    BY <1>0, <2>1 DEF HandlerType
<1>4. ASSUME NEW s \in Streams, Handler(s) \/ Open(s) \/ Leave(s) PROVE R
  <2>1. refresh' = refresh \/ \E i : refresh' = [refresh EXCEPT ![i] = s] \/ refresh' = [refresh EXCEPT ![i] = None]
    BY <1>4, Zenon DEF Handler, Open, Leave, LookUpUser, LookUpAccount, AcquirePeerLock, SyncPeer, MarkConnected, SendInitialSync, SendInitialSyncFails,
         OnPeerConnected, RegisterChannel, EnterLoop, Update, Debounced, LeaveLoop, CancelStatus, CancelChannel, CancelRefresh, channelVars
  <2> QED
    BY <1>0, <2>1 DEF HandlerType
<1>5. CASE OnPeersDeleted
  <2>1. UNCHANGED <<lock, left, refresh>> /\ CloseChannel(deleting)
    BY <1>5 DEF OnPeersDeleted, handlerVars
  <2>2. C
    BY <1>0, <2>1, Zenon DEF HandlerType, CloseChannel
  <2> QED
    BY <1>0, <2>1, <2>2, NextStream DEF HandlerType
<1>6. ASSUME \/ RegisterPeer \/ DeletePeer \/ EphemeralCleanup \/ DeletePeers \/ UNCHANGED vars \/ Updates
             \/ \E up \in BOOLEAN : ReportMachineStatus(up)
             \/ \E p \in Passes : PassReads(p) \/ PassSends(p) \/ PassFails(p)
      PROVE  UNCHANGED <<lock, left, chan, closed, refresh>>
  BY <1>6, Zenon DEF RegisterPeer, DeletePeer, EphemeralCleanup, DeletePeers, ReportMachineStatus, Updates, AccountChange, PushTokens,
       PassReads, PassSends, PassFails, handlerVars, channelVars, vars
<1>7. ASSUME L, C, R PROVE HandlerType'
  BY <1>7, NextStream DEF HandlerType
<1>8. ASSUME UNCHANGED <<lock, left, chan, closed, refresh>> PROVE HandlerType'
  BY <1>0, <1>8, NextStream DEF HandlerType
<1>9. ASSUME NEW s \in Streams, Handler(s) \/ Open(s) \/ Leave(s) PROVE C
  BY <1>2, <1>3, <1>9 DEF Handler
<1> HIDE DEF L, C, R
<1> QED
  BY <1>1, <1>4, <1>5, <1>6, <1>7, <1>8, <1>9 DEF Next, StreamNext, Account

\* What is kept of the messages of a stream stays typed.
LEMMA OneQueue ==
    ASSUME NEW f \in [Streams -> Seq(Messages)], NEW s \in Streams, NEW ms \in Seq(Messages)
    PROVE  [f EXCEPT ![s] = ms] \in [Streams -> Seq(Messages)]
OBVIOUS

\* Every step keeps the types of the messages and the capacity of the channels.
LEMMA NextQueue == TypeInv /\ [Next]_vars => QueueType'
<1> SUFFICES ASSUME TypeInv, [Next]_vars PROVE QueueType'
  OBVIOUS
<1> DEFINE O == out' \in [Streams -> Seq(Messages)]
           T == taken' \in [Streams -> Seq(Messages)]
           B == buf' \in [Streams -> Seq(Messages)] /\ \A s \in Streams : Len(buf'[s]) <= ChannelBuffer
<1>0. /\ QueueType /\ stream \in [Streams -> StreamRecords] /\ chan \in [Ids -> Streams \union {None}]
      /\ serial \in Messages /\ Ctl \in Messages /\ <<>> \in Seq(Messages)
      /\ \A s \in Streams : stream[s].map \in Messages /\ stream[s].pending \in Seq(Messages)
  BY SerialMap DEF TypeInv, HandlerType, StreamRecords, Messages, Ctl
<1>1. ASSUME NEW s \in Streams, SendInitialSync(s) PROVE QueueType'
  <2>1. UNCHANGED <<taken, buf>> /\ out' \in {out, [out EXCEPT ![s] = <<stream[s].map>>]}
    BY <1>1 DEF SendInitialSync, channelVars
  <2>2. <<stream[s].map>> \in Seq(Messages)
    BY <1>0
  <2>3. O
    BY <1>0, <2>1, <2>2, OneQueue, Zenon DEF QueueType
  <2> QED
    BY <1>0, <2>1, <2>3 DEF QueueType
<1>2. ASSUME NEW s \in Streams, Leave(s) PROVE QueueType'
  BY <1>0, <1>2 DEF Leave, channelVars, QueueType
<1>3. ASSUME NEW s \in Streams, NEW ms \in Seq(Messages), Deliver(s, ms) PROVE O
  <2>1. out' \in {out, [out EXCEPT ![s] = out[s] \o ms]}
    BY <1>3 DEF Deliver
  <2>2. out[s] \o ms \in Seq(Messages)
    BY <1>0 DEF QueueType
  <2> QED
    BY <1>0, <2>1, <2>2, OneQueue, Zenon DEF QueueType
<1>4. ASSUME NEW s \in Streams, Debounced(s) PROVE QueueType'
  <2>1. UNCHANGED <<taken, buf>> /\ Deliver(s, stream[s].pending)
    BY <1>4 DEF Debounced, channelVars
  <2>2. O
    BY <1>0, <1>3, <2>1
  <2> QED
    BY <1>0, <2>1, <2>2 DEF QueueType
<1>5. ASSUME NEW s \in Streams, LeaveLoop(s) PROVE QueueType'
  <2>1. UNCHANGED <<out, taken>> /\ buf' = [buf EXCEPT ![s] = <<>>]
    BY <1>5 DEF LeaveLoop
  <2>2. B
    BY <1>0, <2>1, StreamsAssumption DEF QueueType
  <2> QED
    BY <1>0, <2>1, <2>2 DEF QueueType
<1>6. ASSUME NEW s \in Streams, Update(s) PROVE QueueType'
  <2> DEFINE m == Head(buf[s])
  <2>1. /\ buf[s] \in Seq(Messages) /\ buf[s] # <<>> /\ taken[s] \in Seq(Messages)
        /\ buf' = [buf EXCEPT ![s] = Tail(buf[s])]
        /\ taken' \in {taken, [taken EXCEPT ![s] = Append(taken[s], m)]}
        /\ out' = out \/ Deliver(s, <<m>>)
    BY <1>0, <1>6 DEF Update, QueueType
  <2>2. m \in Messages /\ Tail(buf[s]) \in Seq(Messages) /\ Len(Tail(buf[s])) <= Len(buf[s])
    BY <2>1
  <2>3. <<m>> \in Seq(Messages) /\ Append(taken[s], m) \in Seq(Messages)
    BY <2>1, <2>2
  <2>4. O
    BY <1>0, <1>3, <2>1, <2>3, Zenon DEF QueueType
  <2>5. T
    BY <1>0, <2>1, <2>3, OneQueue, Zenon DEF QueueType
  <2>6. B
    <3>1. buf' \in [Streams -> Seq(Messages)]
      BY <1>0, <2>1, <2>2, OneQueue DEF QueueType
    <3>2. ASSUME NEW r \in Streams PROVE Len(buf'[r]) <= ChannelBuffer
      <4>1. buf'[r] = IF r = s THEN Tail(buf[s]) ELSE buf[r]
        BY <1>0, <2>1 DEF QueueType
      <4>2. Len(buf[r]) <= ChannelBuffer /\ Len(buf[r]) \in Nat /\ Len(Tail(buf[s])) \in Nat /\ ChannelBuffer \in Nat
        BY <1>0, <2>2, StreamsAssumption, SMTT(30) DEF QueueType
      <4> QED
        BY <2>2, <4>1, <4>2
    <3> QED
      BY <3>1, <3>2
  <2> QED
    BY <2>4, <2>5, <2>6 DEF QueueType
<1>7. ASSUME NEW i \in Ids \union {0}, NEW msg \in Messages, buf' = Sent(i, msg) PROVE B
  BY <1>0, <1>7, SentType, Zenon DEF QueueType
<1>8. ASSUME \/ OnPeersDeleted \/ \E i \in Ids : PushTokens(i)
             \/ \E p \in Passes : PassSends(p)
      PROVE  QueueType'
  <2>1. UNCHANGED <<out, taken>>
    BY <1>8 DEF OnPeersDeleted, PushTokens, PassSends, handlerVars
  <2>2. deleting \in Ids \union {0} /\ \A p \in Passes : pass[p].id \in Ids \union {0} /\ pass[p].map \in Messages
    BY DEF TypeInv, StoreType, Messages, Ctl
  <2>3. \E i \in Ids \union {0}, msg \in Messages : buf' = Sent(i, msg)
    BY <1>0, <1>8, <2>2, ZenonT(30) DEF OnPeersDeleted, PushTokens, PassSends
  <2> QED
    BY <1>0, <1>7, <2>1, <2>3, Zenon DEF QueueType
<1>9. ASSUME \/ RegisterPeer \/ DeletePeer \/ EphemeralCleanup \/ DeletePeers \/ UNCHANGED vars \/ AccountChange
             \/ \E up \in BOOLEAN : ReportMachineStatus(up)
             \/ \E p \in Passes : PassReads(p) \/ PassFails(p)
      PROVE  UNCHANGED <<out, taken, buf>>
  BY <1>9, Zenon DEF RegisterPeer, DeletePeer, EphemeralCleanup, DeletePeers, ReportMachineStatus, AccountChange,
       PassReads, PassFails, handlerVars, channelVars, vars
<1>10. ASSUME NEW s \in Streams,
             \/ Open(s) \/ LookUpUser(s) \/ LookUpAccount(s) \/ AcquirePeerLock(s) \/ SyncPeer(s) \/ MarkConnected(s)
             \/ SendInitialSyncFails(s) \/ OnPeerConnected(s) \/ RegisterChannel(s) \/ EnterLoop(s)
             \/ CancelStatus(s) \/ CancelChannel(s) \/ CancelRefresh(s)
      PROVE  UNCHANGED <<out, taken, buf>>
  BY <1>10, Zenon DEF Open, LookUpUser, LookUpAccount, AcquirePeerLock, SyncPeer, MarkConnected, SendInitialSyncFails,
       OnPeerConnected, RegisterChannel, EnterLoop,
       CancelStatus, CancelChannel, CancelRefresh, channelVars
<1>11. ASSUME UNCHANGED <<out, taken, buf>> PROVE QueueType'
  BY <1>0, <1>11 DEF QueueType
<1> QED
  BY <1>1, <1>2, <1>4, <1>5, <1>6, <1>8, <1>9, <1>10, <1>11, ZenonT(30) DEF Next, StreamNext, Handler, Account, Updates

\* The types hold at first.
LEMMA InitType == Init => TypeInv
<1> SUFFICES ASSUME Init PROVE TypeInv
  OBVIOUS
<1>1. Bounds
  <2> DEFINE K == {"changes", "tokens", "reports", "deletes", "faults"}
  <2>1. done = [k \in K |-> 0] /\ ids = 1 /\ serial = 1
    BY Zenon DEF Init
  <2>2. done \in [K -> Nat] /\ done["changes"] = 0 /\ done["deletes"] = 0
    BY <2>1
  <2>3. MaxChanges \in Nat /\ MaxDeletes \in Nat /\ 1 \in Ids
    BY StreamsAssumption
  <2> QED
    BY <2>1, <2>2, <2>3 DEF Bounds
<1>2. StoreType
  BY StreamsAssumption DEF Init, StoreType, NoneExpired, IdlePass
<1>3. FlagType
  BY StreamsAssumption, Zenon DEF Init, FlagType
<1>4. HandlerType
  <2>1. <<>> \in Seq(Messages)
    OBVIOUS
  <2>2. NewStream \in StreamRecords
    BY <2>1 DEF NewStream, StreamRecords, Pcs
  <2> QED
    BY <2>2 DEF Init, HandlerType
<1>5. QueueType
  BY StreamsAssumption DEF Init, QueueType
<1> QED
  BY <1>1, <1>2, <1>3, <1>4, <1>5 DEF TypeInv

\* Every step keeps the types.
LEMMA NextType == TypeInv /\ [Next]_vars => TypeInv'
BY NextBounds, NextStore, NextFlags, NextHandler, NextQueue DEF TypeInv

-----------------------------------------------------------------------------
(* What the steps do to the handlers' positions.                           *)

Others(s) == \A r \in Streams : r # s => stream'[r] = stream[r]

\* The handler s goes on to pc and keeps what the invariants ask about.
MovesTo(s, pc) ==
    /\ stream'[s].pc = pc
    /\ stream'[s].id = stream[s].id
    /\ stream'[s].start = stream[s].start
    /\ stream'[s].time = stream[s].time
    /\ Others(s)

\* The handler s has returned.
Returned(s) == stream'[s].pc = "done" /\ Others(s)

\* An assignment to a handler's position moves that handler.
LEMMA PcMoves ==
    ASSUME stream \in [Streams -> StreamRecords], NEW s \in Streams, NEW pc, Pc(s, pc)
    PROVE  MovesTo(s, pc)
BY DEF Pc, MovesTo, Others, StreamRecords

\* A handler that returns leaves the others alone.
LEMMA ReturnMoves ==
    ASSUME stream \in [Streams -> StreamRecords], NEW s \in Streams, Return(s)
    PROVE  Returned(s)
BY DEF Return, Returned, Others, NewStream

\* An update in the loop changes the timer and what is pending.
LEMMA LoopMoves ==
    ASSUME stream \in [Streams -> StreamRecords], NEW s \in Streams, Update(s) \/ Debounced(s)
    PROVE  stream[s].pc = "loop" /\ MovesTo(s, "loop")
<1>1. CASE Update(s)
  BY <1>1 DEF Update, MovesTo, Others, StreamRecords
<1>2. CASE Debounced(s)
  BY <1>2 DEF Debounced, MovesTo, Others, StreamRecords
<1> QED
  BY <1>1, <1>2

\* The end of the loop is followed by cancelPeerRoutines.
LEMMA LeaveLoopMoves ==
    ASSUME stream \in [Streams -> StreamRecords], NEW s \in Streams, LeaveLoop(s)
    PROVE  stream[s].pc = "loop" /\ MovesTo(s, "cancelLock")
BY DEF LeaveLoop, MovesTo, Others, StreamRecords

\* Opening a stream sets its start, unless it is refused.
LEMMA OpenMoves ==
    ASSUME stream \in [Streams -> StreamRecords], NEW s \in Streams, Open(s)
    PROVE  stream[s].pc = "idle" /\ stream'[s].pc \in {"user", "done"} /\ Others(s)
<1>1. CASE Return(s)
  BY <1>1, ReturnMoves, Zenon DEF Open, Returned
<1>2. CASE ~Return(s)
  <2>1. stream' = [stream EXCEPT ![s].pc = "user", ![s].start = clock'] /\ stream[s].pc = "idle"
    BY <1>2, Zenon DEF Open
  <2> QED
    BY <2>1 DEF Others, StreamRecords
<1> QED
  BY <1>1, <1>2

\* Before the lock the handler goes on, or gives the count back and returns.
LEMMA LookUpMoves ==
    ASSUME stream \in [Streams -> StreamRecords], NEW s \in Streams, LookUpUser(s) \/ LookUpAccount(s)
    PROVE  /\ stream[s].pc \in {"user", "account"}
           /\ UNCHANGED <<kind, id, status, chan, closed, refresh>>
           /\ \/ (MovesTo(s, "account") \/ MovesTo(s, "lock")) /\ UNCHANGED syncSem
              \/ Returned(s) /\ ReleaseSem
<1>1. /\ stream[s].pc \in {"user", "account"}
      /\ UNCHANGED <<kind, id, status, chan, closed, refresh>>
      /\ \/ (Pc(s, "account") \/ Pc(s, "lock")) /\ UNCHANGED syncSem
         \/ Return(s) /\ ReleaseSem
  BY ZenonT(30) DEF LookUpUser, LookUpAccount, peerVars, channelVars
<1> QED
  BY <1>1, PcMoves, ReturnMoves, ZenonT(30)

\* SyncPeer goes on with the ID of the peer it has read, or gives the count back
\* and returns.
LEMMA SyncPeerMoves ==
    ASSUME stream \in [Streams -> StreamRecords], NEW s \in Streams, SyncPeer(s)
    PROVE  /\ stream[s].pc = "sync"
           /\ \/ Returned(s) /\ ReleaseSem
              \/ /\ Registered /\ UNCHANGED syncSem
                 /\ stream'[s].pc = "mark" /\ stream'[s].id = id
                 /\ stream'[s].start = stream[s].start
                 /\ kind = "sync" => stream'[s].time = stream[s].start
                 /\ Others(s)
<1>1. CASE Return(s) /\ ReleaseSem
  BY <1>1, ReturnMoves, Zenon DEF SyncPeer
<1>2. CASE ~(Return(s) /\ ReleaseSem)
  <2>1. /\ stream[s].pc = "sync" /\ Registered /\ UNCHANGED syncSem
        /\ stream' = [stream EXCEPT ![s].pc = "mark", ![s].id = id, ![s].map = serial,
                           ![s].time = IF kind = "machine" THEN clock' ELSE stream[s].start]
    BY <1>2, Zenon DEF SyncPeer
  <2> QED
    BY <2>1 DEF Others, StreamRecords
<1> QED
  BY <1>1, <1>2, ZenonT(30)

-----------------------------------------------------------------------------
(* Channels and refreshes.                                                 *)

\* Without the ID of a peer; before CreateChannel; with a channel; with a token
\* refresh.
EarlyPcs == {"idle", "done", "user", "account", "lock", "sync"}
BeforePcs == {"idle", "user", "account", "lock", "sync", "mark", "initial", "register", "channel"}
ChannelPcs == {"refresh", "loop", "cancelLock", "cancel", "cancelChannel"}
RefreshPcs == {"loop", "cancelLock"} \union CancelPcs

\* A handler that has not reached CreateChannel has no channel that could be
\* closed; from SyncPeer on it knows the ID of a peer.
Fresh ==
    \A s \in Streams :
        /\ stream[s].pc \in BeforePcs => ~closed[s]
        /\ stream[s].pc \notin EarlyPcs => stream[s].id \in Ids

\* The two halves of ResourcesOwned.
ChannelsOwned ==
    \A i \in Ids, s \in Streams :
        chan[i] = s => stream[s].id = i /\ ~closed[s] /\ stream[s].pc \in ChannelPcs
RefreshesOwned ==
    \A i \in Ids, s \in Streams : refresh[i] = s => stream[s].id = i /\ stream[s].pc \in RefreshPcs

OwnInv == Fresh /\ ChannelsOwned /\ RefreshesOwned

\* ResourcesOwned is part of the inductive invariant.
LEMMA OwnInvOwned == OwnInv => ResourcesOwned
BY DEF OwnInv, ChannelsOwned, RefreshesOwned, ResourcesOwned, ChannelPcs, RefreshPcs

\* The registry and the handlers, without the data.
Shape ==
    /\ stream \in [Streams -> StreamRecords]
    /\ chan \in [Ids -> Streams \union {None}]
    /\ refresh \in [Ids -> Streams \union {None}]
    /\ closed \in [Streams -> BOOLEAN]
    /\ id \in Ids \union {0}
    /\ deleting \in Ids \union {0}

\* What the registry needs is part of the types.
LEMMA TypeShape == TypeInv => Shape
BY DEF TypeInv, HandlerType, StoreType, Shape

\* A step of one handler keeps Fresh if it does not go back.
LEMMA KeepsFresh ==
    ASSUME Fresh, NEW s \in Streams, Others(s),
           \A r \in Streams : stream[r].pc \in BeforePcs => closed'[r] = closed[r],
           stream'[s].pc \in BeforePcs => stream[s].pc \in BeforePcs,
           stream'[s].pc \notin EarlyPcs => stream'[s].id \in Ids
    PROVE  Fresh'
BY DEF Fresh, Others

\* A step of a handler keeps the owners of the channels it leaves alone, if it
\* keeps its own.
LEMMA KeepsChannels ==
    ASSUME ChannelsOwned, NEW s \in Streams, Others(s),
           \A i \in Ids, r \in Streams : chan'[i] = r => chan[i] = r /\ closed'[r] = closed[r],
           \A i \in Ids : chan'[i] = s => stream'[s].id = stream[s].id /\ stream'[s].pc \in ChannelPcs
    PROVE  ChannelsOwned'
BY DEF ChannelsOwned, Others

\* The same of the refreshes.
LEMMA KeepsRefreshes ==
    ASSUME RefreshesOwned, NEW s \in Streams, Others(s),
           \A i \in Ids, r \in Streams : refresh'[i] = r => refresh[i] = r,
           \A i \in Ids : refresh'[i] = s => stream'[s].id = stream[s].id /\ stream'[s].pc \in RefreshPcs
    PROVE  RefreshesOwned'
BY DEF RefreshesOwned, Others

\* A handler without a channel or a refresh, or that keeps what it has, may go on.
LEMMA KeepsOwn ==
    ASSUME OwnInv, NEW s \in Streams, Others(s), UNCHANGED <<chan, closed, refresh>>,
           stream'[s].pc \in BeforePcs => stream[s].pc \in BeforePcs,
           stream'[s].pc \notin EarlyPcs => stream'[s].id \in Ids,
           stream[s].pc \in ChannelPcs =>
               stream'[s].id = stream[s].id /\ stream'[s].pc \in ChannelPcs,
           stream[s].pc \in RefreshPcs =>
               stream'[s].id = stream[s].id /\ stream'[s].pc \in RefreshPcs
    PROVE  OwnInv'
<1>1. Fresh'
  BY KeepsFresh, ZenonT(30) DEF OwnInv
<1>2. ChannelsOwned'
  BY KeepsChannels, ZenonT(30) DEF OwnInv, ChannelsOwned
<1>3. RefreshesOwned'
  BY KeepsRefreshes, ZenonT(30) DEF OwnInv, RefreshesOwned
<1> QED
  BY <1>1, <1>2, <1>3 DEF OwnInv

\* closeChannel takes a channel from nobody but the handlers of peer i.
LEMMA CloseOwned ==
    ASSUME Shape, OwnInv, NEW i \in Ids, CloseChannel(i)
    PROVE  /\ chan'[i] = None
           /\ \A j \in Ids, s \in Streams : chan'[j] = s => chan[j] = s /\ closed'[s] = closed[s]
           /\ \A s \in Streams : stream[s].pc \in BeforePcs => closed'[s] = closed[s]
<1> USE StreamsAssumption DEF None
<1>1. /\ chan'[i] = None
      /\ \A j \in Ids : j # i => chan'[j] = chan[j]
      /\ \A s \in Streams : chan[i] # s => closed'[s] = closed[s]
  BY ZenonT(30) DEF CloseChannel, Shape
<1>2. ASSUME NEW j \in Ids, NEW s \in Streams, chan'[j] = s
      PROVE  chan[j] = s /\ closed'[s] = closed[s]
  <2>1. 0 \notin Streams
    BY StreamsAssumption
  <2>2. j # i /\ chan[j] = s
    BY <1>1, <1>2, <2>1, Zenon DEF None
  <2>3. chan[i] # s
    BY <2>2, ZenonT(30) DEF OwnInv, ChannelsOwned
  <2> QED
    BY <1>1, <2>2, <2>3, Zenon
<1>3. ASSUME NEW s \in Streams, stream[s].pc \in BeforePcs
      PROVE  closed'[s] = closed[s]
  BY <1>1, <1>3 DEF OwnInv, ChannelsOwned, BeforePcs, ChannelPcs
<1> QED
  BY <1>1, <1>2, <1>3

\* No step of a client, of a handler, of the account or of a pass leaves a
\* channel or a refresh without a handler that gives it up.
LEMMA NextOwn == Shape /\ OwnInv /\ [Next]_vars => OwnInv'
<1> SUFFICES ASSUME Shape, OwnInv, [Next]_vars PROVE OwnInv'
  OBVIOUS
<1> USE StreamsAssumption DEF None
<1>0. /\ stream \in [Streams -> StreamRecords]
      /\ \A s \in Streams : stream[s].pc \notin EarlyPcs => stream[s].id \in Ids
  BY ZenonT(30) DEF Shape, OwnInv, Fresh
<1>1. ASSUME NEW s \in Streams, Open(s) PROVE OwnInv'
  <2>1. stream[s].pc = "idle" /\ stream'[s].pc \in {"user", "done"} /\ Others(s)
    BY <1>0, <1>1, OpenMoves, Zenon
  <2>2. UNCHANGED <<chan, closed, refresh>>
    BY <1>1 DEF Open, channelVars
  <2> QED
    BY <1>0, <2>1, <2>2, KeepsOwn DEF EarlyPcs, BeforePcs, ChannelPcs, RefreshPcs, CancelPcs
<1>2. ASSUME NEW s \in Streams, Leave(s) PROVE OwnInv'
  <2>1. stream' = stream /\ UNCHANGED <<chan, closed, refresh>>
    BY <1>2, ZenonT(30) DEF Leave, channelVars
  <2> QED
    BY <2>1, Zenon DEF OwnInv, Fresh, ChannelsOwned, RefreshesOwned
<1>3. ASSUME NEW s \in Streams, AcquirePeerLock(s) PROVE OwnInv'
  <2>1. \/ stream[s].pc = "lock" /\ MovesTo(s, "sync")
        \/ stream[s].pc = "cancelLock" /\ MovesTo(s, "cancel")
    BY <1>0, <1>3, PcMoves, ZenonT(30) DEF AcquirePeerLock
  <2>2. UNCHANGED <<chan, closed, refresh>>
    BY <1>3, Zenon DEF AcquirePeerLock, channelVars
  <2> QED
    BY <1>0, <2>1, <2>2, KeepsOwn, ZenonT(30) DEF MovesTo, EarlyPcs, BeforePcs, ChannelPcs, RefreshPcs, CancelPcs
<1>4. ASSUME NEW s \in Streams, SyncPeer(s) PROVE OwnInv'
  <2>1. /\ stream[s].pc = "sync" /\ Others(s)
        /\ \/ stream'[s].pc = "done"
           \/ stream'[s].pc = "mark" /\ stream'[s].id \in Ids
    BY <1>0, <1>4, SyncPeerMoves, Zenon DEF Returned, Registered, Shape
  <2>2. UNCHANGED <<chan, closed, refresh>>
    BY <1>4, ZenonT(30) DEF SyncPeer, channelVars
  <2> QED
    BY <1>0, <2>1, <2>2, KeepsOwn, ZenonT(30) DEF EarlyPcs, BeforePcs, ChannelPcs, RefreshPcs, CancelPcs
<1>5. ASSUME NEW s \in Streams, MarkConnected(s) PROVE OwnInv'
  <2>1. stream[s].pc = "mark" /\ MovesTo(s, "initial")
    BY <1>0, <1>5, PcMoves DEF MarkConnected
  <2>2. UNCHANGED <<chan, closed, refresh>>
    BY <1>5, ZenonT(30) DEF MarkConnected, channelVars
  <2> QED
    BY <1>0, <2>1, <2>2, KeepsOwn, Zenon DEF MovesTo, EarlyPcs, BeforePcs, ChannelPcs, RefreshPcs, CancelPcs
<1>6. ASSUME NEW s \in Streams, SendInitialSync(s) PROVE OwnInv'
  <2>1. stream[s].pc = "initial" /\ MovesTo(s, "register")
    BY <1>0, <1>6, PcMoves DEF SendInitialSync
  <2>2. UNCHANGED <<chan, closed, refresh>>
    BY <1>6, ZenonT(30) DEF SendInitialSync, channelVars
  <2> QED
    BY <1>0, <2>1, <2>2, KeepsOwn, Zenon DEF MovesTo, EarlyPcs, BeforePcs, ChannelPcs, RefreshPcs, CancelPcs
<1>7. ASSUME NEW s \in Streams, SendInitialSyncFails(s) PROVE OwnInv'
  <2>1. stream[s].pc = "initial" /\ (MovesTo(s, "cancel") \/ Returned(s))
    BY <1>0, <1>7, PcMoves, ReturnMoves, ZenonT(30) DEF SendInitialSyncFails
  <2>2. UNCHANGED <<chan, closed, refresh>>
    BY <1>7, ZenonT(30) DEF SendInitialSyncFails, channelVars
  <2> QED
    BY <1>0, <2>1, <2>2, KeepsOwn, ZenonT(30) DEF MovesTo, Returned, EarlyPcs, BeforePcs, ChannelPcs, RefreshPcs, CancelPcs
<1>8. ASSUME NEW s \in Streams, OnPeerConnected(s) PROVE OwnInv'
  <2>1. stream[s].pc = "register" /\ (MovesTo(s, "channel") \/ MovesTo(s, "cancel") \/ MovesTo(s, "cancelLock"))
    BY <1>0, <1>8, PcMoves, ZenonT(30) DEF OnPeerConnected
  <2>2. UNCHANGED <<chan, closed, refresh>>
    BY <1>8, Zenon DEF OnPeerConnected
  <2> QED
    BY <1>0, <2>1, <2>2, KeepsOwn, ZenonT(30) DEF MovesTo, EarlyPcs, BeforePcs, ChannelPcs, RefreshPcs, CancelPcs
<1>8a. ASSUME NEW s \in Streams, LookUpUser(s) \/ LookUpAccount(s) PROVE OwnInv'
  <2>1. /\ stream[s].pc \in {"user", "account"} /\ Others(s)
        /\ stream'[s].pc \in {"account", "lock", "done"}
        /\ UNCHANGED <<chan, closed, refresh>>
    BY <1>0, <1>8a, LookUpMoves, ZenonT(30) DEF MovesTo, Returned
  <2> QED
    BY <1>0, <2>1, KeepsOwn, ZenonT(30) DEF EarlyPcs, BeforePcs, ChannelPcs, RefreshPcs, CancelPcs
<1>8b. ASSUME NEW s \in Streams, RegisterChannel(s) PROVE OwnInv'
  <2> DEFINE i0 == stream[s].id
  <2>1. stream[s].pc = "channel" /\ MovesTo(s, "refresh") /\ refresh' = refresh /\ CreateChannel(s, i0)
    BY <1>0, <1>8b, PcMoves, ZenonT(30) DEF RegisterChannel
  <2>2. i0 \in Ids /\ ~closed[s]
    BY <1>0, <2>1, ZenonT(30) DEF OwnInv, Fresh, EarlyPcs, BeforePcs
  <2>3. \A r \in Streams : chan[i0] = r => stream[r].pc \in ChannelPcs
    BY <2>2, Zenon DEF OwnInv, ChannelsOwned
  <2>4. /\ chan'[i0] = s
        /\ \A j \in Ids : j # i0 => chan'[j] = chan[j]
        /\ \A r \in Streams : chan[i0] # r => closed'[r] = closed[r]
    BY <2>1, <2>2, Zenon DEF CreateChannel, Shape
  <2>5. Fresh'
    <3>1. \A r \in Streams : stream[r].pc \in BeforePcs => closed'[r] = closed[r]
      BY <2>3, <2>4, Zenon DEF EarlyPcs, BeforePcs, ChannelPcs
    <3> QED
      BY <1>0, <2>1, <3>1, KeepsFresh, Zenon DEF OwnInv, MovesTo, EarlyPcs, BeforePcs
  <2>6. ChannelsOwned'
    <3>1. ASSUME NEW i \in Ids, NEW r \in Streams, chan'[i] = r, i # i0
          PROVE  stream'[r].id = i /\ ~closed'[r] /\ stream'[r].pc \in ChannelPcs
      <4>1. stream[r].id = i /\ ~closed[r] /\ stream[r].pc \in ChannelPcs
        BY <2>4, <3>1, Zenon DEF OwnInv, ChannelsOwned
      <4>2. r # s /\ stream'[r] = stream[r]
        BY <2>1, <4>1, ZenonT(30) DEF MovesTo, Others, ChannelPcs
      <4>3. chan[i0] # r
        BY <2>2, <3>1, <4>1, Zenon DEF OwnInv, ChannelsOwned
      <4> QED
        BY <2>4, <4>1, <4>2, <4>3
    <3>2. stream'[s].id = i0 /\ ~closed'[s] /\ stream'[s].pc \in ChannelPcs
      BY <2>1, <2>2, <2>3, <2>4, Zenon DEF MovesTo, ChannelPcs
    <3>3. ASSUME NEW i \in Ids, NEW r \in Streams, chan'[i] = r
          PROVE  stream'[r].id = i /\ ~closed'[r] /\ stream'[r].pc \in ChannelPcs
      <4>1. CASE i = i0
        BY <2>4, <3>2, <3>3, <4>1
      <4>2. CASE i # i0
        BY <3>1, <3>3, <4>2, ZenonT(30)
      <4> QED
        BY <4>1, <4>2, ZenonT(30)
    <3> QED
      BY <3>3, ZenonT(30) DEF ChannelsOwned
  <2>7. RefreshesOwned'
    BY <2>1, KeepsRefreshes, ZenonT(30) DEF OwnInv, RefreshesOwned, MovesTo, RefreshPcs, CancelPcs
  <2> QED
    BY <2>5, <2>6, <2>7, ZenonT(30) DEF OwnInv
<1>9. ASSUME NEW s \in Streams, EnterLoop(s) PROVE OwnInv'
  <2>1. stream[s].pc = "refresh" /\ MovesTo(s, "loop") /\ UNCHANGED <<chan, closed>>
    BY <1>0, <1>9, PcMoves DEF EnterLoop
  <2>2. /\ stream[s].id \in Ids
        /\ refresh'[stream[s].id] = s
        /\ \A j \in Ids : j # stream[s].id => refresh'[j] = refresh[j]
    BY <1>0, <1>9, <2>1, Zenon DEF EnterLoop, Shape, EarlyPcs
  <2>3. Fresh'
    BY <1>0, <2>1, KeepsFresh, ZenonT(30) DEF OwnInv, MovesTo, EarlyPcs, BeforePcs
  <2>4. ChannelsOwned'
    BY <2>1, KeepsChannels, ZenonT(30) DEF OwnInv, MovesTo, ChannelPcs
  <2>5. RefreshesOwned'
    <3>1. ASSUME NEW i \in Ids, NEW r \in Streams, refresh'[i] = r, i # stream[s].id
          PROVE  stream'[r].id = i /\ stream'[r].pc \in RefreshPcs
      <4>1. stream[r].id = i /\ stream[r].pc \in RefreshPcs
        BY <2>2, <3>1, Zenon DEF OwnInv, RefreshesOwned
      <4> QED
        BY <2>1, <3>1, <4>1, Zenon DEF MovesTo, Others
    <3> QED
      BY <2>1, <2>2, <3>1 DEF RefreshesOwned, MovesTo, RefreshPcs
  <2> QED
    BY <2>3, <2>4, <2>5 DEF OwnInv
<1>10. ASSUME NEW s \in Streams, Update(s) PROVE OwnInv'
  <2>1. stream[s].pc = "loop" /\ MovesTo(s, "loop")
    BY <1>0, <1>10, LoopMoves, Zenon DEF Update
  <2>2. UNCHANGED <<chan, closed, refresh>>
    BY <1>10 DEF Update, channelVars
  <2> QED
    BY <1>0, <2>1, <2>2, KeepsOwn DEF MovesTo, EarlyPcs, BeforePcs, ChannelPcs, RefreshPcs, CancelPcs
<1>11. ASSUME NEW s \in Streams, Debounced(s) PROVE OwnInv'
  <2>1. stream[s].pc = "loop" /\ MovesTo(s, "loop")
    BY <1>0, <1>11, LoopMoves, Zenon DEF Debounced
  <2>2. UNCHANGED <<chan, closed, refresh>>
    BY <1>11, ZenonT(30) DEF Debounced, channelVars
  <2> QED
    BY <1>0, <2>1, <2>2, KeepsOwn DEF MovesTo, EarlyPcs, BeforePcs, ChannelPcs, RefreshPcs, CancelPcs
<1>12. ASSUME NEW s \in Streams, LeaveLoop(s) PROVE OwnInv'
  <2>1. stream[s].pc = "loop" /\ MovesTo(s, "cancelLock")
    BY <1>0, <1>12, LeaveLoopMoves, Zenon DEF LeaveLoop
  <2>2. UNCHANGED <<chan, closed, refresh>>
    BY <1>12, ZenonT(30) DEF LeaveLoop
  <2> QED
    BY <1>0, <2>1, <2>2, KeepsOwn DEF MovesTo, EarlyPcs, BeforePcs, ChannelPcs, RefreshPcs, CancelPcs
<1>13. ASSUME NEW s \in Streams, CancelStatus(s) PROVE OwnInv'
  <2>1. stream[s].pc = "cancel" /\ MovesTo(s, "cancelChannel")
    BY <1>0, <1>13, PcMoves, ZenonT(30) DEF CancelStatus
  <2>2. UNCHANGED <<chan, closed, refresh>>
    BY <1>13, ZenonT(30) DEF CancelStatus, channelVars
  <2> QED
    BY <1>0, <2>1, <2>2, KeepsOwn DEF MovesTo, EarlyPcs, BeforePcs, ChannelPcs, RefreshPcs, CancelPcs
<1>14. ASSUME NEW s \in Streams, CancelChannel(s) PROVE OwnInv'
  <2>1. /\ stream[s].pc = "cancelChannel" /\ MovesTo(s, "cancelRefresh") /\ refresh' = refresh
        /\ CloseChannel(stream[s].id)
    BY <1>0, <1>14, PcMoves DEF CancelChannel
  <2>2. stream[s].id \in Ids
    BY <1>0, <2>1, ZenonT(30) DEF EarlyPcs
  <2>3. Fresh'
    BY <2>1, <2>2, CloseOwned, KeepsFresh DEF OwnInv, MovesTo, EarlyPcs, BeforePcs
  <2>4. ChannelsOwned'
    <3>1. ASSUME NEW i \in Ids, chan'[i] = s PROVE FALSE
      <4>1. chan[i] = s /\ chan'[stream[s].id] = None
        BY <1>0, <2>1, <2>2, <3>1, CloseOwned, Zenon
      <4>2. stream[s].id = i
        BY <4>1, Zenon DEF OwnInv, ChannelsOwned
      <4>3. None \notin Streams
        BY StreamsAssumption DEF None
      <4> QED
        BY <3>1, <4>1, <4>2, <4>3
    <3> QED
      BY <2>1, <2>2, <3>1, CloseOwned, KeepsChannels, ZenonT(30) DEF OwnInv, MovesTo
  <2>5. RefreshesOwned'
    BY <2>1, KeepsRefreshes, Zenon DEF OwnInv, MovesTo, RefreshPcs, CancelPcs
  <2> QED
    BY <2>3, <2>4, <2>5 DEF OwnInv
<1>15. ASSUME NEW s \in Streams, CancelRefresh(s) PROVE OwnInv'
  <2>1. stream[s].pc = "cancelRefresh" /\ Returned(s) /\ UNCHANGED <<chan, closed>>
    BY <1>0, <1>15, ReturnMoves DEF CancelRefresh
  <2>2. /\ refresh'[stream[s].id] = None
        /\ \A j \in Ids : j # stream[s].id => refresh'[j] = refresh[j]
    BY <1>0, <1>15, <2>1, ZenonT(30) DEF CancelRefresh, Shape, EarlyPcs
  <2>3. Fresh'
    BY <2>1, KeepsFresh, ZenonT(30) DEF OwnInv, Returned, EarlyPcs, BeforePcs
  <2>4. ChannelsOwned'
    <3>1. \A i \in Ids : chan[i] # s
      BY <2>1, Zenon DEF OwnInv, ChannelsOwned, ChannelPcs
    <3> QED
      BY <2>1, <3>1, KeepsChannels, ZenonT(30) DEF OwnInv, Returned
  <2>5. RefreshesOwned'
    <3>1. ASSUME NEW i \in Ids, refresh'[i] = s PROVE FALSE
      <4>1. None \notin Streams
        BY StreamsAssumption DEF None
      <4>2. i # stream[s].id /\ refresh[i] = s
        BY <2>2, <3>1, <4>1, Zenon
      <4> QED
        BY <4>2, Zenon DEF OwnInv, RefreshesOwned
    <3> QED
      BY <2>1, <2>2, <3>1, KeepsRefreshes, ZenonT(30) DEF OwnInv, Returned
  <2> QED
    BY <2>3, <2>4, <2>5 DEF OwnInv
<1>16. CASE OnPeersDeleted
  <2>1. stream' = stream /\ refresh' = refresh /\ deleting \in Ids /\ CloseChannel(deleting)
    BY <1>16 DEF OnPeersDeleted, handlerVars, Shape
  <2>2. /\ \A j \in Ids, s \in Streams : chan'[j] = s => chan[j] = s /\ closed'[s] = closed[s]
        /\ \A s \in Streams : stream[s].pc \in BeforePcs => closed'[s] = closed[s]
    BY <2>1, CloseOwned, Zenon
  <2>3. Fresh'
    BY <2>1, <2>2, Zenon DEF OwnInv, Fresh
  <2>4. ChannelsOwned'
    <3>1. ASSUME NEW i \in Ids, NEW s \in Streams, chan'[i] = s
          PROVE  stream'[s].id = i /\ ~closed'[s] /\ stream'[s].pc \in ChannelPcs
      <4>1. chan[i] = s /\ closed'[s] = closed[s] /\ stream'[s] = stream[s]
        BY <2>1, <2>2, <3>1
      <4>2. stream[s].id = i /\ ~closed[s] /\ stream[s].pc \in ChannelPcs
        BY <4>1, Zenon DEF OwnInv, ChannelsOwned
      <4> QED
        BY <4>1, <4>2, Zenon
    <3> QED
      BY <3>1, Zenon DEF ChannelsOwned
  <2>5. RefreshesOwned'
    BY <2>1 DEF OwnInv, RefreshesOwned
  <2> QED
    BY <2>3, <2>4, <2>5 DEF OwnInv
<1>17. CASE Updates \/ UNCHANGED vars \/ (Account /\ ~OnPeersDeleted)
             \/ \E p \in Passes : PassReads(p) \/ PassSends(p) \/ PassFails(p)
  <2>1. stream' = stream /\ UNCHANGED <<chan, closed, refresh>>
    BY <1>17, Zenon DEF Updates, Account, AccountChange, RegisterPeer, DeletePeer, EphemeralCleanup, DeletePeers,
         ReportMachineStatus, PushTokens, PassReads, PassSends, PassFails, handlerVars, channelVars, vars
  <2> QED
    BY <2>1, ZenonT(30) DEF OwnInv, Fresh, ChannelsOwned, RefreshesOwned
<1> QED
  BY <1>1, <1>2, <1>3, <1>4, <1>5, <1>6, <1>7, <1>8, <1>8a, <1>8b, <1>9, <1>10,
     <1>11, <1>12, <1>13, <1>14, <1>15, <1>16, <1>17, ZenonT(30) DEF Next, StreamNext, Handler

-----------------------------------------------------------------------------
(* The peer's status.                                                      *)

\* From MarkPeerConnected to the disconnect of cancelPeerRoutines.
MarkedPcs == {"initial", "register", "channel", "refresh", "loop", "cancelLock", "cancel"}

\* Sync marks the peer with the start of its stream.  A connected status is the
\* mark of a handler that has not yet come to its disconnect, unless a disconnect
\* could not be written; that handler will not find the peer seen after its start.
StatusInv ==
    kind = "sync" =>
        /\ \A s \in Streams : stream[s].pc = "mark" => stream[s].time = stream[s].start
        /\ Registered /\ status.connected /\ ~status.missed =>
              \E s \in Streams : stream[s].pc \in MarkedPcs /\ stream[s].start = status.lastSeen

\* With no handler left the status is not connected.
LEMMA StatusInvClears == StatusInv => SyncStatusClears
BY DEF StatusInv, SyncStatusClears, MarkedPcs, Quiet, Running

\* A handler that keeps its mark may go on.
LEMMA KeepsMark ==
    ASSUME StatusInv, NEW s \in Streams, Others(s), UNCHANGED <<kind, id, status>>,
           kind = "sync" /\ stream[s].pc \in MarkedPcs =>
               stream'[s].pc \in MarkedPcs /\ stream'[s].start = stream[s].start,
           kind = "sync" /\ stream'[s].pc = "mark" => stream'[s].time = stream'[s].start
    PROVE  StatusInv'
<1> SUFFICES ASSUME kind = "sync" PROVE StatusInv'
  BY ZenonT(30) DEF StatusInv
<1>1. \A r \in Streams : stream'[r].pc = "mark" => stream'[r].time = stream'[r].start
  BY DEF StatusInv, Others
<1>2. ASSUME Registered', status'.connected, ~status'.missed
      PROVE  \E r \in Streams : stream'[r].pc \in MarkedPcs /\ stream'[r].start = status'.lastSeen
  <2>1. PICK r \in Streams : stream[r].pc \in MarkedPcs /\ stream[r].start = status.lastSeen
    BY <1>2 DEF StatusInv, Registered
  <2>2. stream'[r].pc \in MarkedPcs /\ stream'[r].start = status'.lastSeen
    BY <2>1, ZenonT(30) DEF Others
  <2> QED
    BY <2>2
<1> QED
  BY <1>1, <1>2, ZenonT(30) DEF StatusInv

\* A handler that marks the peer, or finds it marked later, leaves it marked by
\* a handler; one that cancels unmarks it unless another has marked it.
LEMMA NextStatus ==
    Shape /\ StatusInv /\ status \in [connected : BOOLEAN, lastSeen : Nat, missed : BOOLEAN] /\ [Next]_vars => StatusInv'
<1> SUFFICES ASSUME Shape, StatusInv, status \in [connected : BOOLEAN, lastSeen : Nat, missed : BOOLEAN], [Next]_vars
             PROVE  StatusInv'
  OBVIOUS
<1>0. stream \in [Streams -> StreamRecords]
  BY DEF Shape
<1>1. ASSUME NEW s \in Streams, Open(s) PROVE StatusInv'
  <2>1. stream[s].pc = "idle" /\ stream'[s].pc \in {"user", "done"} /\ Others(s)
    BY <1>0, <1>1, OpenMoves, Zenon
  <2>2. UNCHANGED <<kind, id, status>>
    BY <1>1, ZenonT(30) DEF Open, peerVars
  <2> QED
    BY <2>1, <2>2, KeepsMark DEF MarkedPcs
<1>2. ASSUME NEW s \in Streams, Leave(s) PROVE StatusInv'
  <2>1. stream' = stream /\ UNCHANGED <<kind, id, status>>
    BY <1>2, ZenonT(30) DEF Leave, peerVars
  <2> QED
    BY <2>1 DEF StatusInv, Registered
<1>3. ASSUME NEW s \in Streams, AcquirePeerLock(s) PROVE StatusInv'
  <2>1. \/ stream[s].pc = "lock" /\ MovesTo(s, "sync")
        \/ stream[s].pc = "cancelLock" /\ MovesTo(s, "cancel")
    BY <1>0, <1>3, PcMoves DEF AcquirePeerLock
  <2>2. UNCHANGED <<kind, id, status>>
    BY <1>3, Zenon DEF AcquirePeerLock, peerVars
  <2> QED
    BY <2>1, <2>2, KeepsMark DEF MovesTo, MarkedPcs
<1>4. ASSUME NEW s \in Streams, SyncPeer(s) PROVE StatusInv'
  <2>1. /\ stream[s].pc = "sync" /\ Others(s)
        /\ kind = "sync" /\ stream'[s].pc = "mark" => stream'[s].time = stream'[s].start
    BY <1>0, <1>4, SyncPeerMoves DEF Returned
  <2>2. UNCHANGED <<kind, id, status>>
    BY <1>4 DEF SyncPeer, peerVars
  <2> QED
    BY <2>1, <2>2, KeepsMark, ZenonT(30) DEF MarkedPcs
<1>5. ASSUME NEW s \in Streams, MarkConnected(s) PROVE StatusInv'
  <2>1. stream[s].pc = "mark" /\ MovesTo(s, "initial") /\ UNCHANGED <<kind, id>>
    BY <1>0, <1>5, PcMoves, ZenonT(30) DEF MarkConnected
  <2>2. CASE status' = status
    BY <2>1, <2>2, KeepsMark DEF MovesTo, MarkedPcs
  <2>3. CASE status' # status
    <3> SUFFICES ASSUME kind = "sync" PROVE StatusInv'
      BY <2>1 DEF StatusInv
    <3>1. status'.lastSeen = stream[s].start
      <4>1. MarkPeerConnected(TRUE, stream[s].time) /\ stream[s].time = stream[s].start
        BY <1>5, <2>1, <2>3, ZenonT(30) DEF MarkConnected, StatusInv
      <4> QED
        BY <2>3, <4>1, ZenonT(30) DEF MarkPeerConnected
    <3>2. stream'[s].pc \in MarkedPcs /\ stream'[s].start = status'.lastSeen
      BY <2>1, <3>1, ZenonT(30) DEF MovesTo, MarkedPcs
    <3>3. \A r \in Streams : stream'[r].pc = "mark" => stream'[r].time = stream'[r].start
      BY <2>1 DEF StatusInv, MovesTo, Others
    <3> QED
      BY <3>2, <3>3, ZenonT(30) DEF StatusInv
  <2> QED
    BY <2>2, <2>3
<1>6. ASSUME NEW s \in Streams, SendInitialSync(s) PROVE StatusInv'
  <2>1. stream[s].pc = "initial" /\ MovesTo(s, "register")
    BY <1>0, <1>6, PcMoves DEF SendInitialSync
  <2>2. UNCHANGED <<kind, id, status>>
    BY <1>6, ZenonT(30) DEF SendInitialSync, peerVars
  <2> QED
    BY <2>1, <2>2, KeepsMark, Zenon DEF MovesTo, MarkedPcs
<1>7. ASSUME NEW s \in Streams, SendInitialSyncFails(s) PROVE StatusInv'
  <2>1. /\ stream[s].pc = "initial" /\ (MovesTo(s, "cancel") \/ Returned(s))
        /\ kind = "sync" => MovesTo(s, "cancel")
    BY <1>0, <1>7, PcMoves, ReturnMoves, ZenonT(30) DEF SendInitialSyncFails
  <2>2. UNCHANGED <<kind, id, status>>
    BY <1>7, ZenonT(30) DEF SendInitialSyncFails, peerVars
  <2> QED
    BY <2>1, <2>2, KeepsMark, ZenonT(30) DEF MovesTo, Returned, MarkedPcs
<1>8. ASSUME NEW s \in Streams, OnPeerConnected(s) PROVE StatusInv'
  <2>1. /\ stream[s].pc = "register"
        /\ MovesTo(s, "channel") \/ MovesTo(s, "cancel") \/ MovesTo(s, "cancelLock")
    BY <1>0, <1>8, PcMoves, ZenonT(30) DEF OnPeerConnected
  <2>2. UNCHANGED <<kind, id, status>>
    BY <1>8, ZenonT(30) DEF OnPeerConnected, peerVars
  <2> QED
    BY <2>1, <2>2, KeepsMark, ZenonT(30) DEF MovesTo, MarkedPcs
<1>8a. ASSUME NEW s \in Streams, LookUpUser(s) \/ LookUpAccount(s) PROVE StatusInv'
  <2>1. /\ stream[s].pc \in {"user", "account"} /\ Others(s)
        /\ stream'[s].pc \in {"account", "lock", "done"}
        /\ UNCHANGED <<kind, id, status>>
    BY <1>0, <1>8a, LookUpMoves, ZenonT(30) DEF MovesTo, Returned
  <2> QED
    BY <2>1, KeepsMark DEF MarkedPcs
<1>8b. ASSUME NEW s \in Streams, RegisterChannel(s) PROVE StatusInv'
  <2>1. stream[s].pc = "channel" /\ MovesTo(s, "refresh")
    BY <1>0, <1>8b, PcMoves, ZenonT(30) DEF RegisterChannel
  <2>2. UNCHANGED <<kind, id, status>>
    BY <1>8b, ZenonT(30) DEF RegisterChannel, peerVars
  <2> QED
    BY <2>1, <2>2, KeepsMark DEF MovesTo, MarkedPcs
<1>9. ASSUME NEW s \in Streams, EnterLoop(s) PROVE StatusInv'
  <2>1. stream[s].pc = "refresh" /\ MovesTo(s, "loop")
    BY <1>0, <1>9, PcMoves DEF EnterLoop
  <2>2. UNCHANGED <<kind, id, status>>
    BY <1>9, ZenonT(30) DEF EnterLoop, peerVars
  <2> QED
    BY <2>1, <2>2, KeepsMark, ZenonT(30) DEF MovesTo, MarkedPcs
<1>10. ASSUME NEW s \in Streams, Update(s) PROVE StatusInv'
  <2>1. stream[s].pc = "loop" /\ MovesTo(s, "loop")
    BY <1>0, <1>10, LoopMoves, Zenon DEF Update
  <2>2. UNCHANGED <<kind, id, status>>
    BY <1>10 DEF Update, peerVars
  <2> QED
    BY <2>1, <2>2, KeepsMark DEF MovesTo, MarkedPcs
<1>11. ASSUME NEW s \in Streams, Debounced(s) PROVE StatusInv'
  <2>1. stream[s].pc = "loop" /\ MovesTo(s, "loop")
    BY <1>0, <1>11, LoopMoves, Zenon DEF Debounced
  <2>2. UNCHANGED <<kind, id, status>>
    BY <1>11, ZenonT(30) DEF Debounced, peerVars
  <2> QED
    BY <2>1, <2>2, KeepsMark DEF MovesTo, MarkedPcs
<1>12. ASSUME NEW s \in Streams, LeaveLoop(s) PROVE StatusInv'
  <2>1. stream[s].pc = "loop" /\ MovesTo(s, "cancelLock")
    BY <1>0, <1>12, LeaveLoopMoves, Zenon DEF LeaveLoop
  <2>2. UNCHANGED <<kind, id, status>>
    BY <1>12 DEF LeaveLoop, peerVars
  <2> QED
    BY <2>1, <2>2, KeepsMark DEF MovesTo, MarkedPcs
<1>13. ASSUME NEW s \in Streams, CancelStatus(s) PROVE StatusInv'
  <2>1. stream[s].pc = "cancel" /\ MovesTo(s, "cancelChannel") /\ UNCHANGED <<kind, id>>
    BY <1>0, <1>13, PcMoves, ZenonT(30) DEF CancelStatus
  <2> SUFFICES ASSUME kind = "sync" PROVE StatusInv'
    BY <2>1, ZenonT(30) DEF StatusInv
  <2>2. \A r \in Streams : stream'[r].pc = "mark" => stream'[r].time = stream'[r].start
    BY <2>1 DEF StatusInv, MovesTo, Others
  <2>3. CASE status.lastSeen > stream[s].start /\ status' = status
    <3>1. status' = status
      BY <2>3
    <3>2. ASSUME Registered', status'.connected, ~status'.missed
          PROVE  \E r \in Streams : stream'[r].pc \in MarkedPcs /\ stream'[r].start = status'.lastSeen
      <4>1. PICK r \in Streams : stream[r].pc \in MarkedPcs /\ stream[r].start = status.lastSeen
        BY <2>1, <3>1, <3>2 DEF StatusInv, Registered
      <4>2. r # s
        BY <1>0, <2>3, <4>1 DEF StreamRecords
      <4>3. stream'[r].pc \in MarkedPcs /\ stream'[r].start = status'.lastSeen
        BY <2>1, <3>1, <4>1, <4>2, ZenonT(30) DEF MovesTo, Others
      <4> QED
        BY <4>3, ZenonT(30)
    <3> QED
      BY <2>2, <3>2, ZenonT(30) DEF StatusInv
  <2>4. CASE MarkPeerConnected(FALSE, clock')
    <3>1. Registered' => status'.connected = FALSE
      BY <2>1, <2>4, ZenonT(30) DEF MarkPeerConnected, Registered
    <3> QED
      BY <2>2, <3>1, ZenonT(30) DEF StatusInv
  <2>5. CASE status' = [status EXCEPT !.missed = TRUE]
    <3>1. status'.missed
      BY <2>5
    <3> QED
      BY <2>2, <3>1 DEF StatusInv
  <2>6. \/ status.lastSeen > stream[s].start /\ status' = status
        \/ MarkPeerConnected(FALSE, clock')
        \/ status' = [status EXCEPT !.missed = TRUE]
    BY <1>13, Zenon DEF CancelStatus
  <2> QED
    BY <2>3, <2>4, <2>5, <2>6, ZenonT(30)
<1>14. ASSUME NEW s \in Streams, CancelChannel(s) PROVE StatusInv'
  <2>1. stream[s].pc = "cancelChannel" /\ MovesTo(s, "cancelRefresh")
    BY <1>0, <1>14, PcMoves, ZenonT(30) DEF CancelChannel
  <2>2. UNCHANGED <<kind, id, status>>
    BY <1>14, ZenonT(30) DEF CancelChannel, peerVars
  <2> QED
    BY <2>1, <2>2, KeepsMark DEF MovesTo, MarkedPcs
<1>15. ASSUME NEW s \in Streams, CancelRefresh(s) PROVE StatusInv'
  <2>1. stream[s].pc = "cancelRefresh" /\ Returned(s)
    BY <1>0, <1>15, ReturnMoves, ZenonT(30) DEF CancelRefresh
  <2>2. UNCHANGED <<kind, id, status>>
    BY <1>15 DEF CancelRefresh, peerVars
  <2> QED
    BY <2>1, <2>2, KeepsMark DEF Returned, MarkedPcs
<1>16. CASE Account
  <2>1. CASE ReportMachineStatus(TRUE) \/ ReportMachineStatus(FALSE)
    BY <2>1, Zenon DEF ReportMachineStatus, StatusInv
  <2>2. CASE RegisterPeer
    BY <2>2, ZenonT(30) DEF RegisterPeer, handlerVars, StatusInv
  <2>3. CASE DeletePeer
    BY <2>3 DEF DeletePeer, handlerVars, StatusInv, Registered
  <2>4. CASE DeletePeers
    <3>1. stream' = stream /\ UNCHANGED <<kind, status>> /\ (id' = id \/ id' = 0)
      BY <2>4 DEF DeletePeers, handlerVars
    <3> QED
      BY <3>1 DEF StatusInv, Registered
  <2>5. CASE OnPeersDeleted \/ EphemeralCleanup
    <3>1. stream' = stream /\ UNCHANGED <<kind, id, status>>
      BY <2>5 DEF OnPeersDeleted, EphemeralCleanup, handlerVars, peerVars
    <3> QED
      BY <3>1, ZenonT(30) DEF StatusInv, Registered
  <2> QED
    BY <1>16, <2>1, <2>2, <2>3, <2>4, <2>5, Zenon DEF Account
<1>17. CASE Updates \/ UNCHANGED vars
             \/ \E p \in Passes : PassReads(p) \/ PassSends(p) \/ PassFails(p)
  <2>1. stream' = stream /\ UNCHANGED <<kind, id, status>>
    BY <1>17, Zenon DEF Updates, AccountChange, PushTokens, PassReads, PassSends, PassFails, handlerVars, peerVars, vars
  <2> QED
    BY <2>1 DEF StatusInv, Registered
<1> QED
  BY <1>1, <1>2, <1>3, <1>4, <1>5, <1>6, <1>7, <1>8, <1>8a, <1>8b, <1>9, <1>10,
     <1>11, <1>12, <1>13, <1>14, <1>15, <1>16, <1>17, ZenonT(30) DEF Next, StreamNext, Handler

-----------------------------------------------------------------------------
(* syncSem.                                                                *)

\* The handlers before their update loop.
Busy == {s \in Streams : stream[s].pc \in InitPcs}

\* SyncMachinePeer leaves the counter alone.
SemInv == syncSem = IF kind = "sync" THEN Cardinality(Busy) ELSE 0

\* SemBalanced is part of it.
LEMMA SemInvBalanced == SemInv => SemBalanced
BY DEF SemInv, SemBalanced, Busy

\* There are finitely many handlers.
LEMMA BusyFinite == IsFiniteSet(Busy)
BY StreamsAssumption, FS_Subset DEF Busy

\* A handler that stays before or after its loop's beginning leaves the count.
LEMMA KeepsBusy ==
    ASSUME SemInv, NEW s \in Streams, Others(s), UNCHANGED <<kind, syncSem>>,
           stream'[s].pc \in InitPcs <=> stream[s].pc \in InitPcs
    PROVE  SemInv'
<1>1. Busy' = Busy
  BY ZenonT(30) DEF Busy, Others
<1> QED
  BY <1>1, ZenonT(30) DEF SemInv

\* A handler that enters its loop or returns before it gives the count back.
LEMMA ReleasesBusy ==
    ASSUME SemInv, NEW s \in Streams, Others(s), kind' = kind, ReleaseSem,
           stream[s].pc \in InitPcs, stream'[s].pc \notin InitPcs
    PROVE  SemInv'
<1>1. Busy' = Busy \ {s} /\ s \in Busy
  BY DEF Busy, Others
<1>2. Cardinality(Busy \ {s}) = Cardinality(Busy) - 1
  BY <1>1, BusyFinite, FS_RemoveElement, ZenonT(30)
<1> QED
  BY <1>1, <1>2, ZenonT(30) DEF SemInv, ReleaseSem

\* Every step keeps the count.
LEMMA NextSem == Shape /\ SemInv /\ [Next]_vars => SemInv'
<1> SUFFICES ASSUME Shape, SemInv, [Next]_vars PROVE SemInv'
  OBVIOUS
<1>0. stream \in [Streams -> StreamRecords]
  BY DEF Shape
<1>1. ASSUME NEW s \in Streams, Open(s) PROVE SemInv'
  <2>1. stream[s].pc = "idle" /\ Others(s) /\ kind' = kind
    BY <1>0, <1>1, OpenMoves, ZenonT(30) DEF Open
  <2>2. CASE Return(s) /\ UNCHANGED syncSem
    <3>1. stream'[s].pc = "done"
      BY <1>0, <2>2, ReturnMoves, Zenon DEF Returned
    <3> QED
      BY <2>1, <2>2, <3>1, KeepsBusy, ZenonT(30) DEF InitPcs
  <2>3. CASE ~(Return(s) /\ UNCHANGED syncSem)
    <3>1. /\ stream' = [stream EXCEPT ![s].pc = "user", ![s].start = clock']
          /\ syncSem' = IF kind = "sync" THEN syncSem + 1 ELSE syncSem
      BY <1>1, <2>3, Zenon DEF Open
    <3>2. stream'[s].pc = "user"
      BY <1>0, <3>1, SMTT(30) DEF StreamRecords
    <3>3. Busy' = Busy \union {s} /\ s \notin Busy
      BY <2>1, <3>2 DEF Busy, Others, InitPcs
    <3>4. Cardinality(Busy \union {s}) = Cardinality(Busy) + 1
      BY <3>3, BusyFinite, FS_AddElement, ZenonT(30)
    <3> QED
      BY <2>1, <3>1, <3>3, <3>4, ZenonT(30) DEF SemInv
  <2> QED
    BY <2>2, <2>3
<1>2. ASSUME NEW s \in Streams, Leave(s) PROVE SemInv'
  BY <1>2, ZenonT(30) DEF Leave, peerVars, SemInv, Busy
<1>3. ASSUME NEW s \in Streams, AcquirePeerLock(s) PROVE SemInv'
  <2>1. \/ stream[s].pc = "lock" /\ MovesTo(s, "sync")
        \/ stream[s].pc = "cancelLock" /\ MovesTo(s, "cancel")
    BY <1>0, <1>3, PcMoves, ZenonT(30) DEF AcquirePeerLock
  <2>2. UNCHANGED <<kind, syncSem>>
    BY <1>3 DEF AcquirePeerLock, peerVars
  <2> QED
    BY <2>1, <2>2, KeepsBusy, ZenonT(30) DEF MovesTo, InitPcs
<1>4. ASSUME NEW s \in Streams, SyncPeer(s) PROVE SemInv'
  <2>1. stream[s].pc = "sync" /\ kind' = kind
    BY <1>4, Zenon DEF SyncPeer
  <2>2. CASE stream'[s].pc = "mark" /\ Others(s) /\ UNCHANGED syncSem
    BY <2>1, <2>2, KeepsBusy, ZenonT(30) DEF InitPcs
  <2>3. CASE Returned(s) /\ ReleaseSem
    BY <2>1, <2>3, ReleasesBusy, ZenonT(30) DEF Returned, InitPcs
  <2> QED
    BY <1>0, <1>4, <2>2, <2>3, SyncPeerMoves, ZenonT(30)
<1>5. ASSUME NEW s \in Streams, MarkConnected(s) PROVE SemInv'
  <2>1. stream[s].pc = "mark" /\ MovesTo(s, "initial")
    BY <1>0, <1>5, PcMoves, ZenonT(30) DEF MarkConnected
  <2>2. UNCHANGED <<kind, syncSem>>
    BY <1>5, ZenonT(30) DEF MarkConnected, peerVars
  <2> QED
    BY <2>1, <2>2, KeepsBusy DEF MovesTo, InitPcs
<1>6. ASSUME NEW s \in Streams, SendInitialSync(s) PROVE SemInv'
  <2>1. stream[s].pc = "initial" /\ MovesTo(s, "register")
    BY <1>0, <1>6, PcMoves DEF SendInitialSync
  <2>2. UNCHANGED <<kind, syncSem>>
    BY <1>6, Zenon DEF SendInitialSync, peerVars
  <2> QED
    BY <2>1, <2>2, KeepsBusy, ZenonT(30) DEF MovesTo, InitPcs
<1>7. ASSUME NEW s \in Streams, SendInitialSyncFails(s) PROVE SemInv'
  <2>1. stream[s].pc = "initial" /\ (MovesTo(s, "cancel") \/ Returned(s))
    BY <1>0, <1>7, PcMoves, ReturnMoves, ZenonT(30) DEF SendInitialSyncFails
  <2>2. kind' = kind /\ ReleaseSem
    BY <1>7, Zenon DEF SendInitialSyncFails, peerVars
  <2> QED
    BY <2>1, <2>2, ReleasesBusy, ZenonT(30) DEF MovesTo, Returned, InitPcs
<1>8. ASSUME NEW s \in Streams, OnPeerConnected(s) PROVE SemInv'
  <2>1. stream[s].pc = "register" /\ kind' = kind
    BY <1>8, Zenon DEF OnPeerConnected, peerVars
  <2>2. CASE Pc(s, "channel") /\ UNCHANGED syncSem
    <3>1. MovesTo(s, "channel")
      BY <1>0, <2>2, PcMoves, Zenon
    <3> QED
      BY <2>1, <2>2, <3>1, KeepsBusy, ZenonT(30) DEF MovesTo, InitPcs
  <2>3. CASE (Pc(s, "cancel") \/ Pc(s, "cancelLock")) /\ ReleaseSem
    <3>1. MovesTo(s, "cancel") \/ MovesTo(s, "cancelLock")
      BY <1>0, <2>3, PcMoves, Zenon
    <3> QED
      BY <2>1, <2>3, <3>1, ReleasesBusy, ZenonT(30) DEF MovesTo, InitPcs
  <2> QED
    BY <1>8, <2>2, <2>3, ZenonT(30) DEF OnPeerConnected
<1>8a. ASSUME NEW s \in Streams, LookUpUser(s) \/ LookUpAccount(s) PROVE SemInv'
  <2>1. stream[s].pc \in {"user", "account"} /\ kind' = kind
    BY <1>0, <1>8a, LookUpMoves, Zenon
  <2>2. CASE (MovesTo(s, "account") \/ MovesTo(s, "lock")) /\ UNCHANGED syncSem
    BY <2>1, <2>2, KeepsBusy, ZenonT(30) DEF MovesTo, InitPcs
  <2>3. CASE Returned(s) /\ ReleaseSem
    BY <2>1, <2>3, ReleasesBusy, ZenonT(30) DEF Returned, InitPcs
  <2> QED
    BY <1>0, <1>8a, <2>2, <2>3, LookUpMoves, ZenonT(30)
<1>8b. ASSUME NEW s \in Streams, RegisterChannel(s) PROVE SemInv'
  <2>1. stream[s].pc = "channel" /\ MovesTo(s, "refresh")
    BY <1>0, <1>8b, PcMoves, ZenonT(30) DEF RegisterChannel
  <2>2. UNCHANGED <<kind, syncSem>>
    BY <1>8b, ZenonT(30) DEF RegisterChannel, peerVars
  <2> QED
    BY <2>1, <2>2, KeepsBusy, ZenonT(30) DEF MovesTo, InitPcs
<1>9. ASSUME NEW s \in Streams, EnterLoop(s) PROVE SemInv'
  <2>1. stream[s].pc = "refresh" /\ MovesTo(s, "loop")
    BY <1>0, <1>9, PcMoves, ZenonT(30) DEF EnterLoop
  <2>2. kind' = kind /\ ReleaseSem
    BY <1>9, ZenonT(30) DEF EnterLoop, peerVars
  <2> QED
    BY <2>1, <2>2, ReleasesBusy DEF MovesTo, InitPcs
<1>10. ASSUME NEW s \in Streams, Update(s) PROVE SemInv'
  <2>1. stream[s].pc = "loop" /\ MovesTo(s, "loop")
    BY <1>0, <1>10, LoopMoves, Zenon DEF Update
  <2>2. UNCHANGED <<kind, syncSem>>
    BY <1>10 DEF Update, peerVars
  <2> QED
    BY <2>1, <2>2, KeepsBusy DEF MovesTo, InitPcs
<1>11. ASSUME NEW s \in Streams, Debounced(s) PROVE SemInv'
  <2>1. stream[s].pc = "loop" /\ MovesTo(s, "loop")
    BY <1>0, <1>11, LoopMoves, Zenon DEF Debounced
  <2>2. UNCHANGED <<kind, syncSem>>
    BY <1>11, ZenonT(30) DEF Debounced, peerVars
  <2> QED
    BY <2>1, <2>2, KeepsBusy DEF MovesTo, InitPcs
<1>12. ASSUME NEW s \in Streams, LeaveLoop(s) PROVE SemInv'
  <2>1. stream[s].pc = "loop" /\ MovesTo(s, "cancelLock")
    BY <1>0, <1>12, LeaveLoopMoves, Zenon DEF LeaveLoop
  <2>2. UNCHANGED <<kind, syncSem>>
    BY <1>12 DEF LeaveLoop, peerVars
  <2> QED
    BY <2>1, <2>2, KeepsBusy DEF MovesTo, InitPcs
<1>13. ASSUME NEW s \in Streams, CancelStatus(s) PROVE SemInv'
  <2>1. stream[s].pc = "cancel" /\ MovesTo(s, "cancelChannel")
    BY <1>0, <1>13, PcMoves, ZenonT(30) DEF CancelStatus
  <2>2. UNCHANGED <<kind, syncSem>>
    BY <1>13, ZenonT(30) DEF CancelStatus, peerVars
  <2> QED
    BY <2>1, <2>2, KeepsBusy DEF MovesTo, InitPcs
<1>14. ASSUME NEW s \in Streams, CancelChannel(s) PROVE SemInv'
  <2>1. stream[s].pc = "cancelChannel" /\ MovesTo(s, "cancelRefresh")
    BY <1>0, <1>14, PcMoves DEF CancelChannel
  <2>2. UNCHANGED <<kind, syncSem>>
    BY <1>14, Zenon DEF CancelChannel, peerVars
  <2> QED
    BY <2>1, <2>2, KeepsBusy DEF MovesTo, InitPcs
<1>15. ASSUME NEW s \in Streams, CancelRefresh(s) PROVE SemInv'
  <2>1. stream[s].pc = "cancelRefresh" /\ Returned(s)
    BY <1>0, <1>15, ReturnMoves, ZenonT(30) DEF CancelRefresh
  <2>2. UNCHANGED <<kind, syncSem>>
    BY <1>15, ZenonT(30) DEF CancelRefresh, peerVars
  <2> QED
    BY <2>1, <2>2, KeepsBusy DEF Returned, InitPcs
<1>16. CASE Account \/ Updates \/ UNCHANGED vars
             \/ \E p \in Passes : PassReads(p) \/ PassSends(p) \/ PassFails(p)
  <2>1. stream' = stream /\ UNCHANGED <<kind, syncSem>>
    BY <1>16, Zenon DEF Account, RegisterPeer, DeletePeer, OnPeersDeleted, EphemeralCleanup, DeletePeers, ReportMachineStatus,
         Updates, AccountChange, PushTokens, PassReads, PassSends, PassFails, handlerVars, peerVars, vars
  <2> QED
    BY <2>1 DEF SemInv, Busy
<1> QED
  BY <1>1, <1>2, <1>3, <1>4, <1>5, <1>6, <1>7, <1>8, <1>8a, <1>8b, <1>9, <1>10,
     <1>11, <1>12, <1>13, <1>14, <1>15, <1>16, ZenonT(30) DEF Next, StreamNext, Handler

-----------------------------------------------------------------------------
(* The theorems.                                                           *)

IInv == TypeInv /\ OwnInv /\ StatusInv /\ SemInv

\* The invariant holds at first.
LEMMA InitInv == Init => IInv
<1> SUFFICES ASSUME Init PROVE IInv
  OBVIOUS
<1>1. stream = [s \in Streams |-> NewStream] /\ NewStream.pc = "idle"
  BY ZenonT(30) DEF Init, NewStream
<1>2. \A s \in Streams : stream[s].pc = "idle"
  BY <1>1, ZenonT(30)
<1>3. OwnInv
  <2>1. 0 \notin Streams
    BY StreamsAssumption, ZenonT(30)
  <2>2. (\A i \in Ids : chan[i] = 0 /\ refresh[i] = 0) /\ \A s \in Streams : ~closed[s]
    BY DEF Init, None
  <2> QED
    BY <1>2, <2>1, <2>2 DEF OwnInv, Fresh, ChannelsOwned, RefreshesOwned, EarlyPcs
<1>4. StatusInv
  <2>1. ~status.connected
    BY DEF Init
  <2> QED
    BY <1>2, <2>1, ZenonT(30) DEF StatusInv
<1>5. SemInv
  <2>1. Busy = {}
    BY <1>2, ZenonT(30) DEF Busy, InitPcs
  <2>2. syncSem = 0
    BY DEF Init
  <2> QED
    BY <2>1, <2>2, FS_EmptySet DEF SemInv
<1> QED
  BY <1>3, <1>4, <1>5, InitType, ZenonT(30) DEF IInv

\* Every step keeps the invariant.
LEMMA NextInv == IInv /\ [Next]_vars => IInv'
<1> SUFFICES ASSUME IInv, [Next]_vars PROVE IInv'
  OBVIOUS
<1>1. Shape /\ status \in [connected : BOOLEAN, lastSeen : Nat, missed : BOOLEAN]
  BY TypeShape DEF IInv, TypeInv, StoreType
<1> QED
  BY <1>1, NextType, NextOwn, NextStatus, NextSem, ZenonT(30) DEF IInv

\* The invariant always holds.
LEMMA Inductive == Spec => []IInv
BY InitInv, NextInv, PTL DEF Spec

\* With the invariant syncSem, too, has its type.
LEMMA InvType == IInv => TypeOK
<1> SUFFICES ASSUME IInv PROVE TypeOK
  OBVIOUS
<1>1. Cardinality(Busy) \in Nat
  BY BusyFinite, FS_CardinalityType
<1>2. syncSem \in Nat
  BY <1>1 DEF IInv, SemInv
<1> QED
  BY <1>2, TypeInvType DEF IInv

\* The types of the server's data hold in every state, the capacity of the
\* channels (SendUpdate) and the range of the maps' serials among them.
THEOREM TypeCorrect == Spec => []TypeOK
BY InvType, Inductive, PTL

\* Whatever number of streams of the peer overlap, a channel in the registry and
\* a token refresh belong to a handler that has not yet cancelled its routines.
THEOREM Owned == Spec => []ResourcesOwned
<1>1. IInv => ResourcesOwned
  BY OwnInvOwned DEF IInv
<1> QED
  BY <1>1, Inductive, PTL

\* The last handler of a peer that uses Sync never leaves the store saying that
\* the peer is connected (MarkPeerConnected, OnPeerDisconnected).
THEOREM StatusClears == Spec => []SyncStatusClears
<1>1. IInv => SyncStatusClears
  BY StatusInvClears DEF IInv
<1> QED
  BY <1>1, Inductive, PTL

\* syncSem is the number of Sync handlers before their update loop.
THEOREM SemCounts == Spec => []SemBalanced
<1>1. IInv => SemBalanced
  BY SemInvBalanced DEF IInv
<1> QED
  BY <1>1, Inductive, PTL
=============================================================================
