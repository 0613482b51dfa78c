---------------------------- MODULE PeerStreams ----------------------------
(***************************************************************************)
(* The management server's side of a peer's update stream: the handlers    *)
(* Sync and SyncMachinePeer, the channel registry they share with the      *)
(* account updates, the debouncer, the peer's status in the store, the     *)
(* token refresh and the list of ephemeral peers.                          *)
(*                                                                         *)
(* One peer (one WireGuard key) is followed.  Its client opens one stream  *)
(* after another; the server may still be busy with the streams the client *)
(* has left.  Every other change of the account is AccountChange.  Times   *)
(* are values of a clock that moves when the code calls time.Now() for a   *)
(* value it keeps.                                                         *)
(***************************************************************************)
EXTENDS Naturals, Sequences, FiniteSets

CONSTANTS
    Streams,        \* 1..n, the peer's streams in the order they are opened
    Kinds,          \* the handlers the peer's client may use
    Ephemerals,     \* whether a peer that uses Sync may be ephemeral, may not
    Ids,            \* 1..n, the peer IDs handed out by registrations
    Passes,         \* passes of sendUpdateAccountPeers that can run at a time
    ChannelBuffer,  \* capacity of an update channel (channelBufferSize)
    MaxChanges,     \* bound: account changes
    MaxTokens,      \* bound: token pushes
    MaxReports,     \* bound: ReportMachineStatus calls
    MaxDeletes,     \* bound: deletions through the API
    MaxFaults       \* bound: requests refused, calls of the store and sends that fail

ASSUME StreamsAssumption ==
    /\ Streams \subseteq Nat \ {0} /\ IsFiniteSet(Streams)
    /\ Cardinality(Ids) \in Nat /\ Ids = 1 .. Cardinality(Ids) /\ 1 \in Ids
    /\ Kinds \subseteq {"sync", "machine"} /\ Ephemerals \subseteq BOOLEAN
    /\ {ChannelBuffer, MaxChanges, MaxDeletes} \subseteq Nat

VARIABLES
    kind,       \* "sync" or "machine": the RPC this peer's client calls
    ephemeral,  \* Peer.Ephemeral
    id,         \* ID of the peer in the store, 0 if it is not registered
    ids,        \* number of IDs handed out
    status,     \* Peer.Status: connected and lastSeen; missed: a disconnect could
                \* not be written to it
    serial,     \* Network.Serial of the account
    clock,
    lock,       \* handler that holds the peer's mutex of peerLocks
    stream,     \* handler: its position and locals
    left,       \* the client has given the stream up
    out,        \* what the client has received on a stream it has not left
    taken,      \* what the handler has received from the channel up to then
    chan,       \* peerChannels: peer ID to the stream whose channel it is
    buf,        \* contents of the channel made for a stream while it is read
    closed,     \* channels that have been closed
    refresh,    \* relayCancelMap: peer ID to the stream it was set up for
    listed,     \* when the peer was put on the list of the ephemeral manager, or 0
    expired,    \* what cleanup took from that list and has not yet dealt with
    syncSem,    \* Server.syncSem
    wanted,     \* the account's peers are to be updated
    pass,       \* passes of sendUpdateAccountPeers
    deleting,   \* ID whose deletion has been committed and not yet announced
    done        \* counts of the bounded inputs

peerVars == <<kind, ephemeral, id, ids, status, serial, clock>>
handlerVars == <<lock, stream, left, out, taken, syncSem>>
channelVars == <<chan, buf, closed, refresh, listed, expired>>
updateVars == <<wanted, pass, deleting>>
vars == <<peerVars, handlerVars, channelVars, updateVars, done>>

None == 0

Ctl == 0                \* a control message (tokens); maps are their serials
Maps == 1 .. MaxChanges + Cardinality(Ids) + MaxDeletes
Messages == {Ctl} \union Maps

\* Where a handler is: at the calls of Sync in their order, in the update loop,
\* waiting for the lock of cancelPeerRoutines, at the calls of
\* cancelPeerRoutinesWithoutLock.
InitPcs == {"user", "account", "lock", "sync", "mark", "initial", "register",
            "channel", "refresh"}
CancelPcs == {"cancel", "cancelChannel", "cancelRefresh"}
Pcs == {"idle", "done", "loop", "cancelLock"} \union InitPcs \union CancelPcs

TypeOK ==
    /\ kind \in Kinds
    /\ ephemeral \in BOOLEAN
    /\ id \in Ids \union {0}
    /\ ids \in Nat
    /\ status \in [connected : BOOLEAN, lastSeen : Nat, missed : BOOLEAN]
    /\ serial \in Maps
    /\ clock \in Nat
    /\ lock \in Streams \union {None}
    /\ stream \in [Streams -> [pc : Pcs, id : Ids \union {0}, start : Nat,
                               time : Nat, map : Maps \union {0},
                               timer : BOOLEAN, pending : Seq(Messages)]]
    /\ left \in [Streams -> BOOLEAN]
    /\ out \in [Streams -> Seq(Messages)]
    /\ taken \in [Streams -> Seq(Messages)]
    /\ chan \in [Ids -> Streams \union {None}]
    /\ buf \in [Streams -> Seq(Messages)]
    /\ \A s \in Streams : Len(buf[s]) <= ChannelBuffer
    /\ closed \in [Streams -> BOOLEAN]
    /\ refresh \in [Ids -> Streams \union {None}]
    /\ listed \in Nat
    /\ expired \in [id : Ids \union {0}, since : Nat]
    /\ syncSem \in Nat
    /\ wanted \in BOOLEAN
    /\ pass \in [Passes -> [map : Maps \union {0}, id : Ids \union {0}]]
    /\ deleting \in Ids \union {0}
    /\ DOMAIN done = {"changes", "tokens", "reports", "deletes", "faults"}

NewStream == [pc |-> "idle", id |-> 0, start |-> 0, time |-> 0, map |-> 0,
              timer |-> FALSE, pending |-> <<>>]
NoneExpired == [id |-> 0, since |-> 0]
IdlePass == [map |-> 0, id |-> 0]

Init ==
    /\ kind \in Kinds
    /\ ephemeral \in IF kind = "sync" THEN Ephemerals ELSE {FALSE}
    /\ id = 1 /\ ids = 1
    /\ status = [connected |-> FALSE, lastSeen |-> 1, missed |-> FALSE]
    /\ serial = 1
    /\ clock = 1
    /\ lock = None
    /\ stream = [s \in Streams |-> NewStream]
    /\ left = [s \in Streams |-> FALSE]
    /\ out = [s \in Streams |-> <<>>]
    /\ taken = [s \in Streams |-> <<>>]
    /\ chan = [i \in Ids |-> None]
    /\ buf = [s \in Streams |-> <<>>]
    /\ closed = [s \in Streams |-> FALSE]
    /\ refresh = [i \in Ids |-> None]
    /\ listed = IF ephemeral THEN 1 ELSE 0
    /\ expired = NoneExpired
    /\ syncSem = 0
    /\ pass = [p \in Passes |-> IdlePass]
    /\ wanted = FALSE
    /\ deleting = 0
    /\ done = [k \in {"changes", "tokens", "reports", "deletes", "faults"} |-> 0]

Registered == id # 0

Count(k, max) == done[k] < max /\ done' = [done EXCEPT ![k] = @ + 1]

-----------------------------------------------------------------------------
(* The registry of update channels.                                        *)

\* SendUpdate: appended unless the channel is full; no channel, no effect.
\* What is sent to a channel after its handler has left the loop is never read.
Sent(i, m) ==
    IF i # 0 /\ chan[i] # None /\ stream[chan[i]].pc \in {"refresh", "loop"}
            /\ Len(buf[chan[i]]) < ChannelBuffer
    THEN [buf EXCEPT ![chan[i]] = Append(@, m)]
    ELSE buf

\* closeChannel
CloseChannel(i) ==
    /\ chan' = [chan EXCEPT ![i] = None]
    /\ closed' = IF chan[i] = None THEN closed ELSE [closed EXCEPT ![chan[i]] = TRUE]

\* CreateChannel: a channel registered before is closed.
CreateChannel(s, i) ==
    /\ chan' = [chan EXCEPT ![i] = s]
    /\ closed' = IF chan[i] = None THEN closed ELSE [closed EXCEPT ![chan[i]] = TRUE]

-----------------------------------------------------------------------------
(* The handlers.                                                           *)

Pc(s, pc) == stream' = [stream EXCEPT ![s].pc = pc]

\* The handler returns.
Return(s) == stream' = [stream EXCEPT ![s] = [NewStream EXCEPT !.pc = "done"]]

\* Mutant of ReleaseSem: SyncMachinePeer gives back what it never took.
ReleaseSemAlways == syncSem' = syncSem - 1

\* syncSem.Add(-1); SyncMachinePeer has no such counter.
ReleaseSem == syncSem' = IF kind = "sync" THEN syncSem - 1 ELSE syncSem

\* The client opens a stream when it has given up the ones before or they
\* have ended.  Sync refuses it at its limit, which the handlers of all peers
\* share, or counts it.
Open(s) ==
    /\ stream[s].pc = "idle"
    /\ \A r \in 1 .. s - 1 : stream[r].pc = "done" \/ left[r]
    /\ \/ /\ clock' = clock + 1
          /\ stream' = [stream EXCEPT ![s].pc = "user", ![s].start = clock']
          /\ syncSem' = IF kind = "sync" THEN syncSem + 1 ELSE syncSem
       \/ kind = "sync" /\ Return(s) /\ UNCHANGED <<clock, syncSem>>
    /\ UNCHANGED <<kind, ephemeral, id, ids, status, serial, lock, left, out, taken,
                   channelVars, updateVars, done>>

\* A call that fails because the peer is not registered, or for another reason.
Refused == (~Registered /\ UNCHANGED done) \/ Count("faults", MaxFaults)

\* Sync parses the request, reads the peer's user and asks the login filter;
\* SyncMachinePeer validates the issuer and looks the peer up.
LookUpUser(s) ==
    /\ stream[s].pc = "user"
    /\ \/ /\ Registered
          /\ Pc(s, IF kind = "sync" THEN "account" ELSE "lock")
          /\ UNCHANGED <<syncSem, done>>
       \/ Refused /\ ReleaseSem /\ Return(s)
    /\ UNCHANGED <<peerVars, lock, left, out, taken, channelVars, updateVars>>

\* Mutant of LookUpAccount: an error returns without syncSem.Add(-1).
LookUpAccountKeepsSem(s) ==
    /\ stream[s].pc = "account"
    /\ \/ Registered /\ Pc(s, "lock") /\ UNCHANGED done
       \/ Refused /\ Return(s)
    /\ UNCHANGED <<peerVars, lock, left, out, taken, syncSem, channelVars, updateVars>>

\* GetAccountIDForPeerKey.
LookUpAccount(s) ==
    /\ stream[s].pc = "account"
    /\ \/ Registered /\ Pc(s, "lock") /\ UNCHANGED <<syncSem, done>>
       \/ Refused /\ ReleaseSem /\ Return(s)
    /\ UNCHANGED <<peerVars, lock, left, out, taken, channelVars, updateVars>>

\* acquirePeerLockByUID, for the initial sync and in cancelPeerRoutines.
AcquirePeerLock(s) ==
    /\ stream[s].pc \in {"lock", "cancelLock"}
    /\ lock = None
    /\ lock' = s
    /\ Pc(s, IF stream[s].pc = "lock" THEN "sync" ELSE "cancel")
    /\ UNCHANGED <<peerVars, left, out, taken, syncSem, channelVars, updateVars, done>>

\* SyncPeer: the peer is read by its key and the map made from the account as
\* it is now; new metadata is announced (OnPeersUpdated).  SyncMachinePeer
\* takes the time it marks with here, Sync uses the one of the request.  A
\* blocked owner, an expired login or an error of the store or the validator
\* end the handler.
SyncPeer(s) ==
    /\ stream[s].pc = "sync"
    /\ clock' = IF kind = "machine" THEN clock + 1 ELSE clock
    /\ \/ /\ Registered
          /\ stream' = [stream EXCEPT ![s].pc = "mark", ![s].id = id, ![s].map = serial,
                             ![s].time = IF kind = "machine" THEN clock' ELSE stream[s].start]
          /\ \/ UNCHANGED <<wanted, done>>
             \/ Count("changes", MaxChanges) /\ wanted' = TRUE
          /\ UNCHANGED <<lock, syncSem>>
       \/ /\ Refused
          /\ Return(s)
          /\ lock' = None
          /\ ReleaseSem
          /\ UNCHANGED wanted
    /\ UNCHANGED <<kind, ephemeral, id, ids, status, serial, left, out, taken,
                   channelVars, pass, deleting>>

\* MarkPeerConnected in its transaction: a connect that is not newer than
\* LastSeen is skipped, a disconnect is not.
MarkPeerConnected(connected, time) ==
    status' = IF ~Registered \/ (connected /\ time <= status.lastSeen) THEN status
              ELSE [connected |-> connected, lastSeen |-> time, missed |-> FALSE]

\* An error of the mark is only logged.
MarkConnected(s) ==
    /\ stream[s].pc = "mark"
    /\ \/ MarkPeerConnected(TRUE, stream[s].time) /\ UNCHANGED done
       \/ Count("faults", MaxFaults) /\ UNCHANGED status
    /\ Pc(s, "initial")
    /\ UNCHANGED <<kind, ephemeral, id, ids, serial, clock, lock, left, out, taken,
                   syncSem, channelVars, updateVars>>

SendInitialSync(s) ==
    /\ stream[s].pc = "initial"
    /\ out' = IF left[s] THEN out ELSE [out EXCEPT ![s] = <<stream[s].map>>]
    /\ Pc(s, "register")
    /\ UNCHANGED <<peerVars, lock, left, taken, syncSem, channelVars, updateVars, done>>

\* The settings cannot be read or the stream is broken.  Sync undoes its mark;
\* SyncMachinePeer returns.
SendInitialSyncFails(s) ==
    /\ stream[s].pc = "initial"
    /\ \/ left[s] /\ UNCHANGED done
       \/ Count("faults", MaxFaults)
    /\ ReleaseSem
    /\ IF kind = "sync"
       THEN Pc(s, "cancel") /\ UNCHANGED lock
       ELSE Return(s) /\ lock' = None
    /\ UNCHANGED <<peerVars, left, out, taken, channelVars, updateVars>>

\* Mutant of OnPeerConnected: Sync too calls cancelPeerRoutines, which locks.
OnPeerConnectedLocksAgain(s) ==
    /\ stream[s].pc = "register"
    /\ \/ /\ id = stream[s].id
          /\ listed' = 0
          /\ Pc(s, "channel")
          /\ UNCHANGED <<syncSem, done>>
       \/ /\ (id # stream[s].id /\ UNCHANGED done) \/ Count("faults", MaxFaults)
          /\ Pc(s, "cancelLock")
          /\ ReleaseSem
          /\ UNCHANGED listed
    /\ UNCHANGED <<peerVars, lock, left, out, taken, chan, buf, closed, refresh, expired,
                   updateVars>>

\* OnPeerConnected reads the peer by its ID.  If it is gone or cannot be read,
\* Sync cancels its routines under the lock it has; SyncMachinePeer calls
\* cancelPeerRoutines, which locks again.
OnPeerConnected(s) ==
    /\ stream[s].pc = "register"
    /\ \/ /\ id = stream[s].id
          /\ listed' = 0
          /\ Pc(s, "channel")
          /\ UNCHANGED <<syncSem, done>>
       \/ /\ (id # stream[s].id /\ UNCHANGED done) \/ Count("faults", MaxFaults)
          /\ Pc(s, IF kind = "sync" THEN "cancel" ELSE "cancelLock")
          /\ ReleaseSem
          /\ UNCHANGED listed
    /\ UNCHANGED <<peerVars, lock, left, out, taken, chan, buf, closed, refresh, expired,
                   updateVars>>

\* Its second call: the peer may have been deleted since.
RegisterChannel(s) ==
    /\ stream[s].pc = "channel"
    /\ CreateChannel(s, stream[s].id)
    /\ Pc(s, "refresh")
    /\ UNCHANGED <<peerVars, lock, left, out, taken, syncSem, buf, refresh, listed, expired,
                   updateVars, done>>

\* SetupRefresh replaces a refresh that is running; then the lock is released.
EnterLoop(s) ==
    /\ stream[s].pc = "refresh"
    /\ refresh' = [refresh EXCEPT ![stream[s].id] = s]
    /\ lock' = None
    /\ ReleaseSem
    /\ Pc(s, "loop")
    /\ UNCHANGED <<peerVars, left, out, taken, chan, buf, closed, listed, expired, updateVars, done>>

\* What the client receives of ms; nothing once it has left.
Deliver(s, ms) == out' = IF left[s] THEN out ELSE [out EXCEPT ![s] = @ \o ms]

\* Mutant of Coalesced: a map replaces the last one pending over control
\* messages too.
CoalescedOverControls(pending, m) ==
    IF pending # <<>> /\ m # Ctl THEN [pending EXCEPT ![Len(pending)] = m] ELSE Append(pending, m)

\* UpdateDebouncer.ProcessUpdate within the debounce period: a map replaces
\* the map it would follow, everything else is queued.
Coalesced(pending, m) ==
    IF pending # <<>> /\ m # Ctl /\ pending[Len(pending)] # Ctl
    THEN [pending EXCEPT ![Len(pending)] = m]
    ELSE Append(pending, m)

\* An update from the channel: SyncMachinePeer sends it, Sync sends the first
\* one and starts the debounce timer, or keeps it for the timer.
Update(s) ==
    /\ stream[s].pc = "loop"
    /\ buf[s] # <<>>
    /\ LET m == Head(buf[s]) IN
       /\ buf' = [buf EXCEPT ![s] = Tail(@)]
       /\ taken' = IF left[s] THEN taken ELSE [taken EXCEPT ![s] = Append(@, m)]
       /\ IF kind = "sync" /\ stream[s].timer
          THEN /\ stream' = [stream EXCEPT ![s].pending = Coalesced(@, m)]
               /\ UNCHANGED out
          ELSE /\ Deliver(s, <<m>>)
               /\ stream' = [stream EXCEPT ![s].timer = (kind = "sync")]
    /\ UNCHANGED <<peerVars, lock, left, syncSem, chan, closed, refresh, listed, expired,
                   updateVars, done>>

\* GetPendingUpdates when the timer fires: all that is pending goes out and
\* the timer is started again; with nothing pending the period is over.
Debounced(s) ==
    /\ stream[s].pc = "loop"
    /\ stream[s].timer
    /\ Deliver(s, stream[s].pending)
    /\ stream' = [stream EXCEPT ![s].pending = <<>>, ![s].timer = (stream[s].pending # <<>>)]
    /\ UNCHANGED <<peerVars, lock, left, taken, syncSem, channelVars, updateVars, done>>

\* The loop ends: its channel was closed and is drained, the client's
\* connection is noticed gone, or an update cannot be encrypted or sent.
LeaveLoop(s) ==
    /\ stream[s].pc = "loop"
    /\ \/ (left[s] \/ (closed[s] /\ buf[s] = <<>>)) /\ UNCHANGED done
       \/ (buf[s] # <<>> \/ stream[s].pending # <<>>) /\ Count("faults", MaxFaults)
    /\ stream' = [stream EXCEPT ![s].pc = "cancelLock", ![s].timer = FALSE, ![s].pending = <<>>]
    /\ buf' = [buf EXCEPT ![s] = <<>>]
    /\ UNCHANGED <<peerVars, lock, left, out, taken, syncSem, chan, closed, refresh,
                   listed, expired, updateVars>>

\* Mutant of CancelStatus: a peer seen when the stream began counts as newer.
CancelStatusNotBefore(s) ==
    /\ stream[s].pc = "cancel"
    /\ \/ status.lastSeen >= stream[s].start /\ UNCHANGED <<status, clock, done>>
       \/ /\ ~(status.lastSeen >= stream[s].start)
          /\ clock' = clock + 1 /\ MarkPeerConnected(FALSE, clock') /\ UNCHANGED done
       \/ /\ Count("faults", MaxFaults)
          /\ status' = [status EXCEPT !.missed = TRUE] /\ UNCHANGED clock
    /\ Pc(s, "cancelChannel")
    /\ UNCHANGED <<kind, ephemeral, id, ids, serial, lock, left, out, taken, syncSem,
                   channelVars, updateVars>>

\* AccountManager.OnPeerDisconnected: not if the peer was seen after the
\* stream began; an error of the read or of the mark is only logged.
CancelStatus(s) ==
    /\ stream[s].pc = "cancel"
    /\ \/ status.lastSeen > stream[s].start /\ UNCHANGED <<status, clock, done>>
       \/ /\ ~(status.lastSeen > stream[s].start)
          /\ clock' = clock + 1 /\ MarkPeerConnected(FALSE, clock') /\ UNCHANGED done
       \/ /\ Count("faults", MaxFaults)
          /\ status' = [status EXCEPT !.missed = TRUE] /\ UNCHANGED clock
    /\ Pc(s, "cancelChannel")
    /\ UNCHANGED <<kind, ephemeral, id, ids, serial, lock, left, out, taken, syncSem,
                   channelVars, updateVars>>

\* Controller.OnPeerDisconnected: the channel registered for the peer is
\* closed, whichever stream made it.
CancelChannel(s) ==
    /\ stream[s].pc = "cancelChannel"
    /\ CloseChannel(stream[s].id)
    /\ listed' = IF ephemeral /\ id = stream[s].id /\ listed = 0 THEN clock ELSE listed
    /\ Pc(s, "cancelRefresh")
    /\ UNCHANGED <<peerVars, lock, left, out, taken, syncSem, buf, refresh, expired, updateVars, done>>

\* Mutant of CancelRefresh: the refresh goes on.
CancelRefreshNot(s) ==
    /\ stream[s].pc = "cancelRefresh"
    /\ lock' = None
    /\ Return(s)
    /\ UNCHANGED <<peerVars, left, out, taken, syncSem, channelVars, updateVars, done>>

CancelRefresh(s) ==
    /\ stream[s].pc = "cancelRefresh"
    /\ refresh' = [refresh EXCEPT ![stream[s].id] = None]
    /\ lock' = None
    /\ Return(s)
    /\ UNCHANGED <<peerVars, left, out, taken, syncSem, chan, buf, closed, listed, expired,
                   updateVars, done>>

\* The client gives the stream up or loses its connection.
Leave(s) ==
    /\ stream[s].pc \notin {"idle", "done"}
    /\ ~left[s]
    /\ left' = [left EXCEPT ![s] = TRUE]
    /\ out' = [out EXCEPT ![s] = <<>>]
    /\ taken' = [taken EXCEPT ![s] = <<>>]
    /\ UNCHANGED <<peerVars, lock, stream, syncSem, channelVars, updateVars, done>>

-----------------------------------------------------------------------------
(* The account: changes, registration and deletion of the peer.            *)

\* Any other change of the account, followed by a call to update its peers.
AccountChange ==
    /\ Count("changes", MaxChanges)
    /\ serial' = serial + 1
    /\ wanted' = TRUE
    /\ UNCHANGED <<kind, ephemeral, id, ids, status, clock, handlerVars, channelVars,
                   pass, deleting>>

\* LoginPeer of an unknown key: AddPeer with a new ID.
RegisterPeer ==
    /\ ~Registered
    /\ ids + 1 \in Ids
    /\ ids' = ids + 1
    /\ id' = ids + 1
    /\ clock' = clock + 1
    /\ status' = [connected |-> FALSE, lastSeen |-> clock + 1, missed |-> FALSE]
    /\ serial' = serial + 1
    /\ listed' = IF ephemeral THEN clock' ELSE 0
    /\ wanted' = TRUE
    /\ UNCHANGED <<kind, ephemeral, handlerVars, chan, buf, closed, refresh, expired, pass,
                   deleting, done>>

\* DeletePeer commits, then OnPeersDeleted sends a last map and closes the
\* channel.
DeletePeer ==
    /\ Registered
    /\ deleting = 0
    /\ Count("deletes", MaxDeletes)
    /\ deleting' = id
    /\ id' = 0
    /\ serial' = serial + 1
    /\ UNCHANGED <<kind, ephemeral, ids, status, clock, handlerVars, channelVars,
                   wanted, pass>>

OnPeersDeleted ==
    /\ deleting # 0
    /\ buf' = Sent(deleting, serial)
    /\ CloseChannel(deleting)
    /\ deleting' = 0
    /\ wanted' = TRUE
    /\ UNCHANGED <<peerVars, handlerVars, refresh, listed, expired, pass, done>>

\* cleanup of the ephemeral manager after the life time: the peer leaves the
\* list, then DeletePeers deletes it, unless it is connected or has been seen
\* within the life time (which it can only have been if that was after it was
\* put on the list).
EphemeralCleanup ==
    /\ listed # 0
    /\ expired = NoneExpired
    /\ listed' = 0
    /\ expired' = [id |-> id, since |-> listed]
    /\ UNCHANGED <<peerVars, handlerVars, chan, buf, closed, refresh, updateVars, done>>

DeletePeers ==
    /\ expired # NoneExpired
    /\ expired' = NoneExpired
    /\ \/ /\ id = expired.id
          /\ ~status.connected
          /\ id' = 0
       \/ /\ id # expired.id \/ status.connected \/ status.lastSeen > expired.since
          /\ UNCHANGED id
    /\ wanted' = TRUE
    /\ UNCHANGED <<kind, ephemeral, ids, status, serial, clock, handlerVars, chan, buf,
                   closed, refresh, listed, pass, deleting, done>>

\* ReportMachineStatus takes no lock.
ReportMachineStatus(tunnelUp) ==
    /\ kind = "machine"
    /\ Registered
    /\ Count("reports", MaxReports)
    /\ clock' = clock + 1
    /\ MarkPeerConnected(tunnelUp, clock')
    /\ UNCHANGED <<kind, ephemeral, id, ids, serial, handlerVars, channelVars, updateVars>>

\* refreshRelayTokens pushes a control message.
PushTokens(i) ==
    /\ refresh[i] # None
    /\ Count("tokens", MaxTokens)
    /\ buf' = Sent(i, Ctl)
    /\ UNCHANGED <<peerVars, handlerVars, chan, closed, refresh, listed, expired, updateVars>>

-----------------------------------------------------------------------------
(* Account updates.  How calls become passes is the module AccountUpdates. *)

\* A pass reads the account, with the peer in it if it is registered.
PassReads(p) ==
    /\ wanted
    /\ pass[p] = IdlePass
    /\ wanted' = FALSE
    /\ pass' = [pass EXCEPT ![p] = [map |-> serial, id |-> id]]
    /\ UNCHANGED <<peerVars, handlerVars, channelVars, deleting, done>>

PassSends(p) ==
    /\ pass[p] # IdlePass
    /\ buf' = Sent(pass[p].id, pass[p].map)
    /\ pass' = [pass EXCEPT ![p] = IdlePass]
    /\ UNCHANGED <<peerVars, handlerVars, chan, closed, refresh, listed, expired, wanted,
                   deleting, done>>

\* Reading the zones or the settings fails; the error is dropped.
PassFails(p) ==
    /\ pass[p] # IdlePass
    /\ Count("faults", MaxFaults)
    /\ pass' = [pass EXCEPT ![p] = IdlePass]
    /\ UNCHANGED <<peerVars, handlerVars, channelVars, wanted, deleting>>

-----------------------------------------------------------------------------
\* Steps a handler takes on its own.
Handler(s) ==
    \/ LookUpUser(s) \/ LookUpAccount(s) \/ AcquirePeerLock(s) \/ SyncPeer(s) \/ MarkConnected(s)
    \/ SendInitialSync(s) \/ SendInitialSyncFails(s) \/ OnPeerConnected(s) \/ RegisterChannel(s)
    \/ EnterLoop(s)
    \/ Update(s) \/ Debounced(s) \/ LeaveLoop(s)
    \/ CancelStatus(s) \/ CancelChannel(s) \/ CancelRefresh(s)

Account ==
    \/ RegisterPeer \/ DeletePeer \/ OnPeersDeleted
    \/ EphemeralCleanup \/ DeletePeers
    \/ \E up \in BOOLEAN : ReportMachineStatus(up)

Updates == AccountChange \/ \E i \in Ids : PushTokens(i)

\* The streams of a peer whose account does not change otherwise.
StreamNext == Account \/ \E s \in Streams : Open(s) \/ Leave(s) \/ Handler(s)

Next ==
    \/ StreamNext \/ Updates
    \/ \E p \in Passes : PassReads(p) \/ PassSends(p) \/ PassFails(p)

Spec == Init /\ [][Next]_vars

\* The goroutines of the server run; clients, administrators and faults need
\* not act.  A handler gets the mutex when nobody holds it for ever: each
\* stream takes it a bounded number of times.
StreamSpec ==
    /\ Init /\ [][StreamNext]_vars
    /\ \A s \in Streams : WF_vars(Handler(s))
    /\ WF_vars(OnPeersDeleted) /\ WF_vars(DeletePeers)

-----------------------------------------------------------------------------
(* Properties.                                                             *)

Running(s) == stream[s].pc \notin {"idle", "done"}
Quiet == \A s \in Streams : ~Running(s)

\* A channel in the registry and a token refresh belong to a handler that is
\* still going to give them up: OnPeerConnected and SetupRefresh leave nothing
\* behind when streams of the same peer overlap, although cancelPeerRoutines
\* names the peer and not the stream.
ResourcesOwned ==
    \A i \in Ids : \A s \in Streams :
        /\ chan[i] = s =>
              /\ stream[s].id = i /\ ~closed[s]
              /\ stream[s].pc \in {"refresh", "loop", "cancelLock", "cancel", "cancelChannel"}
        /\ refresh[i] = s =>
              /\ stream[s].id = i
              /\ stream[s].pc \in {"loop", "cancelLock"} \union CancelPcs

\* When no handler is left of a peer that uses Sync, the store does not say
\* that the peer is connected, unless writing the disconnect has failed:
\* comparing LastSeen with the start of the stream
\* (AccountManager.OnPeerDisconnected) never makes the last handler skip its
\* disconnect, in whatever order the streams begin, mark and cancel.
SyncStatusClears ==
    kind = "sync" /\ Quiet /\ Registered /\ ~status.missed => ~status.connected

\* syncSem, against which Sync checks its limit, counts the handlers before
\* their update loop: every way out of that phase, from a request that cannot
\* be parsed to the loop itself, gives it back once.
SemBalanced ==
    kind = "sync" => syncSem = Cardinality({s \in Streams : stream[s].pc \in InitPcs})

\* A handler of Sync whose client is gone ends, whatever the other streams of
\* the peer do: nobody keeps or waits for the peer's mutex for ever
\* (acquirePeerLockByUID, cancelPeerRoutines).
HandlersEnd ==
    kind = "sync" => \A s \in Streams : left[s] ~> ~Running(s)
=============================================================================
