# A TLA+ model of the NetBird machine tunnel

This repository is a fork of NetBird that adds a *machine tunnel*: a Windows
service that brings up a WireGuard tunnel before anyone logs on, so that a
computer can reach its domain controllers. The modules here model that service
and the code it runs (`client/cmd/netbird-machine`, `client/internal/tunnel`),
the peer connections it opens (`client/internal/peer`) and the management
server's side of its update stream, check them with TLC on small instances, and
prove their main invariants with TLAPS for every instance. Paths below are
relative to `src/`; `T/` stands for `client/internal/tunnel/`, `P/` for
`client/internal/peer/`, `G/` for `management/internals/shared/grpc/`.

## 1. The system

### The machine tunnel and what surrounds it

| Part | State | Operations | Hard behaviour |
|---|---|---|---|
| Machine tunnel, `T/machine.go` | state, context, reconnect interval, three handles (`wgInterface`, `mgmClient`, `peerEngine`), `activeRoutes`, `unhealthyCh` | Start, Stop, Cleanup, connectionLoop, connect, maintainConnection | a loop goroutine against the caller of Stop; kills with rules in place; steps that fail half-way; signals of stopped checkers |
| Health checker, `T/health.go` | running, stopCh, failure count, last result | Start, Stop, Check, performCheck, healthCheckLoop | `stopCh` is read without the mutex; Stop waits for nobody |
| Reconnect manager, `T/reconnect.go` | running, stopCh, disconnectCh, backoff, retry count | Start, Stop, NotifyDisconnect, ResetBackoff, ConnectWithRetry, reconnectLoop | the same, and a give-up that clears another loop's flag |
| Enrolment, `T/bootstrap.go`, `T/security_windows.go`, `T/machine.go` | the configuration file, the configuration in memory, keys known to the server | load, generate and persist keys; bootstrap; remove the setup key | a file written in place; a copy of the setup key in memory; kills |
| Machine service, `client/cmd/netbird-machine/service_windows.go` | h.mu, h.stopped, h.tunnel, the two waits | Execute, startMachineTunnel, stopMachineTunnel | waits of 25 s and 10 s that run out while the work goes on |
| Firewall and NRPT managers, `T/firewall_windows.go`, `T/nrpt_windows.go` | rules in Windows | add a pair of rules, deny-default, add a DNS rule, remove all | partial failure; rules outlive the process |
| WireGuard adapter, `T/interface_windows.go`, `client/iface` | the adapter | Create, Up, Close, CheckHealth | an adapter that exists already, or vanishes |
| Peer engine, `T/peerengine.go` | map of peer connections, signal stream | Start, ConnectPeer, handleSignalMessage, Close | messages that arrive before the connection is stored |
| Peer connections, `P/conn.go`, `P/worker_ice.go`, `P/worker_relay.go`, `P/handshaker.go`, `P/endpoint.go`, `P/wg_watcher.go` | priority, status of the two transports, ICE agent, relay proxy, WireGuard endpoint, watcher | Open, Close, offers, the callbacks of ICE, relay and watcher | callbacks in goroutines of their own, in any order; agents and relayed connections that are replaced while callbacks of the old ones are under way |
| Guard, `P/guard` | retry counter, hourly mode, two one-slot channels | ticks, notes of lost transports | reads the transports' state without the connection's mutex |
| Relay client, relay proxy, `shared/relay/client`, `client/iface/wgproxy/bind` | open connections, listeners; reader, redirection | OpenConn, closeConn, Work, RedirectAs, Close | a reader that ends while its proxy is being replaced |
| Certificates, `client/internal/auth` (discovery, signer), `T/certenroll.go`, `T/domainjoin.go`, `T/trust_windows.go` | Windows certificate store | find, enrol, sign, trust | selection among several certificates |
| DC firewall package, interface discovery, NTP, `client/internal/{firewall,iface,ntp}` | created rules, adapter name, offset | add, resync, watch, check | rename of the adapter between two rules |
| Update streams, `G/server.go`, `G/machine_tunnel.go`, `G/update_debouncer.go`, `G/token_mgr.go`, `management/internals/controllers/network_map` | one mutex per peer, update channels, token refreshes, the peer's status, debounce timer | Sync, SyncMachinePeer, ReportMachineStatus, update passes | streams of one peer that overlap; passes that overlap; a full channel |
| Peers and ephemeral peers, `management/server/peer.go`, `management/internals/modules/peers` | peers, their status, the list of ephemeral ones | register, delete, clean up | a peer deleted while its stream begins |
| Machine authentication, `management/internals/server/mtls_auth.go` | none | identity extraction, issuer checks | |

`Execute` starts the tunnel in a goroutine. `Start` spawns `connectionLoop`,
which calls `connect` until it succeeds and then blocks in
`maintainConnection`, which owns a health checker; an unhealthy checker sends
the loop back to `connect`. `connect` cleans up what an earlier process left,
enrols (`toMachineConfig`, `Bootstrap`), creates the adapter, writes NRPT and
firewall rules, opens the management client, fetches the network map, starts
the peer engine, connects the peers and adds routes. `Stop` cancels the
context, joins the loop and runs `Cleanup`.

For every remote peer the engine opens a `Conn`. Its handshaker takes the
remote's offers and hands them to the ICE worker, which makes an agent and
dials, and to the relay worker, which opens a relayed connection. Both report
through callbacks of `Conn`, which move WireGuard's endpoint to the better
transport; a watcher of WireGuard's handshakes takes a dead one down, and the
guard sends offers while a transport is missing. The list of remote peers comes
from the management server: a handler (`Sync`, `SyncMachinePeer`) sends the
current network map, registers a channel, and passes on what the updates of the
account put there.

### The rest of the repository

The remaining code is upstream NetBird: the user client (engine, lazy
connections, routes, DNS, firewall, SSH, updater, front ends), the rest of the
management server (accounts, policies, stores, HTTP API), the signal and relay
servers, the reverse proxy, shared clients and tools. `PROJECT.json` lists every part with its status and the
reason where it is not modelled.

## 2. Modules

| Module | Models |
|---|---|
| `MachineTunnel` | Start, Stop, Cleanup, connectionLoop, connect, maintainConnection, with the operating system's state and kills |
| `TunnelLifecycle` | the abstract promise: what an owner sees of state and rules |
| `HealthChecker` | the checker and its goroutines, at the grain of its channel reads |
| `ReconnectManager` | the reconnect loops and ConnectWithRetry |
| `Enrollment` | the configuration file, keys, setup key and the choice of authentication |
| `MachineService` | Execute and the two waits; connect and two Cleanups at the grain of their field accesses |
| `PeerConn` | one peer connection: callbacks, ICE and relay workers, handshaker, endpoint, watcher, Close |
| `PeerGuard` | `PeerConn` composed with its guard |
| `PeerStreams` | the handlers of one peer's streams with mutex, channel, status, token refresh; registration and deletion of the peer |
| `AccountUpdates` | `PeerStreams` composed with the controller's direct, buffered and timed passes |
| `*Proofs` | the theorems about the module of that name; `PeerConnProofs` has those about `PeerGuard` too |
| `MC*` | instances for TLC; they add symmetry sets and nothing else |

### MachineTunnel

Three kinds of process: the caller of Start and Stop (`caller`), the loop
goroutine (`loop`, whose values name the step of `connect` it is about to take)
and the health-check goroutines (`hpc`). Each step of `connect` is one action;
a `for` loop over namespaces, addresses or networks is one action per element,
with the elements left in `todo`. Elements are taken in any order, a superset of
the code's.

- *Fields* are in `open` (which handles are not nil), `activeRoutes`,
  `unhealthyCh` and `interval`. `leaked` records that a handle was overwritten,
  or never stored, while open.
- *Windows* is `device`, `owner`, `nrpt`, `fw` and `routes`. `dirty` records that the
  last removal of a kind left something behind, since `RemoveAllRules` goes on
  after an error and returns nil.
- *Errors.* Local calls (registry, PowerShell, routes) may fail at any time.
  Steps that make `connect` return an error fail only in an outage
  (`net = "bad"`) or with a cancelled context; the invariants do not depend on
  that, the liveness property `Recovers` does.
- *Kills.* `Crash` resets the fields, keeps the rules, and keeps or loses the
  adapter.
- `CreateReplaces` holds the answers Create may give when the adapter exists: it
  replaces it (TRUE) or returns an error (FALSE). A reconnect meets this case,
  because nothing closes the interface of the last connect and
  cleanupStaleWireGuardInterface only disables the adapter; which answer comes
  depends on the driver. `tunnel` has the error, `tunnel_live` both, the proofs
  every set.

The checkers appear here with the detail the tunnel needs: a stopped one
finishes its check and may still signal. `HealthChecker` has the rest.

### HealthChecker and ReconnectManager

Goroutines and stop channels are numbered by the Start that made them. The
unsynchronised read of `stopCh` on entry to a select is a step of its own, so an
old loop may come to watch a newer channel. Failures are counted as in the code;
`MaxFailures` bounds them by letting no check begin once so many are counted; in the
runs it is at least the threshold. The retry count stops at `MaxRetries`, the only value
it is compared with.

### Enrollment

The file is a record of the fields that matter to enrolment, read by both
parsers that share the path. `os.WriteFile` truncates first, so a failed or
killed write leaves one of `Truncated(f)`: the fields up to some point and
perhaps one damaged value. `mem` is `t.config`, `attempt` the `MachineConfig` of
the connect at hand. The administrator may enrol a certificate, enable it,
revoke the setup key, and rewrite a file the service cannot start from.

### MachineService

`MachineTunnel` has one Cleanup at a time because Stop joins the loop. The
service does not keep to that when its 10 s wait runs out, so here the loop, the
Cleanup of Stop and the Cleanup of the service run side by side, each test, use
and clearing of a field being a step. Removal of rules always succeeds in this
module; failed removals are `MachineTunnel`'s subject.

### PeerConn and PeerGuard

An action is one critical section of `conn.mu` or of the ICE worker's mutex, or
one step of a goroutine outside them. `prio`, `up`, `proxy`, `wg` and `watch` are
what `conn.mu` guards: `currentConnPriority`, the transports whose status is
connected, `wgProxyRelay` with its reader and redirection, WireGuard's endpoint
with the responder's delayed update, and the watcher. `ag` holds the ICE agents
in the order they are made, each with its dial, the notifications it has yet to
deliver and a callback that waits for `conn.mu`; `ready` and `downs` are the
relay's callbacks that wait. `lastKnownState` (`ice.known`) is read and written
without a mutex, so its test and its update may fall around another agent's.
An offer may be lost, come late or lack ICE credentials or a relay address. What
pion, the relay server and WireGuard do is free: agents connect and fail, the
relay goes down, the watcher fires whenever it runs. `Fault` stands for a call
WireGuard refuses (configuring the endpoint, removing it, removing the peer) and for
an agent that cannot be made or dialed.

A pair over TURN (`ICETurn`) gets a proxy, `wgProxyICE`, if the remote has no relay:
`ag[a].turn`, and `proxy.turn` once it has been made. The two proxies of a peer have
one address towards WireGuard, so both endpoints are `"proxy"`. A `wgProxyICE` that is
overwritten is not followed further; `proxy.turn` stays set, as the field does, and
from then on `EndpointMatches` accepts the proxy's address for ICE. Errors of making a
proxy or of resolving its address are left out: a peer has an IPv4 address.

`PeerGuard` adds the guard's goroutine, which reads `ConnStatus` in one step
and acts on it in another. A tick that sends an offer changes nothing here:
the remote's answer is one of the offers that may arrive at any time.

### PeerStreams and AccountUpdates

One peer is followed; its client opens one stream after another and may leave
any of them at any time, while the server goes on with the old handlers. Each
handler is a sequence of steps at the grain of its calls (`stream[s].pc`), the
peer's mutex is `lock`, and times are values of a clock that moves when the
code keeps the result of `time.Now()`. A network map is the serial of the account
it was made from, a token update the message `Ctl`. `Sync` and `SyncMachinePeer` are
two kinds of the same handler, with the differences the code has: the counter
`syncSem`, the debouncer, the time the peer is marked with, and how an error of
OnPeerConnected is handled. Every way out of `Sync` is there: a request refused
because the peer is not known or blocked, an error of the store in looking up the
user, the account or the peer, and a send that fails. A disconnect the store fails
to read or write is only logged; `status.missed` remembers it.

`AccountUpdates` replaces the free choice of when a pass starts by the code of
`UpdateAccountPeers` and `bufferSendUpdateAccountPeers`: TryLock, note, timer, and
the gap between looking for the note and unlocking. In `streams` the account does not
change otherwise (`StreamNext`); `account_updates` adds the changes, token pushes and
passes (`Updates`).

## 3. Runs

| Run | Checks | Instance |
|---|---|---|
| `tunnel` | `TypeOK`, `LoopJoined`, `RoutesTracked`, `StopLeavesNothing`, `DenyOnlyWithAllows`, `KeepsLifecycle` | two addresses (one may fail while the other works), one route, one fault of any kind, Create fails over an adapter, at most two failures counted |
| `tunnel_live` | `StopLeavesNothing`, `BackoffBounded`, `Monitored`, `StopReturns`, `Recovers` | one namespace; two checkers, so that a stopped one overlaps its successor; threshold 2, up to three failures counted; intervals 2 and 3, so that doubling passes the cap; Create replaces an adapter or refuses |
| `health` | `StopClosesOnce`, `NoAbandonedWait`, `StoppedForGoodEndsLoops` | two Starts, threshold 2, up to three failures counted |
| `enrollment` | `TypeOK`, `OneIdentity`, `SetupKeyRemoved` | three keys, two faults, deployments with a setup key or with a certificate |
| `service` | `TypeOK`, `CleanReturn`, `PanicsOnlyAfterTimeout`, `StopEnds` | both waits may run out |
| `reconnect` | `TypeOK`, `BackoffBounded`, `StopEndsLoops` | two Starts and one ConnectWithRetry, two retries, backoff 2 to 3 |
| `streams` | `TypeOK`, `ResourcesOwned`, `SyncStatusClears`, `SemBalanced`, `HandlersEnd` | both handlers, ephemeral or not; two streams and two IDs, so that a stream overlaps its successor and the peer can be deleted and registered again; one fault: a refused request, a failing call of the store or a failing send |
| `account_updates` | `Debouncing`, `ChangesArrive` | one stream of Sync, two changes, two token pushes, a channel of two places, all three kinds of pass at once, one failing pass |
| `peer_conn` | `TypeOK`, `EndpointMatches`, `OneAgent`, `ConnectedCarries` | the initiator; two sessions and two agents, so that callbacks of the old one meet the new one; both priorities of a pair; one relayed connection |
| `peer_loss` | `RelayWorks`, `EndpointMatches`, `CloseLeavesNothing` | initiator and responder; one agent; two goroutines of the watcher; offers without ICE or relay; pairs of both priorities, over TURN with a proxy where the offer has no relay; one relay loss, one fault; cancel and Close at any point |
| `peer_guard` | `GuardAwake`, `CloseEnds` | both roles, offers without ICE or relay, cancel and Close in either order, no retry before the hourly mode |

One run finds a statement of the repository violated:

| Run | Statement | What happens |
|---|---|---|
| `tunnel_leak` | `T/machine.go:1310` "closes PeerEngine and management client" | the adapter vanishes, the health check sends the loop back to connect, and the second connect stores its management client over the open one of the first (`T/machine.go:799`); Stop closes only the second |

*What the properties leave out, and why.* Some are stated with a condition
because the code does not keep them without it:

- `Recovers` excepts behaviours in which Create goes on failing. With a driver that
  refuses an adapter whose handle is still open, a reconnect cannot succeed until
  the process has been restarted (`T/machine.go:1372`).
- `OneIdentity` excepts a file that was truncated by a kill or an error inside
  `os.WriteFile` (`trouble`): the key may then be lost.
- `SetupKeyRemoved` assumes that no setup key is deployed together with an enabled
  certificate: such a key stays in `t.config`, and the next reconnect writes it
  back (`T/machine.go:398`; `docs/ARCHITECTURE.md:238` says it is removed). While a
  setup key is there, `Bootstrap` falls back to it when mTLS fails
  (`T/bootstrap.go:182`; `docs/ARCHITECTURE.md:112` says it does not).
- `CleanReturn` is about a Stop that returns in time: after the 10 s wait the loop
  may add rules behind the service's Cleanup (`service_windows.go:243`).
- `BackoffBounded` of `ReconnectManager` assumes that the initial interval is at most
  the maximum.
- `StopEndsLoops` is about loops that have not given up: one that has clears
  `running` of a newer one (`T/reconnect.go:236`).
- `SyncStatusClears` and `HandlersEnd` are about `Sync`. `SyncMachinePeer` marks the
  peer with a time later than the start of its stream, so the comparison in
  `OnPeerDisconnected` always skips the disconnect (`G/machine_tunnel.go:236`); and
  when the peer has been deleted meanwhile it calls `cancelPeerRoutines` under the
  lock that function takes (`G/machine_tunnel.go:252`).
- `SyncStatusClears` also takes the store to keep LastSeen exactly, where its tests
  promise a millisecond (`management/server/store/sql_store_test.go:539`), and
  excepts a disconnect the store failed to write (`status.missed`).
- `ResourcesOwned` and `HandlersEnd` allow that the cancel of an older stream closes
  the channel of a newer one (`G/server.go:527`); the newer handler then ends and its
  client has to open another stream.
- `ChangesArrive` starts when the peer's channel is registered: an update between
  the initial map and that point is lost (`G/machine_tunnel.go:250`). It ends when the
  handler has taken the update, and excepts a full channel, a failed pass, and a note
  left between the goroutine's look at `update` and its unlock.
- `Debouncing` is about what has been sent: an update still pending when the channel
  is closed is dropped (`G/server.go:430`). It does not compare serials, so the
  debouncer may replace a newer map by an older one that a slower pass delivers later.
- `RelayWorks` is about what the relay's proxy reads and hands to WireGuard. The way
  out goes through a registration of the proxy's address in the ICE bind, which all
  proxies of a peer share and which is not modelled: closing a replaced proxy after the
  new one's Work, or one beside a TURN proxy, removes it
  (`client/iface/wgproxy/bind/proxy.go:162`). The runs have one relayed connection, so
  that one proxy replaces another is covered by the proof only.
- `EndpointMatches`, and in `CloseLeavesNothing` the removal of the peer, hold as long
  as WireGuard refuses no call: such an error is logged or returned and nothing is
  tried again.
- `EndpointMatches` relates the endpoint to the priority. That a working relay is
  used is not so: an ICE loss handled when the relay has already taken over
  resets the relay's endpoint (`P/conn.go:464`), until the guard's next offer.
- `ConnectedCarries` is about a remote that has ICE, and it allows for
  `agentConnecting`. The same late ICE loss leaves a peer whose remote has given up
  ICE with a relay that is up and not used, and the guard takes it for connected;
  and `WorkerICE.Close` during a dial leaves `agentConnecting` set with no dial
  under way (`P/worker_ice.go:204`).
- `GuardAwake` has the note to the guard and the following change of status, both under
  `conn.mu`, in one step (`TransportDown`). In the code a guard could take the note
  first, but the ticker it makes then ticks 800 ms later at the earliest, and the
  status is written a few instructions after the note.

*Bounds.* `MaxFaults` bounds outages, adapter failures and kills together (in
`Enrollment`: failed decryptions, writes and mTLS attempts; in `PeerStreams`: refused
requests, failed calls of the store, sends and passes; in `PeerConn`: refused calls of
WireGuard and agents that cannot be made); `MaxStarts` bounds Starts; `MaxFailures`
bounds the failures a checker counts; `Checkers` and `Watchers` bound the goroutines alive at a
time; `MaxOffers`, `MaxLosses`, `MaxChanges`, `MaxTokens`, `MaxReports` and `MaxDeletes`
bound what the outside does. One fault is enough for every reconnect and every
recovery after a kill. Two agents, two streams, two watchers are the smallest
numbers at which an old one meets a new one. `CHECK_DEADLOCK FALSE` stands where
the system may stop: in the runs of `HealthChecker` and `ReconnectManager` (the
bound on Starts ends them), of `MachineService` (the process exits), of
`PeerStreams` and `AccountUpdates` (the client need not open a stream) and of
`PeerConn` (closed, or idle with no offer coming); the tunnel and the enrolment
never stop.

*Fairness.* Goroutines that can run do (weak fairness), and nobody has to call
Start, Stop or cancel. A Go select picks among its ready cases at random, hence
strong fairness of leaving by a closed channel. In `tunnel_live` Bootstrap has
to end only once the server can be reached or the context is cancelled, because
its dial has no timeout. A health check is assumed to be shorter than the check
interval, so a checker that returns to its select after Stop finds no tick
waiting; and the threshold is at least 2 (the default is 3). With a threshold of
1 a single late signal of a stopped checker could send the tunnel back to
connect again and again. In `MachineService`, weak fairness of the loop stands
for: every wait in connect ends with the context. In `streams` and `account_updates`
the handlers, the announcement of a deletion, the passes and the timer run;
clients, administrators and faults need not act. That a handler runs includes that
the Send of the initial map ends, under the peer's mutex (`G/server.go:903`): gRPC ends
it when the stream's context does. Weak fairness is enough for the mutex, because each
stream takes it a bounded number of times. In `peer_guard` only
what Close waits for has to run: the handshaker, the guard and the watchers.

Each property of each passing run has a mutant, a small change to one definition
that the property catches (`PROJECT.json`, definitions marked "Mutant of" in the
modules).

## 4. Proofs

All for every value of the constants, from the named assumptions of the modules
(intervals and thresholds positive; marker values such as `"deny"` and `"none"`
not members of the sets they extend; bounds are naturals). Every safety property
that a passing run checks has its theorem.

**MachineTunnelProofs.** One inductive invariant `Inv` carries all eight
theorems. Beside the properties and the type invariant it has:

- `Phases`: connect runs only under Connecting or Reconnecting, maintainConnection
  only under Connected; `LoopJoined` and the refinement need it;
- `FirewallProgress`: between cleanupStaleResources and `configureFirewall` no
  firewall rule is there unless removal failed; within it nothing is denied yet
  and the addresses no longer in `todo` have both rules. This makes
  `DenyOnlyWithAllows` inductive;
- `InterfaceStored`: the interface is in its field from setupWireGuardInterface to
  the end of connect and as long as routes are tracked, so Cleanup does not skip
  them;
- `CleanupProgress`: what each step of Cleanup has emptied stays empty until the
  last, which gives `StopLeavesNothing`;
- `CheckerThere`: the checker maintainConnection waits for exists.

Theorems: `TypeCorrect`, `LoopIsJoined`, `StopCleans`, `DenyNeedsAllows`,
`RoutesAreTracked`, `BackoffIsBounded`, `ConnectedIsMonitored`, and `Refinement`:
`MachineTunnel` implements `TunnelLifecycle` with `phase` the state and `rules`
the NRPT and firewall rules together.

**HealthCheckerProofs.** `NoAbandonedWaitHolds` and `StopClosesOnceHolds`, with
`TypeCorrect`. The strengthening `ChannelInv` relates `running`, `stopCh` and the closed channels:
a channel made by a Start is closed unless the checker is running, and the
constructor's channel is current only before the first Start.

**EnrollmentProofs.** `TypeCorrect`; `KeysSurviveRestarts` (`OneIdentity`), which
rests on a key being on file before it is presented (`KeyInHand`, `KeyOnFile`);
and `RemovalIsFinal` (`SetupKeyRemoved`), under the assumption that no setup key
is deployed together with an enabled certificate, which `PhasesApart` carries.

**ReconnectManagerProofs.** `TypeCorrect` and `BackoffIsBounded`. The invariant is
the type with the bounds of the backoff; `NextBackoffBounded` shows that
`calculateNextBackoff` stays within them for every multiplier of at least 1.

**MachineServiceProofs.** `TypeCorrect`, `ReturnsClean` (`CleanReturn`) and
`NoPanicInTurn` (`PanicsOnlyAfterTimeout`). The invariant says who holds `h.mu`
(`Mutex`), what has happened of the start and of the stop (`Started`, `Stopping`),
and where the two Cleanups are (`Steps`). As long as the wait for Stop has not run
out, `InTurn` has the Cleanups follow each other, so that what one has tested is
still there when it is used and what it has passed is gone; `Connecting` has
connect find the fields it has set, and tracks routes until a Cleanup takes them
over.

**PeerConnProofs.** For any number of offers, agents, relayed connections, watchers,
losses and faults; the one assumption that ties them is that there is an agent for
each offer. `Inv` has three parts:

- `AgentsInv` gives `NoAgentLeft` (`OneAgent`). Agents are made in order, one for
  each offer that Listen has taken (`MadeInOrder`), so a new one is always unused;
  one that is not made is not dialed, and none has more notifications waiting than
  its state allows (`Sound`); after Close an agent that is still open has a
  cancelled dial, whose end closes it (`LateDials`);
- `RelayInv`: only the last relayed connection can be live, it is the worker's
  unless it has just been opened, and after Close it is on its way to the
  callback that closes it;
- `FrontInv` is about what conn.mu protects: `Carried` ties the priority, the status
  and the proxy together (the priority is ICE's just when ICE is up; a relay with
  priority has a proxy that works), which gives `ActiveRelayWorks` and
  `ConnectedIsCarried`; `NoDelay` says that the initiator has no delayed update,
  which `EndpointFollows` (`EndpointMatches`) needs; `Empty` is what Close has left,
  with the peer gone from WireGuard unless a call failed.

`ClosedForGood` (`CloseLeavesNothing`) comes from all three. For the guard, `GuardInv`
adds that one which has seen the peer partially connected, or sleeps for an hour,
has a note once both transports are down: `GuardIsAwake` (`GuardAwake`).
`GuardKeepsConn` carries the six theorems about `PeerConn` over to `PeerGuard`.

**PeerStreamsProofs.** For any finite number of streams that
overlap in any way (`StreamsAssumption`: streams and IDs are numbered from 1, so
that 0 can mean none). `IInv` has four parts, none of which is its property alone:

- `TypeInv` gives `TypeCorrect`. Serials have to stay within `Maps`, hence
  `Bounds`: a serial is at most the IDs handed out plus the changes and deletions
  so far;
- `OwnInv` gives `Owned` (`ResourcesOwned`). Closing a channel marks it closed for
  good, so `Fresh` says that a handler before CreateChannel has none that could
  have been closed, and that from SyncPeer on it knows an ID of the peer;
- `StatusInv` gives `StatusClears` (`SyncStatusClears`): a connected status of a
  peer that uses Sync is the mark of some handler before its disconnect, and it
  carries that handler's start, unless a disconnect was missed. That handler will
  therefore not find the peer seen after its start, and will not skip its disconnect;
- `SemInv` gives `SemCounts` (`SemBalanced`): `syncSem` is the number of handlers of
  Sync before their update loop, so each of its exits gives back what the entry took,
  once; SyncMachinePeer leaves the counter at zero.

**AccountUpdatesProofs.** `KeepsOrder` (`Debouncing`) follows from `DebounceInv`:
something is pending only in the loop of Sync while the timer runs, so an update
that is sent at once passes none; nothing is taken before the loop; and the
client has the initial map by then. `MayBecome` gives each message sent its place
among those taken. A message that is sent or queued adds a place
(`BecomesAppended`). A map that replaces another moves the last place on
(`BecomesReplaced`); this is sound because the last message taken may not be left
out, so the map that is replaced is that one. `BufferKeepsStreams` carries the
theorems about `PeerStreams` over: the goroutine, the note and the timer add only
steps that the handlers do not see (`Unseen`).

Model-checked only: the liveness properties `StopReturns`, `Recovers`,
`StoppedForGoodEndsLoops`, `StopEnds`, `StopEndsLoops`, `HandlersEnd`, `ChangesArrive`
and `CloseEnds`, because fairness and ENABLED are outside the prover's reach.

## 5. Not modelled

- The text of rules, registry values, PowerShell and netsh commands, logging and
  the event log.
- The fields of the configuration file that play no part in enrolment. Saving
  the file drops those only the service's parser knows; this is listed as a
  hazard without a property.
- `SetDegraded` and the getters of the health checker; callbacks that only notify.
- Remote candidates, Rosenpass keys and the status recorder of a peer connection;
  the engine's map of connections, which is filled once and emptied by Close.
- How a network map is computed, and the experimental cache of maps. The controller's
  own `OnPeerDisconnected` failing to find the peer, which skips the ephemeral list.
- `SRWatcher`, which appears as a reset of the guard at any time.
- Most of the repository: it is a fork of a large product of which the machine
  tunnel runs a small part. The user client's engine, routes, DNS, firewall and SSH,
  the account logic and HTTP API of the management server, the reverse proxy and
  the front ends are independent of it. `PROJECT.json` gives the reason for each
  part.

## 6. Plan

1. `mergeAllowedIPs`, `buildPeerRouteMap`, identity extraction and issuer checks
   of the mTLS code as operators, against reference definitions over bounded
   inputs.
2. `ConfigFile`: the two parsers of one file, and what a save keeps.
3. The signal client's and server's registries of streams, composed with the
   handshaker.
