------------------------------ MODULE PeerConn ------------------------------
(***************************************************************************)
(* One connection to a remote peer, as PeerEngine.ConnectPeer opens it and *)
(* PeerEngine.Close closes it: the handshaker, the ICE and the relay       *)
(* worker, the WireGuard watcher and the endpoint updater (the guard is in *)
(* PeerGuard).  The callbacks of the two transports run in goroutines of   *)
(* their own; conn.mu serialises them, and nothing orders them.  An action *)
(* is one critical section of conn.mu or of muxAgent, or one step of a     *)
(* goroutine outside them.                                                 *)
(*                                                                         *)
(* External and free to act: the remote's offers (an answer is handled     *)
(* like an offer, up to the reply), the ICE agents of pion, the relay      *)
(* client, WireGuard.  The machine has relay addresses and is not forced   *)
(* to use them; the remote's address in the network is IPv4, so that a     *)
(* proxy can be made.                                                      *)
(***************************************************************************)
EXTENDS Naturals, Sequences, FiniteSets

CONSTANTS
    Roles,      \* the sides that may be modelled: TRUE is the initiator
    Agents,     \* 1..n, ICE agents in the order OnNewOffer makes them
    Relayed,    \* 1..n, relayed connections in the order OpenConn makes them
    Watchers,   \* goroutines of the WireGuard watcher that may be alive
    Offers,     \* what the remote may send: [session, ice, relay]
    Pairs,      \* priorities a selected candidate pair may have
    Ends,       \* bound: "cancel" if the engine may cancel, "close" if it may close
    MaxOffers,  \* bound: offers received, at most the number of agents
    MaxLosses,  \* bound: failures of the relay
    MaxFaults   \* bound: failures of calls to WireGuard and of making an agent

ASSUME ConnAssumption ==
    /\ Roles \subseteq BOOLEAN
    /\ {Cardinality(Agents), Cardinality(Relayed), MaxOffers, MaxLosses, MaxFaults} \subseteq Nat
    /\ Agents = 1 .. Cardinality(Agents) /\ Relayed = 1 .. Cardinality(Relayed)
    /\ MaxOffers <= Cardinality(Agents)
    /\ \A o \in Offers : o.ice \in BOOLEAN /\ o.relay \in BOOLEAN
    /\ Pairs \subseteq {2, 3}

\* conntype.ConnPriority
NoConn == 0
Relay == 1
ICETurn == 2
ICEP2P == 3
ICEPrios == {ICETurn, ICEP2P}

\* No agent, no connection, no watcher, no session ID.
None == 0

Sessions == {o.session : o \in Offers} \union {None}

VARIABLES
    controller, \* isController: this side initiates
    life,       \* Open, the engine's context, Close
    prio,       \* currentConnPriority
    up,         \* the transports whose AtomicWorkerStatus is connected
    ice,        \* WorkerICE
    ag,         \* ICE agents with the goroutines that dial and notify
    hs,         \* Handshaker: where Listen is, remoteICESupported
    relay,      \* WorkerRelay, its AsyncOfferListener, the relay client
    ready,      \* calls of onRelayConnectionIsReady that wait for conn.mu
    downs,      \* calls of onRelayDisconnected that wait for conn.mu
    proxy,      \* wgProxyRelay; turn: there is a wgProxyICE
    wg,         \* WireGuard's endpoint for the peer, the delayed update
    watch,      \* WGWatcher.enabled, wgWatcherCancel, the goroutines
    notes,      \* the guard's channels that hold a note of a lost connection
    count       \* offers, losses and faults so far

iceVars == <<ice, ag>>
relayVars == <<relay, ready, downs>>
connVars == <<prio, up, proxy, wg, watch>>
vars == <<controller, life, iceVars, hs, relayVars, connVars, notes, count>>

\* What WireGuard sends to.  The ProxyBind of every connection to the peer that
\* needs one, over the relay or over TURN, has the same address, made from the
\* peer's.
Endpoints == {"removed", "none", "proxy", "ice"}

TypeOK ==
    /\ controller \in Roles
    /\ life \in {"new", "open", "cancelled", "closing", "waiting", "closed"}
    /\ prio \in {NoConn, Relay} \union ICEPrios
    /\ up \subseteq {"ice", "relay"}
    /\ ice \in [agent : Agents \union {None}, dialer : Agents \union {None}, connecting : BOOLEAN,
                session : Sessions, changed : BOOLEAN, known : BOOLEAN]
    /\ ag \in [Agents -> [state : {"unused", "checking", "connected", "failed", "closed"},
                          notes : Seq({"up", "down"}), lost : {"no", "closed", "yes"}, session : BOOLEAN,
                          turn : BOOLEAN, dial : {"none", "dial", "cancelled", "won", "ready"}]]
    /\ \A a \in Agents : Len(ag[a].notes) <= 3
    /\ hs \in [listen : {"off", "idle", "ice"}, session : Sessions, turn : BOOLEAN, ice : BOOLEAN]
    /\ relay \in [pc : {"idle", "offer", "opened"}, addr : BOOLEAN, latest : SUBSET BOOLEAN,
                  supported : BOOLEAN, made : Relayed \union {None}, conn : Relayed \union {None},
                  live : Relayed \union {None}, listens : BOOLEAN]
    /\ ready \subseteq Relayed
    /\ downs \in Nat
    /\ proxy \in [conn : Relayed \union {None}, reader : {"no", "reads", "ended"}, as : {"none", "proxy", "ice"},
                  turn : BOOLEAN]
    /\ wg \in [endpoint : Endpoints, delayed : {"no", "proxy", "ice"}]
    /\ watch \in [enabled : BOOLEAN, cancel : Watchers \union {None}, cancelled : SUBSET Watchers,
                  pc : [Watchers -> {"done", "starting", "running", "fired", "exit"}]]
    /\ notes \subseteq {"ice", "relay"}
    /\ count \in [offers : 0 .. MaxOffers, losses : 0 .. MaxLosses, faults : 0 .. MaxFaults]

NoProxy == [conn |-> None, reader |-> "no", as |-> "none", turn |-> FALSE]

Init ==
    /\ controller \in Roles
    /\ life = "new"
    /\ prio = NoConn
    /\ up = {}
    /\ ice = [agent |-> None, dialer |-> None, connecting |-> FALSE, session |-> None,
              changed |-> FALSE, known |-> FALSE]
    /\ ag = [a \in Agents |-> [state |-> "unused", notes |-> <<>>, lost |-> "no",
                               session |-> FALSE, turn |-> FALSE, dial |-> "none"]]
    /\ hs = [listen |-> "off", session |-> None, turn |-> FALSE, ice |-> TRUE]
    /\ relay = [pc |-> "idle", addr |-> FALSE, latest |-> {}, supported |-> FALSE, made |-> None,
                conn |-> None, live |-> None, listens |-> FALSE]
    /\ ready = {}
    /\ downs = 0
    /\ proxy = NoProxy
    /\ wg = [endpoint |-> "removed", delayed |-> "no"]
    /\ watch = [enabled |-> FALSE, cancel |-> None, cancelled |-> {},
                pc |-> [w \in Watchers |-> "done"]]
    /\ notes = {}
    /\ count = [offers |-> 0, losses |-> 0, faults |-> 0]

\* Close holds conn.mu until Listen and the guard have returned.
MuFree == life # "closing"

\* conn.ctx.Err() = nil
Live == life = "open"

Fault == count.faults < MaxFaults /\ count' = [count EXCEPT !.faults = @ + 1]

-----------------------------------------------------------------------------
(* EndpointUpdater and WGIface.                                            *)

\* Mutant of Configured: the responder lets a delayed update that is under way
\* finish first.
ConfiguredKeepsDelayed(e) ==
    IF controller THEN [wg EXCEPT !.endpoint = e]
    ELSE [endpoint |-> IF wg.endpoint = "removed" THEN "none" ELSE wg.endpoint,
          delayed |-> IF wg.delayed = "no" THEN e ELSE wg.delayed]

\* ConfigureWGEndpoint: the initiator sets the endpoint; the responder makes
\* sure that the peer is there and sets the endpoint after a delay.
Configured(e) ==
    IF controller THEN [wg EXCEPT !.endpoint = e]
    ELSE [endpoint |-> IF wg.endpoint = "removed" THEN "none" ELSE wg.endpoint, delayed |-> e]

\* ConfigureWGEndpoint when UpdatePeer fails.
Misconfigured == IF controller THEN wg ELSE [wg EXCEPT !.delayed = "no"]

\* Mutant of Unset: the endpoint stays.
UnsetNot(w) == w

\* RemoveEndpointAddress of the interface, which knows of no delayed update;
\* for a peer that is not there it is an error, and logged.
Unset(w) == [w EXCEPT !.endpoint = IF @ = "removed" THEN @ ELSE "none"]

\* Its call, which may fail.
RemoveEndpointAddress ==
    \/ wg' = Unset(wg) /\ UNCHANGED count
    \/ UNCHANGED wg /\ Fault

\* scheduleDelayedUpdate, after fallbackDelay.
DelayedUpdate ==
    /\ wg.delayed # "no"
    /\ \/ wg' = [endpoint |-> wg.delayed, delayed |-> "no"] /\ UNCHANGED count
       \/ wg' = [wg EXCEPT !.delayed = "no"] /\ Fault
    /\ UNCHANGED <<controller, life, iceVars, hs, relayVars, prio, up, proxy, watch, notes>>

-----------------------------------------------------------------------------
(* ProxyBind.  Pause is over before conn.mu is released.                   *)

\* Mutant of Working: wgCurrentUsed is not set back.
WorkingRedirected(p) ==
    IF p.conn = None THEN p
    ELSE [p EXCEPT !.reader = IF @ = "no" THEN "reads" ELSE @, !.as = IF @ = "none" THEN "proxy" ELSE @]

\* Work of the current relay proxy.
Working(p) ==
    IF p.conn = None THEN p
    ELSE [p EXCEPT !.reader = IF @ = "no" THEN "reads" ELSE @, !.as = "proxy"]

\* RedirectAs the address e
Redirected(p, e) == IF p.conn = None THEN p ELSE [p EXCEPT !.as = e]

\* The proxies with a new one for connection g in the place of wgProxyRelay.
ForRelay(g) == [NoProxy EXCEPT !.conn = g, !.turn = proxy.turn]

\* closeConn of the relay client
Dropped(r, g) == IF g # None /\ r.live = g THEN [r EXCEPT !.live = None] ELSE r

\* proxyToLocal: the connection has ended, and the disconnect listener is
\* called; without a context, or once the proxy is closed, it is not.
ReaderEnds ==
    /\ Live
    /\ proxy.reader = "reads" /\ proxy.conn # relay.live
    /\ proxy' = [proxy EXCEPT !.reader = "ended"]
    /\ downs' = downs + 1
    /\ UNCHANGED <<controller, life, iceVars, hs, relay, ready, prio, up, wg, watch, notes, count>>

-----------------------------------------------------------------------------
(* The WireGuard watcher.                                                  *)

Idle == {w \in Watchers : watch.pc[w] = "done"}

\* enableWgWatcherIfNeeded; the goroutine is any that is not in use.
Watching ==
    IF watch.enabled THEN {watch}
    ELSE {[watch EXCEPT !.cancel = w, !.pc[w] = "starting", !.cancelled = @ \ {w}] : w \in Idle}

\* disableWgWatcherIfNeeded, for the priority p the callback leaves
Unwatched(s, p) ==
    IF p = NoConn /\ s.cancel # None
    THEN [s EXCEPT !.cancelled = @ \union {s.cancel}, !.cancel = None]
    ELSE s

\* EnableWgWatcher: one goroutine watches, another returns at once.
WatcherStarts(w) ==
    /\ watch.pc[w] = "starting"
    /\ watch' = IF watch.enabled
                THEN [watch EXCEPT !.pc[w] = "done", !.cancelled = @ \ {w},
                                   !.cancel = IF @ = w THEN None ELSE @]
                ELSE [watch EXCEPT !.pc[w] = "running", !.enabled = TRUE]
    /\ UNCHANGED <<controller, life, iceVars, hs, relayVars, prio, up, proxy, wg, notes, count>>

\* periodicHandshakeCheck ends: no new handshake in time, or the context is
\* done.  Before the first the callback has to be called.
WatcherEnds(w) ==
    /\ watch.pc[w] = "running"
    /\ \/ watch' = [watch EXCEPT !.pc[w] = "fired"]
       \/ w \in watch.cancelled /\ watch' = [watch EXCEPT !.pc[w] = "exit"]
    /\ UNCHANGED <<controller, life, iceVars, hs, relayVars, prio, up, proxy, wg, notes, count>>

WatcherExits(w) ==
    /\ watch.pc[w] = "exit"
    /\ watch' = [watch EXCEPT !.pc[w] = "done", !.enabled = FALSE, !.cancelled = @ \ {w},
                              !.cancel = IF @ = w THEN None ELSE @]
    /\ UNCHANGED <<controller, life, iceVars, hs, relayVars, prio, up, proxy, wg, notes, count>>

-----------------------------------------------------------------------------
(* WorkerICE.                                                              *)

\* The cancel function of a's dial, called in the agents s: a dial that has
\* not been answered fails.
Cancelled(s, a) == [s EXCEPT ![a].dial = IF @ = "dial" THEN "cancelled" ELSE @]

\* Mutant of AgentClosed: every call closes and notifies again.
AgentClosedAgain(s, a) == [s EXCEPT ![a].state = "closed", ![a].notes = Append(@, "down")]

\* agent.Close() in the agents s, once; the agent notifies of the state closed.
AgentClosed(s, a) ==
    IF s[a].state = "closed" THEN s
    ELSE [s EXCEPT ![a].state = "closed", ![a].notes = Append(@, "down")]

\* Mutant of ICEClose: only the dial is cancelled.
ICECloseCancels ==
    IF ice.agent = None THEN UNCHANGED iceVars
    ELSE /\ ag' = Cancelled(ag, ice.dialer)
         /\ ice' = [ice EXCEPT !.agent = None]

\* WorkerICE.Close
ICEClose ==
    IF ice.agent = None THEN UNCHANGED iceVars
    ELSE /\ ag' = AgentClosed(Cancelled(ag, ice.dialer), ice.agent)
         /\ ice' = [ice EXCEPT !.agent = None]

\* What closeAgent of agent a leaves in the worker.
Released(a) ==
    IF ice.agent = a
    THEN [ice EXCEPT !.agent = None, !.connecting = FALSE, !.session = None, !.changed = FALSE]
    ELSE [ice EXCEPT !.changed = FALSE]

\* OnNewOffer, called by Listen.  The agent n may fail to be made; for an offer
\* without a relay address it gathers TURN candidates; one made after the
\* context is done has a dial that is cancelled from the start.
OnNewOffer ==
    LET n    == CHOOSE a \in Agents : ag[a].state = "unused" /\ \A b \in 1 .. a - 1 : ag[b].state # "unused"
        busy == ice.agent # None \/ ice.connecting
        s    == IF ~busy THEN ag
                ELSE LET c == Cancelled(ag, ice.dialer)
                     IN  IF ice.agent = None THEN c ELSE AgentClosed(c, ice.agent)
        i    == [ice EXCEPT !.agent = None, !.changed = @ \/ busy]
    IN  /\ hs.listen = "ice"
        /\ hs' = [hs EXCEPT !.listen = "idle", !.session = None, !.turn = FALSE]
        /\ \/ /\ busy /\ hs.session \in {None, ice.session}
              /\ UNCHANGED <<iceVars, count>>
           \/ /\ ~busy \/ hs.session \notin {None, ice.session}
              /\ \/ /\ ag' = [s EXCEPT ![n].state = "checking", ![n].turn = hs.turn,
                                       ![n].dial = IF Live THEN "dial" ELSE "cancelled"]
                    /\ ice' = [i EXCEPT !.agent = n, !.dialer = n, !.connecting = TRUE, !.session = hs.session]
                    /\ UNCHANGED count
                 \/ ag' = s /\ ice' = i /\ Fault
        /\ UNCHANGED <<controller, life, relayVars, connVars, notes>>

\* pion: the agent finds a pair, which a dial not cancelled before takes; it
\* loses the pair, or finds none.
AgentConnects(a) ==
    /\ ag[a].state = "checking"
    /\ ag' = [ag EXCEPT ![a].state = "connected", ![a].notes = Append(@, "up"),
                        ![a].dial = IF @ = "dial" THEN "won" ELSE @]
    /\ UNCHANGED <<controller, life, ice, hs, relayVars, connVars, notes, count>>

AgentFails(a) ==
    /\ ag[a].state \in {"checking", "connected"}
    /\ ag' = [ag EXCEPT ![a].state = "failed", ![a].notes = Append(@, "down")]
    /\ UNCHANGED <<controller, life, ice, hs, relayVars, connVars, notes, count>>

\* connect: the dial has succeeded, and agentConnecting is reset whoever set
\* it.  The selected pair may be there even of an agent closed meanwhile.
DialSucceeds(a) ==
    /\ ag[a].dial = "won"
    /\ ag' = [ag EXCEPT ![a].dial = "ready"]
    /\ ice' = [ice EXCEPT !.connecting = FALSE]
    /\ UNCHANGED <<controller, life, hs, relayVars, connVars, notes, count>>

\* Mutant of DialFails: the agent is not closed.
DialFailsKeepsAgent(a) ==
    /\ \/ /\ ag[a].dial = "cancelled" \/ (ag[a].dial \in {"dial", "won"} /\ ag[a].state = "closed")
          /\ UNCHANGED count
       \/ ag[a].dial = "dial" /\ Fault
    /\ ag' = Cancelled([ag EXCEPT ![a].dial = "none"], ice.dialer)
    /\ ice' = Released(a)
    /\ UNCHANGED <<controller, life, hs, relayVars, connVars, notes>>

\* connect: the dial fails, or the gathering of candidates before it, and
\* the dial that is cancelled is the current one.
DialFails(a) ==
    /\ \/ /\ ag[a].dial = "cancelled" \/ (ag[a].dial \in {"dial", "won"} /\ ag[a].state = "closed")
          /\ UNCHANGED count
       \/ ag[a].dial = "dial" /\ Fault
    /\ ag' = AgentClosed(Cancelled([ag EXCEPT ![a].dial = "none"], ice.dialer), a)
    /\ ice' = Released(a)
    /\ UNCHANGED <<controller, life, hs, relayVars, connVars, notes>>

\* onConnectionStateChange, up to closeAgent.  An agent delivers its
\* notifications one at a time.
OnConnectionStateChange(a) ==
    /\ ag[a].notes # <<>>
    /\ ag[a].lost = "no"
    /\ LET s == [ag EXCEPT ![a].notes = Tail(@)]
       IN  \/ /\ Head(ag[a].notes) = "up"
              /\ ag' = s
              /\ ice' = [ice EXCEPT !.known = TRUE]
           \/ /\ Head(ag[a].notes) = "down"
              /\ ag' = [AgentClosed(Cancelled(s, a), a) EXCEPT ![a].lost = "closed", ![a].session = ice.changed]
              /\ ice' = Released(a)
    /\ UNCHANGED <<controller, life, hs, relayVars, connVars, notes, count>>

\* onConnectionStateChange, from closeAgent to onICEStateDisconnected.
\* Nothing guards lastKnownState: another agent's callback may read it before
\* this one's write.
LastKnownState(a) ==
    /\ ag[a].lost = "closed"
    /\ \/ /\ ice.known
          /\ ag' = [ag EXCEPT ![a].lost = "yes"]
          /\ \/ ice' = [ice EXCEPT !.known = FALSE]
             \/ (\E b \in Agents \ {a} : ag[b].lost = "closed") /\ UNCHANGED ice
       \/ /\ ~ice.known
          /\ ag' = [ag EXCEPT ![a].lost = "no", ![a].session = FALSE]
          /\ UNCHANGED ice
    /\ UNCHANGED <<controller, life, hs, relayVars, connVars, notes, count>>

-----------------------------------------------------------------------------
(* Handshaker and WorkerRelay.                                             *)

\* Listen takes an offer: updateRemoteICEState, then the relay listener's
\* Notify.  An offer that finds Listen busy is dropped.
ReceiveOffer(o) ==
    /\ hs.listen = "idle"
    /\ count.offers < MaxOffers
    /\ count' = [count EXCEPT !.offers = @ + 1]
    /\ hs' = [listen |-> IF o.ice THEN "ice" ELSE "idle", session |-> IF o.ice THEN o.session ELSE None,
              turn |-> o.ice /\ ~o.relay, ice |-> o.ice]
    /\ IF hs.ice /\ ~o.ice THEN ICEClose ELSE UNCHANGED iceVars
    /\ relay' = IF relay.pc = "idle" THEN [relay EXCEPT !.pc = "offer", !.addr = o.relay, !.latest = {o.relay}]
                ELSE [relay EXCEPT !.latest = {o.relay}]
    /\ UNCHANGED <<controller, life, ready, downs, connVars, notes>>

\* The listener's loop after WorkerRelay.OnNewOffer: on with the latest offer.
Looped(r) ==
    IF r.latest = {} THEN [r EXCEPT !.pc = "idle", !.addr = FALSE]
    ELSE [r EXCEPT !.pc = "offer", !.addr = CHOOSE x \in r.latest : TRUE, !.latest = {}]

\* WorkerRelay.OnNewOffer up to OpenConn, which may fail, and does if there
\* is a connection to the peer.
RelayOnNewOffer ==
    /\ relay.pc = "offer"
    /\ LET r == [relay EXCEPT !.supported = relay.addr]
       IN  \/ relay' = Looped(r)
           \/ /\ relay.addr /\ relay.live = None /\ relay.made + 1 \in Relayed
              /\ relay' = [r EXCEPT !.pc = "opened", !.made = @ + 1, !.live = relay.made + 1]
    /\ UNCHANGED <<controller, life, iceVars, hs, ready, downs, connVars, notes, count>>

\* OpenConn has returned.  AddCloseListener fails when the server is gone; it
\* keeps one listener of a function, so another peer's may stand for this.
RelayOpened ==
    /\ relay.pc = "opened"
    /\ \/ \E l \in BOOLEAN :
             relay' = Looped([relay EXCEPT !.conn = relay.made, !.listens = @ \/ l])
          /\ ready' = ready \union {relay.made}
       \/ /\ relay.live = None
          /\ relay' = Looped([relay EXCEPT !.conn = relay.made])
          /\ UNCHANGED ready
    /\ UNCHANGED <<controller, life, iceVars, hs, downs, connVars, notes, count>>

\* The relay client: the remote peer goes offline; the server is lost, which
\* calls onRelayClientDisconnected also.
RelayFails(server) ==
    /\ count.losses < MaxLosses
    /\ relay.live # None \/ (server /\ relay.listens)
    /\ count' = [count EXCEPT !.losses = @ + 1]
    /\ relay' = [relay EXCEPT !.live = None, !.listens = @ /\ ~server]
    /\ downs' = IF server /\ relay.listens THEN downs + 1 ELSE downs
    /\ UNCHANGED <<controller, life, iceVars, hs, ready, connVars, notes>>

-----------------------------------------------------------------------------
(* The callbacks of Conn, under conn.mu.                                   *)

\* A call that finds the context done.
Ignored == ~Live /\ UNCHANGED <<connVars, notes, count>>

\* Mutant of TransportDown: the status stays connected.
TransportDownKeeps(t) == UNCHANGED <<notes, up>>

\* Mutant of TransportDown: the guard is not told.
TransportDownSilently(t) == up' = up \ {t} /\ UNCHANGED notes

\* The status of transport t becomes disconnected; if it was not, the guard
\* gets a note.
TransportDown(t) ==
    /\ notes' = notes \union (up \intersect {t})
    /\ up' = up \ {t}

\* The address for a pair of priority p of agent a, a proxy's if its local
\* candidate is a TURN server's.
PairEndpoints(a, p) == {"ice"} \union {e \in {"proxy"} : ag[a].turn /\ p = ICETurn}

\* onICEConnectionIsReady; a wgProxyICE from before is not closed.
OnICEConnectionIsReady(a, p) ==
    /\ MuFree
    /\ ag[a].dial = "ready"
    /\ ag' = [ag EXCEPT ![a].dial = "none"]
    /\ \/ Ignored
       \/ /\ Live /\ prio > p
          /\ up' = up \union {"ice"}
          /\ UNCHANGED <<prio, proxy, wg, watch, notes, count>>
       \/ /\ Live /\ prio <= p
          /\ watch' \in Watching
          /\ \E e \in PairEndpoints(a, p) :
                LET q == [proxy EXCEPT !.turn = @ \/ e = "proxy"]
                IN  \/ /\ wg' = Configured(e)
                       /\ proxy' = Redirected(q, e)
                       /\ prio' = p
                       /\ up' = up \union {"ice"}
                       /\ UNCHANGED count
                    \/ /\ wg' = Misconfigured
                       /\ proxy' = Working(q)
                       /\ Fault
                       /\ UNCHANGED <<prio, up>>
          /\ UNCHANGED notes
    /\ UNCHANGED <<controller, life, ice, hs, relayVars>>

\* onICEStateDisconnected; wgProxyICE is closed and stays.
OnICEStateDisconnected(a) ==
    /\ MuFree
    /\ ag[a].lost = "yes"
    /\ ag' = [ag EXCEPT ![a].lost = "no", ![a].session = FALSE]
    /\ \/ Ignored
       \/ /\ Live
          /\ \/ /\ proxy.conn # None /\ prio # Relay
                /\ prio' = Relay
                /\ proxy' = Working(proxy)
                /\ \/ wg' = [endpoint |-> "proxy", delayed |-> "no"] /\ UNCHANGED count
                   \/ /\ \E w \in IF controller /\ ag[a].session THEN {wg, Unset(wg)} ELSE {wg} :
                            wg' = [w EXCEPT !.delayed = "no"]
                      /\ Fault
             \/ /\ proxy.conn = None \/ prio = Relay
                /\ prio' = NoConn
                /\ RemoveEndpointAddress
                /\ UNCHANGED proxy
          /\ TransportDown("ice")
          /\ watch' = Unwatched(watch, prio')
    /\ UNCHANGED <<controller, life, ice, hs, relayVars>>

\* onRelayConnectionIsReady of connection g; setRelayedProxy closes the proxy
\* before.
OnRelayConnectionIsReady(g) ==
    LET active == prio \in ICEPrios /\ "ice" \in up
    IN  /\ MuFree
        /\ g \in ready
        /\ ready' = ready \ {g}
        /\ \/ Ignored /\ relay' = Dropped(relay, g)
           \/ /\ Live /\ active
              /\ proxy' = ForRelay(g)
              /\ relay' = Dropped(relay, proxy.conn)
              /\ up' = up \union {"relay"}
              /\ UNCHANGED <<prio, wg, watch, notes, count>>
           \/ /\ Live /\ ~active
              /\ watch' \in Watching
              /\ wg' = Configured("proxy")
              /\ prio' = Relay
              /\ up' = up \union {"relay"}
              /\ proxy' = Working(ForRelay(g))
              /\ relay' = Dropped(relay, proxy.conn)
              /\ UNCHANGED <<notes, count>>
           \/ /\ Live /\ ~active /\ Fault
              /\ watch' \in Watching
              /\ wg' = Misconfigured
              /\ relay' = Dropped(relay, g)
              /\ UNCHANGED <<prio, up, proxy, notes>>
        /\ UNCHANGED <<controller, life, iceVars, hs, downs>>

\* handleRelayDisconnectedLocked, from the relay worker r and the watcher s.
HandleRelayDisconnected(r, s) ==
    /\ prio' = IF prio = Relay THEN NoConn ELSE prio
    /\ IF prio = Relay THEN RemoveEndpointAddress ELSE UNCHANGED <<wg, count>>
    /\ relay' = Dropped(r, proxy.conn)
    /\ proxy' = ForRelay(None)
    /\ TransportDown("relay")
    /\ watch' = Unwatched(s, prio')

\* onRelayDisconnected
OnRelayDisconnected ==
    /\ MuFree
    /\ downs > 0
    /\ downs' = downs - 1
    /\ \/ Ignored /\ UNCHANGED relay
       \/ Live /\ HandleRelayDisconnected(relay, watch)
    /\ UNCHANGED <<controller, life, iceVars, hs, ready>>

\* onWGDisconnected, called by watcher w.  The reader of the connection that
\* WorkerRelay.CloseConn closes may or may not find its listener still set.
OnWGDisconnected(w) ==
    LET exits == [watch EXCEPT !.pc[w] = "exit"]
    IN  /\ MuFree
        /\ watch.pc[w] = "fired"
        /\ \/ /\ Live /\ prio = Relay
              /\ HandleRelayDisconnected(Dropped(relay, relay.conn), exits)
              /\ downs' \in {downs, IF proxy.reader = "reads" THEN downs + 1 ELSE downs}
              /\ UNCHANGED iceVars
           \/ /\ Live /\ prio \in ICEPrios
              /\ ICEClose
              /\ watch' = exits
              /\ UNCHANGED <<prio, up, proxy, wg, relay, downs, notes, count>>
           \/ /\ ~Live \/ prio = NoConn
              /\ watch' = exits
              /\ UNCHANGED <<prio, up, proxy, wg, relay, downs, notes, count, iceVars>>
        /\ UNCHANGED <<controller, life, hs, ready>>

\* isConnectedOnAllWay and evalConnStatus
ConnStatus ==
    LET relayUp == relay.supported /\ "relay" \in up
    IN  IF ~hs.ice THEN IF relayUp THEN "connected" ELSE "disconnected"
        ELSE IF ("ice" \in up \/ ice.connecting) /\ (relay.supported => "relay" \in up) THEN "connected"
        ELSE IF relayUp THEN "partially"
        ELSE "disconnected"

-----------------------------------------------------------------------------
(* Open and Close.                                                         *)

Open ==
    /\ life = "new"
    /\ life' = "open"
    /\ hs' = [hs EXCEPT !.listen = "idle"]
    /\ UNCHANGED <<controller, iceVars, relayVars, connVars, notes, count>>

\* The contexts of the dials and of the watchers derive from the engine's.
CancelDials(s) == [a \in Agents |-> Cancelled(s, a)[a]]

\* The tunnel's context is cancelled before PeerEngine.Close.
EngineCancels ==
    /\ Live /\ "cancel" \in Ends
    /\ life' = "cancelled"
    /\ ag' = CancelDials(ag)
    /\ watch' = [watch EXCEPT !.cancelled = Watchers]
    /\ UNCHANGED <<controller, ice, hs, relayVars, prio, up, proxy, wg, notes, count>>

\* Close up to conn.wg.Wait(); RemovePeer may fail.
Close ==
    /\ life \in {"open", "cancelled"} /\ "close" \in Ends
    /\ life' = "closing"
    /\ watch' = [watch EXCEPT !.cancelled = Watchers]
    /\ relay' = Dropped(Dropped(relay, relay.conn), proxy.conn)
    /\ LET s == CancelDials(ag)
       IN  ag' = IF ice.agent = None THEN s ELSE AgentClosed(s, ice.agent)
    /\ ice' = [ice EXCEPT !.agent = None]
    /\ proxy' = NoProxy
    /\ \/ wg' = [endpoint |-> "removed", delayed |-> "no"] /\ UNCHANGED count
       \/ wg' = [wg EXCEPT !.delayed = "no"] /\ Fault
    /\ up' = {}
    /\ prio' = NoConn
    /\ UNCHANGED <<controller, hs, ready, downs, notes>>

ListenReturns ==
    /\ ~Live /\ hs.listen = "idle"
    /\ hs' = [hs EXCEPT !.listen = "off"]
    /\ UNCHANGED <<controller, life, iceVars, relayVars, connVars, notes, count>>

\* Mutant of CloseUnlocks: the deferred calls in the other order.
CloseUnlocksLast ==
    /\ life = "closing" /\ hs.listen = "off" /\ Idle = Watchers
    /\ life' = "waiting"
    /\ UNCHANGED <<controller, iceVars, hs, relayVars, connVars, notes, count>>

\* Close: conn.wg.Wait() and the deferred Unlock, then wgWatcherWg.Wait().
CloseUnlocks ==
    /\ life = "closing" /\ hs.listen = "off"
    /\ life' = "waiting"
    /\ UNCHANGED <<controller, iceVars, hs, relayVars, connVars, notes, count>>

CloseReturns ==
    /\ life = "waiting" /\ Idle = Watchers
    /\ life' = "closed"
    /\ UNCHANGED <<controller, iceVars, hs, relayVars, connVars, notes, count>>

-----------------------------------------------------------------------------

Agent(a) ==
    \/ AgentConnects(a) \/ AgentFails(a) \/ DialSucceeds(a) \/ DialFails(a)
    \/ OnConnectionStateChange(a) \/ LastKnownState(a) \/ OnICEStateDisconnected(a)
    \/ \E p \in Pairs : OnICEConnectionIsReady(a, p)

Watcher(w) == WatcherStarts(w) \/ WatcherEnds(w) \/ WatcherExits(w) \/ OnWGDisconnected(w)

RelayStep ==
    \/ RelayOnNewOffer \/ RelayOpened \/ ReaderEnds \/ OnRelayDisconnected
    \/ \E s \in BOOLEAN : RelayFails(s)
    \/ \E g \in Relayed : OnRelayConnectionIsReady(g)

ListenStep == OnNewOffer \/ ListenReturns \/ \E o \in Offers : ReceiveOffer(o)

ConnStep ==
    \/ EngineCancels \/ Close \/ CloseReturns
    \/ ListenStep \/ RelayStep \/ DelayedUpdate
    \/ \E a \in Agents : Agent(a)
    \/ \E w \in Watchers : Watcher(w)

Next == Open \/ CloseUnlocks \/ ConnStep

Spec == Init /\ [][Next]_vars

-----------------------------------------------------------------------------
(* Properties.                                                             *)

\* While the relay is the active connection and no loss of it waits to be
\* handled, its proxy is there, reads from it and hands the packets to
\* WireGuard as the relay's (not redirected to the ICE address), and the
\* relay counts as connected: whatever switches, failures and WireGuard
\* timeouts came before (Work, RedirectAs, setRelayedProxy, the callbacks).
RelayWorks ==
    Live /\ prio = Relay /\ downs = 0 =>
        /\ proxy.conn # None /\ proxy.as = "proxy" /\ proxy.reader = "reads"
        /\ "relay" \in up

\* As long as WireGuard takes its updates, it sends to the transport that
\* currentConnPriority names, or for the responder will when the delayed
\* update runs (the proxy's address stands for ICE only if ICE has a proxy);
\* the initiator's endpoint is gone when there is no transport.
EndpointMatches ==
    LET next == IF wg.delayed = "no" THEN wg.endpoint ELSE wg.delayed
    IN  Live /\ count.faults = 0 =>
            /\ prio = Relay => next = "proxy"
            /\ prio \in ICEPrios => next = "ice" \/ (next = "proxy" /\ proxy.turn)
            /\ prio = NoConn /\ controller => next \in {"removed", "none"}

\* An agent that is not closed is the worker's current one: neither new
\* sessions nor failed dials nor timeouts leave an agent with its sockets and
\* goroutines behind (OnNewOffer, closeAgent, WorkerICE.Close).
OneAgent ==
    \A a \in Agents : ag[a].state \in {"checking", "connected", "failed"} => ice.agent = a

\* When the guard has nothing to do because isConnectedOnAllWay says
\* connected, and the remote does ICE, traffic goes over ICE or agentConnecting
\* is set: the status of the transport and currentConnPriority agree, in
\* whatever order the callbacks of the agents and of the relay come.
ConnectedCarries ==
    Live /\ hs.ice /\ ConnStatus = "connected" => ice.connecting \/ prio \in ICEPrios

\* From Close's wait on nothing of the connection is left, and nothing comes
\* back, whatever callback, dial, offer or delayed update is still under way:
\* no transport, proxy or delayed update, nor the peer in WireGuard unless
\* WireGuard refused a call; a relayed connection or an agent only as long as
\* the call that holds it has not run.
CloseLeavesNothing ==
    life \in {"closing", "waiting", "closed"} =>
        /\ prio = NoConn /\ up = {} /\ proxy = NoProxy
        /\ wg.delayed = "no" /\ (count.faults = 0 => wg.endpoint = "removed")
        /\ ready = {} /\ relay.pc = "idle" => relay.live = None
        /\ \A a \in Agents : ag[a].dial = "none" => ag[a].state \in {"unused", "closed"}
=============================================================================
