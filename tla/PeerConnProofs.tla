--------------------------- MODULE PeerConnProofs ---------------------------
(***************************************************************************)
(* Proofs about PeerConn and PeerGuard for any number of offers, agents,    *)
(* relayed connections, watchers, losses and faults.                        *)
(***************************************************************************)
EXTENDS PeerGuard, TLAPS

-----------------------------------------------------------------------------
(* The agents.                                                             *)

AgentRecords ==
    [state : {"unused", "checking", "connected", "failed", "closed"},
     notes : Seq({"up", "down"}), lost : {"no", "closed", "yes"}, session : BOOLEAN,
     turn : BOOLEAN, dial : {"none", "dial", "cancelled", "won", "ready"}]

IceRecords ==
    [agent : Agents \union {None}, dialer : Agents \union {None}, connecting : BOOLEAN,
     session : Sessions, changed : BOOLEAN, known : BOOLEAN]

\* The states of an agent that holds sockets and goroutines.
OpenStates == {"checking", "connected", "failed"}

\* How many notifications an agent can have sent when it is in a state.
Sends == [s \in {"unused", "checking", "connected", "failed", "closed"} |->
              CASE s = "connected" -> 1 [] s = "failed" -> 2 [] s = "closed" -> 3 [] OTHER -> 0]

\* The agents s have their type, one that is not made is not dialed, and none
\* has more notifications waiting than it can have sent.
Sound(s) ==
    /\ s \in [Agents -> AgentRecords]
    /\ \A a \in Agents :
          /\ s[a].state = "unused" => s[a].dial = "none"
          /\ Len(s[a].notes) <= Sends[s[a].state]

\* From the agents s to t none is made or opened, and one that stays open
\* keeps a cancelled dial.
Kept(s, t) ==
    \A a \in Agents :
        /\ t[a].state = "unused" <=> s[a].state = "unused"
        /\ t[a].state \in OpenStates =>
              s[a].state \in OpenStates /\ (s[a].dial = "cancelled" => t[a].dial = "cancelled")

\* Agents are numbered from 1, so None is no agent.
LEMMA NoneIsNoAgent == None \notin Agents /\ Agents \subseteq Nat
BY ConnAssumption DEF None

\* The notifications that wait are counted.
LEMMA LenNat == \A s \in Seq({"up", "down"}) : Len(s) \in Nat
OBVIOUS

\* The notifications an agent can have sent, state by state.
LEMMA SendsValues ==
    /\ Sends["unused"] = 0 /\ Sends["checking"] = 0
    /\ Sends["connected"] = 1 /\ Sends["failed"] = 2 /\ Sends["closed"] = 3
BY DEF Sends

\* A dial's cancel function, which may be nobody's, changes dials only.
LEMMA CancelledKeeps ==
    ASSUME NEW s, Sound(s), NEW x
    PROVE  /\ Sound(Cancelled(s, x)) /\ Kept(s, Cancelled(s, x))
           /\ \A a \in Agents : Cancelled(s, x)[a].state = s[a].state /\ Cancelled(s, x)[a].notes = s[a].notes
<1> DEFINE c == Cancelled(s, x)
<1>1. ASSUME NEW a \in Agents
      PROVE  /\ c[a] \in AgentRecords
             /\ c[a].state = s[a].state /\ c[a].notes = s[a].notes
             /\ s[a].dial = "none" => c[a].dial = "none"
             /\ s[a].dial = "cancelled" => c[a].dial = "cancelled"
  <2>1. s[a] \in AgentRecords
    BY DEF Sound
  <2>2. CASE a = x
    <3>1. c[a] = [s[a] EXCEPT !.dial = IF s[a].dial = "dial" THEN "cancelled" ELSE s[a].dial]
      BY <2>2 DEF Cancelled, Sound
    <3>2. QED
      BY <2>1, <3>1 DEF AgentRecords
  <2>3. CASE a # x
    BY <2>1, <2>3 DEF Cancelled, Sound
  <2>4. QED
    BY <2>2, <2>3
<1>2. c = [a \in Agents |-> c[a]]
  BY Zenon DEF Cancelled, Sound
<1>3. c \in [Agents -> AgentRecords]
  <2> HIDE DEF c
  <2>1. QED
    BY <1>1, <1>2
<1>4. QED
  <2> HIDE DEF c
  <2>1. Sound(c) /\ Kept(s, c) /\ \A a \in Agents : c[a].state = s[a].state /\ c[a].notes = s[a].notes
    BY <1>1, <1>3 DEF Sound, Kept
  <2>2. QED
    BY <2>1 DEF c

\* agent.Close() closes this agent, once, and no other.
LEMMA ClosedKeeps ==
    ASSUME NEW s, Sound(s), NEW x \in Agents, s[x].state # "unused"
    PROVE  /\ Sound(AgentClosed(s, x)) /\ Kept(s, AgentClosed(s, x))
           /\ AgentClosed(s, x)[x].state = "closed"
<1> DEFINE d == AgentClosed(s, x)
<1>1. CASE s[x].state = "closed"
  BY <1>1 DEF AgentClosed, Kept
<1>2. CASE s[x].state # "closed"
  <2> DEFINE n == Append(s[x].notes, "down")
             r == [s[x] EXCEPT !.state = "closed", !.notes = n]
  <2>1. s[x] \in AgentRecords /\ s[x].notes \in Seq({"up", "down"})
    BY DEF Sound, AgentRecords
  <2>2. n \in Seq({"up", "down"}) /\ Len(n) = Len(s[x].notes) + 1 /\ Len(s[x].notes) \in Nat
    BY <2>1
  <2>3. Len(s[x].notes) <= 2
    <3>1. s[x].state \in {"unused", "checking", "connected", "failed"} /\ Len(s[x].notes) <= Sends[s[x].state]
      BY <1>2, <2>1 DEF Sound, AgentRecords
    <3>2. QED
      BY <2>2, <3>1, SendsValues
  <2>4. Len(n) <= 3
    BY <2>2, <2>3
  <2> HIDE DEF n
  <2>5. r \in AgentRecords /\ r.state = "closed" /\ r.notes = n /\ r.dial = s[x].dial
    BY <2>1, <2>2, Zenon DEF AgentRecords
  <2>6. d = [s EXCEPT ![x] = r]
    BY <1>2, Zenon DEF AgentClosed, Sound, n
  <2> HIDE DEF r, d
  <2>7. d \in [Agents -> AgentRecords] /\ d[x] = r /\ \A a \in Agents : a # x => d[a] = s[a]
    BY <2>5, <2>6 DEF Sound
  <2>9. Sound(d)
    BY <2>4, <2>5, <2>7, SendsValues DEF Sound
  <2>10. Kept(s, d) /\ d[x].state = "closed"
    BY <2>5, <2>7 DEF Kept, OpenStates
  <2>11. QED
    BY <2>9, <2>10 DEF d
<1>3. QED
  BY <1>1, <1>2

\* Steps that keep the agents one after another keep them.
LEMMA KeptTwice ==
    ASSUME NEW r, NEW s, NEW t, Kept(r, s), Kept(s, t)
    PROVE  Kept(r, t)
BY DEF Kept

\* The worker has its type, and its agent has been made.
WorkerSound ==
    /\ Sound(ag) /\ ice \in IceRecords
    /\ ice.agent # None => ag[ice.agent].state # "unused"

\* What steps other than the making of an agent do: the worker keeps its agent,
\* or gives up one that is closed.
Followed ==
    /\ Sound(ag') /\ Kept(ag, ag') /\ ice' \in IceRecords
    /\ \/ ice'.agent = ice.agent
       \/ ice'.agent = None /\ (ice.agent # None => ag'[ice.agent].state = "closed")

\* An agent finds or loses its pair, its dial is answered, its loss passes
\* through lastKnownState, the callbacks take over.
LEMMA AgentFollows ==
    ASSUME WorkerSound, NEW a \in Agents,
           \/ AgentConnects(a) \/ AgentFails(a) \/ DialSucceeds(a) \/ LastKnownState(a)
           \/ OnICEStateDisconnected(a) \/ \E p \in Pairs : OnICEConnectionIsReady(a, p)
    PROVE  Followed /\ ice'.agent = ice.agent
<1> DEFINE r == ag[a]
           n == r.notes
<1>0. /\ r \in AgentRecords /\ n \in Seq({"up", "down"}) /\ Len(n) \in Nat
      /\ Len(n) <= Sends[r.state] /\ ag \in [Agents -> AgentRecords]
      /\ r.state = "unused" => r.dial = "none"
  BY DEF WorkerSound, Sound, AgentRecords
<1> SUFFICES ASSUME NEW q \in AgentRecords, ag' = [ag EXCEPT ![a] = q],
                    q.state = "unused" => q.dial = "none", Len(q.notes) <= Sends[q.state],
                    q.state = "unused" <=> r.state = "unused",
                    q.state \in OpenStates =>
                        r.state \in OpenStates /\ (r.dial = "cancelled" => q.dial = "cancelled"),
                    ice' \in IceRecords, ice'.agent = ice.agent
             PROVE  Followed
  <2> DEFINE Change(q) ==
          /\ q \in AgentRecords /\ ag' = [ag EXCEPT ![a] = q]
          /\ q.state = "unused" => q.dial = "none"
          /\ Len(q.notes) <= Sends[q.state]
          /\ q.state = "unused" <=> r.state = "unused"
          /\ q.state \in OpenStates =>
                r.state \in OpenStates /\ (r.dial = "cancelled" => q.dial = "cancelled")
          /\ ice' \in IceRecords /\ ice'.agent = ice.agent
  <2>0. Append(n, "up") \in Seq({"up", "down"}) /\ Append(n, "down") \in Seq({"up", "down"})
        /\ Len(Append(n, "up")) = Len(n) + 1 /\ Len(Append(n, "down")) = Len(n) + 1
    BY <1>0
  <2>1. CASE AgentConnects(a)
    <3> DEFINE q == [r EXCEPT !.state = "connected", !.notes = Append(n, "up"),
                              !.dial = IF r.dial = "dial" THEN "won" ELSE r.dial]
    <3>1. r.state = "checking" /\ ag' = [ag EXCEPT ![a] = q] /\ ice' = ice
      BY <1>0, <2>1, Zenon DEF AgentConnects
    <3>2. Len(Append(n, "up")) <= 1
      BY <1>0, <2>0, <3>1, SendsValues
    <3>3. /\ q \in AgentRecords /\ q.state = "connected" /\ q.notes = Append(n, "up")
          /\ r.dial = "cancelled" => q.dial = "cancelled"
      BY <1>0, <2>0, Zenon DEF AgentRecords
    <3> HIDE DEF q, r, n
    <3>4. Change(q)
      BY <3>1, <3>2, <3>3, SendsValues DEF OpenStates, WorkerSound
    <3>5. QED
      BY <3>4, Zenon
  <2>2. CASE AgentFails(a)
    <3> DEFINE q == [r EXCEPT !.state = "failed", !.notes = Append(n, "down")]
    <3>1. r.state \in {"checking", "connected"} /\ ag' = [ag EXCEPT ![a] = q] /\ ice' = ice
      BY <1>0, <2>2, Zenon DEF AgentFails
    <3>2. Len(Append(n, "down")) <= 2
      BY <1>0, <2>0, <3>1, SendsValues
    <3>3. q \in AgentRecords /\ q.state = "failed" /\ q.notes = Append(n, "down") /\ q.dial = r.dial
      BY <1>0, <2>0, Zenon DEF AgentRecords
    <3> HIDE DEF q, r, n
    <3>4. Change(q)
      BY <3>1, <3>2, <3>3, SendsValues DEF OpenStates, WorkerSound
    <3>5. QED
      BY <3>4, ZenonT(30)
  <2>3. CASE DialSucceeds(a)
    <3> DEFINE q == [r EXCEPT !.dial = "ready"]
    <3>1. r.dial = "won" /\ ag' = [ag EXCEPT ![a] = q] /\ ice' = [ice EXCEPT !.connecting = FALSE]
      BY <1>0, <2>3 DEF DialSucceeds
    <3>2. ice' \in IceRecords /\ ice'.agent = ice.agent
      BY <3>1, Zenon DEF IceRecords, WorkerSound
    <3>3. q \in AgentRecords /\ q.state = r.state /\ q.notes = n
      BY <1>0, Zenon DEF AgentRecords
    <3> HIDE DEF q
    <3>4. Change(q)
      BY <1>0, <3>1, <3>2, <3>3 DEF OpenStates
    <3>5. QED
      BY <3>4, Zenon
  <2>4. CASE LastKnownState(a) \/ OnICEStateDisconnected(a)
    <3>1. PICK l \in {"no", "yes"}, s \in BOOLEAN : ag' = [ag EXCEPT ![a] = [r EXCEPT !.lost = l, !.session = s]]
      <4>1. r.session \in BOOLEAN /\ [r EXCEPT !.lost = "yes"] = [r EXCEPT !.lost = "yes", !.session = r.session]
        BY <1>0, Zenon DEF AgentRecords
      <4>2. \/ ag' = [ag EXCEPT ![a] = [r EXCEPT !.lost = "yes"]]
            \/ ag' = [ag EXCEPT ![a] = [r EXCEPT !.lost = "no", !.session = FALSE]]
        BY <1>0, <2>4, Zenon DEF LastKnownState, OnICEStateDisconnected
      <4>3. QED
        BY <4>1, <4>2, Zenon
    <3> DEFINE q == [r EXCEPT !.lost = l, !.session = s]
    <3>2. ice' \in IceRecords /\ ice'.agent = ice.agent
      <4>1. ice' = ice \/ ice' = [ice EXCEPT !.known = FALSE]
        BY <2>4 DEF LastKnownState, OnICEStateDisconnected
      <4>2. QED
        BY <4>1, Zenon DEF IceRecords, WorkerSound
    <3>3. q \in AgentRecords /\ q.state = r.state /\ q.notes = n /\ q.dial = r.dial
      BY <1>0, Zenon DEF AgentRecords
    <3> HIDE DEF q
    <3>4. Change(q)
      BY <1>0, <3>1, <3>2, <3>3 DEF OpenStates, q
    <3>5. QED
      BY <3>4, Zenon
  <2>5. CASE \E p \in Pairs : OnICEConnectionIsReady(a, p)
    <3> DEFINE q == [r EXCEPT !.dial = "none"]
    <3>1. r.dial = "ready" /\ ag' = [ag EXCEPT ![a] = q] /\ ice' = ice
      BY <1>0, <2>5 DEF OnICEConnectionIsReady
    <3>3. q \in AgentRecords /\ q.state = r.state /\ q.notes = n /\ q.dial = "none"
      BY <1>0, Zenon DEF AgentRecords
    <3> HIDE DEF q
    <3>4. Change(q)
      BY <1>0, <3>1, <3>3 DEF OpenStates, WorkerSound
    <3>5. QED
      BY <3>4, ZenonT(30)
  <2>6. QED
    BY <2>1, <2>2, <2>3, <2>4, <2>5
<1>1. Sound(ag') /\ ag'[a] = q /\ \A b \in Agents : b # a => ag'[b] = ag[b]
  <2>1. Sound(ag)
    BY DEF WorkerSound
  <2>2. ag' \in [Agents -> AgentRecords] /\ ag'[a] = q /\ \A b \in Agents : b # a => ag'[b] = ag[b]
    BY <2>1 DEF Sound
  <2>3. QED
    BY <2>1, <2>2 DEF Sound
<1>2. QED
  BY <1>1 DEF Followed, Kept

\* A dial fails: its agent is closed, and the worker's if it is the same.
LEMMA DialFailsFollows ==
    ASSUME WorkerSound, NEW a \in Agents, DialFails(a)
    PROVE  Followed
<1> DEFINE q == [ag[a] EXCEPT !.dial = "none"]
           e == [ag EXCEPT ![a] = q]
           c == Cancelled(e, ice.dialer)
<1>1. ag[a] \in AgentRecords /\ ag \in [Agents -> AgentRecords] /\ Sound(ag)
  BY DEF WorkerSound, Sound
<1>2. /\ ag[a].state # "unused"
      /\ ag' = AgentClosed(c, a) /\ ice' = Released(a)
  BY <1>1 DEF DialFails, Sound
<1>3. q \in AgentRecords /\ q.state = ag[a].state /\ q.notes = ag[a].notes /\ q.dial = "none"
  BY <1>1, Zenon DEF AgentRecords
<1> HIDE DEF q
<1>4. e \in [Agents -> AgentRecords] /\ e[a] = q /\ \A b \in Agents : b # a => e[b] = ag[b]
  BY <1>1, <1>3
<1> HIDE DEF e
<1>5. Sound(e)
  BY <1>1, <1>3, <1>4 DEF Sound
<1>6. Sound(c) /\ Kept(e, c) /\ c[a].state # "unused"
  BY <1>2, <1>3, <1>4, <1>5, CancelledKeeps
<1> HIDE DEF c
<1>7. Sound(ag') /\ Kept(c, ag') /\ ag'[a].state = "closed"
  BY <1>2, <1>6, ClosedKeeps
<1>8. Kept(e, ag')
  BY <1>6, <1>7, KeptTwice
<1>9. Kept(ag, ag')
  BY <1>2, <1>4, <1>7, <1>8 DEF Kept, OpenStates
<1>10. /\ ice' \in IceRecords
       /\ ice'.agent = ice.agent \/ (ice'.agent = None /\ ice.agent = a)
  BY <1>2, Zenon DEF Released, IceRecords, WorkerSound, Sessions
<1>11. QED
  BY <1>7, <1>9, <1>10 DEF Followed

\* An agent's notification: the loss of the pair closes the agent.
LEMMA StateChangeFollows ==
    ASSUME WorkerSound, NEW a \in Agents, OnConnectionStateChange(a)
    PROVE  Followed
<1> DEFINE n == ag[a].notes
           q == [ag[a] EXCEPT !.notes = Tail(n)]
           s == [ag EXCEPT ![a] = q]
<1>1. ag[a] \in AgentRecords /\ ag \in [Agents -> AgentRecords] /\ Sound(ag)
  BY DEF WorkerSound, Sound
<1>2. n \in Seq({"up", "down"}) /\ n # <<>> /\ Len(n) <= Sends[ag[a].state]
  BY <1>1 DEF AgentRecords, OnConnectionStateChange, Sound
<1>3. Tail(n) \in Seq({"up", "down"}) /\ Len(Tail(n)) = Len(n) - 1 /\ Len(n) \in Nat /\ Len(n) > 0
  BY <1>2
<1>4. ag[a].state \in {"connected", "failed", "closed"} /\ Len(Tail(n)) <= Sends[ag[a].state]
  <2>1. ag[a].state \in {"unused", "checking", "connected", "failed", "closed"}
    BY <1>1 DEF AgentRecords
  <2>2. QED
    BY <1>2, <1>3, <2>1, SendsValues
<1>5. /\ q \in AgentRecords /\ q.state = ag[a].state /\ q.notes = Tail(n) /\ q.dial = ag[a].dial
  BY <1>1, <1>3, Zenon DEF AgentRecords
<1>6. /\ \/ ag' = s /\ ice' = [ice EXCEPT !.known = TRUE]
         \/ /\ ag' = [AgentClosed(Cancelled(s, a), a) EXCEPT ![a].lost = "closed", ![a].session = ice.changed]
            /\ ice' = Released(a)
  BY <1>1, Zenon DEF OnConnectionStateChange
<1> HIDE DEF q, n
<1>7. s \in [Agents -> AgentRecords] /\ s[a] = q /\ \A b \in Agents : b # a => s[b] = ag[b]
  BY <1>1, <1>5
<1> HIDE DEF s
<1>8. Sound(s) /\ Kept(ag, s)
  BY <1>1, <1>4, <1>5, <1>7, Zenon DEF Sound, Kept, n
<1>9. CASE ag' = s /\ ice' = [ice EXCEPT !.known = TRUE]
  <2>1. ice' \in IceRecords /\ ice'.agent = ice.agent
    BY <1>9, Zenon DEF IceRecords, WorkerSound
  <2>2. QED
    BY <1>8, <1>9, <2>1 DEF Followed
<1>10. CASE /\ ag' = [AgentClosed(Cancelled(s, a), a) EXCEPT ![a].lost = "closed", ![a].session = ice.changed]
            /\ ice' = Released(a)
  <2> DEFINE c == Cancelled(s, a)
             d == AgentClosed(c, a)
             r == [d[a] EXCEPT !.lost = "closed", !.session = ice.changed]
  <2>1. Sound(c) /\ Kept(s, c) /\ c[a].state # "unused"
    BY <1>4, <1>5, <1>7, <1>8, CancelledKeeps
  <2> HIDE DEF c
  <2>2. Sound(d) /\ Kept(c, d) /\ d[a].state = "closed"
    BY <2>1, ClosedKeeps
  <2> HIDE DEF d
  <2>3. Kept(ag, d)
    BY <1>8, <2>1, <2>2, KeptTwice
  <2>4. d[a] \in AgentRecords /\ ice.changed \in BOOLEAN
    BY <2>2 DEF Sound, IceRecords, WorkerSound
  <2>5. r \in AgentRecords /\ r.state = d[a].state /\ r.notes = d[a].notes /\ r.dial = d[a].dial
    BY <2>4, Zenon DEF AgentRecords
  <2>6. ag' = [d EXCEPT ![a] = r]
    BY <1>10, <2>2, Zenon DEF Sound, d, c
  <2> HIDE DEF r
  <2>7. ag' \in [Agents -> AgentRecords] /\ ag'[a] = r /\ \A b \in Agents : b # a => ag'[b] = d[b]
    BY <2>2, <2>5, <2>6 DEF Sound
  <2>8. Sound(ag') /\ Kept(d, ag')
    BY <2>2, <2>5, <2>7 DEF Sound, Kept
  <2>9. Kept(ag, ag') /\ ag'[a].state = "closed"
    BY <2>2, <2>3, <2>5, <2>7, <2>8, KeptTwice
  <2>10. /\ ice' \in IceRecords
         /\ ice'.agent = ice.agent \/ (ice'.agent = None /\ ice.agent = a)
    BY <1>10, Zenon DEF Released, IceRecords, WorkerSound, Sessions
  <2>11. QED
    BY <2>8, <2>9, <2>10 DEF Followed
<1>11. QED
  BY <1>6, <1>9, <1>10

\* The contexts of all dials at once: no open agent keeps a dial that could
\* still be answered.
LEMMA CancelDialsKeeps ==
    ASSUME NEW s, Sound(s)
    PROVE  /\ Sound(CancelDials(s)) /\ Kept(s, CancelDials(s))
           /\ \A a \in Agents : CancelDials(s)[a].state = s[a].state
<1> DEFINE c == CancelDials(s)
<1>1. ASSUME NEW a \in Agents
      PROVE  /\ c[a] = Cancelled(s, a)[a]
             /\ Sound(Cancelled(s, a)) /\ Kept(s, Cancelled(s, a))
             /\ Cancelled(s, a)[a].state = s[a].state
  BY CancelledKeeps DEF CancelDials
<1>2. c = [a \in Agents |-> c[a]]
  BY DEF CancelDials
<1> HIDE DEF c
<1>3. c \in [Agents -> AgentRecords]
  <2>1. \A a \in Agents : c[a] \in AgentRecords
    BY <1>1 DEF Sound
  <2>2. QED
    BY <1>2, <2>1
<1>4. Sound(c) /\ Kept(s, c) /\ \A a \in Agents : c[a].state = s[a].state
  BY <1>1, <1>3 DEF Sound, Kept
<1>5. QED
  BY <1>4 DEF c

\* WorkerICE.Close and Conn.Close close the worker's agent.
LEMMA CloseFollows ==
    ASSUME WorkerSound, ICEClose \/ Close \/ EngineCancels
    PROVE  Followed
<1>1. CASE ice.agent = None
  <2>1. (ag' = ag \/ ag' = CancelDials(ag)) /\ (ice' = ice \/ ice' = [ice EXCEPT !.agent = None])
    BY <1>1 DEF ICEClose, Close, EngineCancels, iceVars
  <2>2. Sound(ag') /\ Kept(ag, ag')
    <3>1. Sound(ag) /\ Kept(ag, ag)
      BY DEF WorkerSound, Kept
    <3>2. QED
      BY <2>1, <3>1, CancelDialsKeeps
  <2>3. ice' \in IceRecords /\ ice'.agent = None
    BY <1>1, <2>1 DEF WorkerSound, IceRecords
  <2>4. QED
    BY <1>1, <2>2, <2>3 DEF Followed
<1>2. CASE ice.agent # None
  <2>1. ice.agent \in Agents /\ ag[ice.agent].state # "unused" /\ Sound(ag) /\ ice \in IceRecords
    BY <1>2 DEF WorkerSound, IceRecords
  <2>2. CASE EngineCancels
    <3>1. ag' = CancelDials(ag) /\ ice' = ice
      BY <2>2 DEF EngineCancels
    <3>2. QED
      BY <2>1, <3>1, CancelDialsKeeps DEF Followed
  <2>3. CASE ICEClose \/ Close
    <3>1. PICK c \in {Cancelled(ag, ice.dialer), CancelDials(ag)} :
             ag' = AgentClosed(c, ice.agent) /\ ice' = [ice EXCEPT !.agent = None]
      BY <1>2, <2>3 DEF ICEClose, Close
    <3>2. Sound(c) /\ Kept(ag, c) /\ c[ice.agent].state # "unused"
      BY <2>1, CancelledKeeps, CancelDialsKeeps
    <3>3. Sound(ag') /\ Kept(c, ag') /\ ag'[ice.agent].state = "closed"
      BY <2>1, <3>1, <3>2, ClosedKeeps
    <3>4. Kept(ag, ag')
      BY <3>2, <3>3, KeptTwice
    <3>5. ice' \in IceRecords /\ ice'.agent = None
      BY <2>1, <3>1 DEF IceRecords
    <3>6. QED
      BY <3>3, <3>4, <3>5 DEF Followed
  <2>4. QED
    BY <2>2, <2>3
<1>3. QED
  BY <1>1, <1>2

CountRecords == [offers : 0 .. MaxOffers, losses : 0 .. MaxLosses, faults : 0 .. MaxFaults]

HsRecords == [listen : {"off", "idle", "ice"}, session : Sessions, turn : BOOLEAN, ice : BOOLEAN]

\* Agents are made in order and at most one for an offer, so that there is one
\* left when Listen handles an offer.
MadeInOrder ==
    \E k \in 0 .. count.offers :
        /\ hs.listen = "ice" => k < count.offers
        /\ \A a \in Agents : ag[a].state # "unused" <=> a <= k

Ending == life \in {"closing", "waiting", "closed"}

\* An agent made after Close has a dial that can only fail, which closes it.
LateDials == Ending => \A a \in Agents : ag[a].state \in OpenStates => ag[a].dial = "cancelled"

AgentsInv == WorkerSound /\ OneAgent /\ MadeInOrder /\ LateDials

\* Steps that make no agent keep all this.
LEMMA FollowedInv ==
    ASSUME AgentsInv, Followed, count \in CountRecords,
           \/ count'.offers = count.offers /\ (hs'.listen = "ice" => hs.listen = "ice")
           \/ count'.offers = count.offers + 1,
           Ending' => Ending \/ ice'.agent = None
    PROVE  AgentsInv'
<1>1. WorkerSound'
  <2>1. Sound(ag') /\ ice' \in IceRecords
    BY DEF Followed
  <2>2. ice'.agent # None => ice'.agent \in Agents /\ ice'.agent = ice.agent
    BY <2>1 DEF Followed, IceRecords
  <2>3. ice'.agent # None => ag'[ice'.agent].state # "unused"
    BY <2>2 DEF Followed, Kept, AgentsInv, WorkerSound
  <2>4. QED
    BY <2>1, <2>3 DEF WorkerSound, Sound
<1>2. OneAgent'
  <2>1. ASSUME NEW a \in Agents, ag'[a].state \in OpenStates
        PROVE  ice'.agent = a
    <3>1. ag[a].state \in OpenStates
      BY <2>1 DEF Followed, Kept
    <3>2. ice.agent = a
      BY <3>1 DEF AgentsInv, OneAgent, OpenStates
    <3>3. QED
      BY <2>1, <3>2, NoneIsNoAgent DEF Followed, OpenStates
  <2>2. QED
    BY <2>1 DEF OneAgent, OpenStates
<1>3. MadeInOrder'
  <2>1. PICK k \in 0 .. count.offers :
           /\ hs.listen = "ice" => k < count.offers
           /\ \A a \in Agents : ag[a].state # "unused" <=> a <= k
    BY DEF AgentsInv, MadeInOrder
  <2>2. count.offers \in Nat
    BY ConnAssumption DEF CountRecords
  <2>3. k \in 0 .. count'.offers /\ (hs'.listen = "ice" => k < count'.offers)
    BY <2>1, <2>2
  <2>4. \A a \in Agents : ag'[a].state # "unused" <=> a <= k
    BY <2>1 DEF Followed, Kept
  <2>5. QED
    BY <2>3, <2>4 DEF MadeInOrder
<1>4. LateDials'
  <2>1. CASE Ending
    BY <2>1 DEF AgentsInv, LateDials, Followed, Kept
  <2>2. CASE ice'.agent = None
    BY <1>2, <2>2, NoneIsNoAgent DEF LateDials, OneAgent, OpenStates
  <2>3. QED
    BY <2>1, <2>2 DEF LateDials
<1>5. QED
  BY <1>1, <1>2, <1>3, <1>4 DEF AgentsInv

\* OnNewOffer makes the next agent, when the one before it is closed.
LEMMA OnNewOfferInv ==
    ASSUME AgentsInv, count \in CountRecords, hs \in HsRecords, OnNewOffer
    PROVE  AgentsInv'
<1> DEFINE n == CHOOSE a \in Agents : ag[a].state = "unused" /\ \A b \in 1 .. a - 1 : ag[b].state # "unused"
           busy == ice.agent # None \/ ice.connecting
           c == Cancelled(ag, ice.dialer)
           s == IF ~busy THEN ag ELSE IF ice.agent = None THEN c ELSE AgentClosed(c, ice.agent)
           i == [ice EXCEPT !.agent = None, !.changed = @ \/ busy]
<1>1. PICK k \in 0 .. count.offers :
         /\ k < count.offers
         /\ \A a \in Agents : ag[a].state # "unused" <=> a <= k
  BY Zenon DEF AgentsInv, MadeInOrder, OnNewOffer
<1>2. count.offers \in Nat /\ count.offers <= MaxOffers /\ k \in Nat
  BY <1>1, ConnAssumption DEF CountRecords
<1>3. k + 1 \in Agents /\ k + 1 <= count.offers
  BY <1>1, <1>2, ConnAssumption
<1>4. n = k + 1
  <2> DEFINE P(a) == ag[a].state = "unused" /\ \A b \in 1 .. a - 1 : ag[b].state # "unused"
  <2>1. P(k + 1)
    BY <1>1, <1>2, <1>3, ConnAssumption
  <2>2. n \in Agents /\ P(n)
    BY <1>3, <2>1
  <2>3. ~(n <= k)
    BY <1>1, <2>2
  <2>4. ~(k + 1 <= n - 1)
    <3>1. ag[k + 1].state = "unused"
      BY <2>1
    <3>2. QED
      BY <1>2, <2>2, <3>1, NoneIsNoAgent
  <2>5. n \in Nat
    BY <2>2, NoneIsNoAgent, Zenon
  <2> HIDE DEF n
  <2>6. QED
    BY <1>2, <2>3, <2>4, <2>5
<1>5. /\ hs' = [hs EXCEPT !.listen = "idle", !.session = None, !.turn = FALSE]
      /\ count'.offers = count.offers
      /\ life' = life
      /\ \/ UNCHANGED iceVars
         \/ /\ ag' = [s EXCEPT ![n].state = "checking", ![n].turn = hs.turn,
                               ![n].dial = IF Live THEN "dial" ELSE "cancelled"]
            /\ ice' = [i EXCEPT !.agent = n, !.dialer = n, !.connecting = TRUE, !.session = hs.session]
         \/ ag' = s /\ ice' = i
  BY ZenonT(30) DEF OnNewOffer, Fault, CountRecords
<1>6. hs'.listen = "idle"
  BY <1>5, Zenon DEF HsRecords
<1>7. /\ Sound(s) /\ Kept(ag, s)
      /\ ice.agent # None => s[ice.agent].state = "closed"
  <2>1. Sound(ag) /\ Kept(ag, ag) /\ ice \in IceRecords
    BY DEF AgentsInv, WorkerSound, Kept
  <2>2. Sound(c) /\ Kept(ag, c)
    BY <2>1, CancelledKeeps
  <2>3. CASE ice.agent # None
    <3>1. ice.agent \in Agents /\ c[ice.agent].state # "unused"
      BY <2>1, <2>2, <2>3 DEF AgentsInv, WorkerSound, Kept, IceRecords
    <3> HIDE DEF c
    <3>2. s = AgentClosed(c, ice.agent)
      BY <2>3
    <3>3. Sound(s) /\ Kept(c, s) /\ s[ice.agent].state = "closed"
      BY <2>2, <3>1, <3>2, ClosedKeeps
    <3> HIDE DEF s
    <3>4. QED
      BY <2>2, <3>3, KeptTwice
  <2>4. CASE ice.agent = None
    BY <2>1, <2>2, <2>4
  <2>5. QED
    BY <2>3, <2>4
<1> HIDE DEF n, s
<1>8. i \in IceRecords /\ i.agent = None
  BY Zenon DEF AgentsInv, WorkerSound, IceRecords
<1> HIDE DEF i
<1>9. CASE UNCHANGED iceVars \/ (ag' = s /\ ice' = i)
  <2>1. Followed
    BY <1>7, <1>8, <1>9 DEF Followed, AgentsInv, WorkerSound, Kept, iceVars
  <2>2. QED
    BY <1>5, <1>6, <2>1, FollowedInv DEF Ending
<1>10. CASE /\ ag' = [s EXCEPT ![n].state = "checking", ![n].turn = hs.turn,
                               ![n].dial = IF Live THEN "dial" ELSE "cancelled"]
            /\ ice' = [i EXCEPT !.agent = n, !.dialer = n, !.connecting = TRUE, !.session = hs.session]
  <2> DEFINE r == [s[n] EXCEPT !.state = "checking", !.turn = hs.turn,
                                !.dial = IF Live THEN "dial" ELSE "cancelled"]
  <2>1. n \in Agents /\ n = k + 1
    BY <1>3, <1>4
  <2>2. s[n] \in AgentRecords /\ s[n].state = "unused" /\ Len(s[n].notes) <= Sends["unused"]
    <3>1. ag[n].state = "unused"
      BY <1>1, <1>2, <2>1
    <3>2. QED
      BY <1>7, <2>1, <3>1 DEF Sound, Kept
  <2>3. /\ r \in AgentRecords /\ r.state = "checking" /\ r.notes = s[n].notes
        /\ r.dial = IF Live THEN "dial" ELSE "cancelled"
    BY <2>2, Zenon DEF AgentRecords, HsRecords
  <2>4. ag' = [s EXCEPT ![n] = r]
    BY <1>7, <1>10, <2>1, Zenon DEF Sound
  <2> HIDE DEF r
  <2>5. ag' \in [Agents -> AgentRecords] /\ ag'[n] = r /\ \A a \in Agents : a # n => ag'[a] = s[a]
    BY <1>7, <2>1, <2>3, <2>4 DEF Sound
  <2>6. Sound(ag')
    BY <1>7, <2>2, <2>3, <2>5, SendsValues DEF Sound
  <2>7. ice' \in IceRecords /\ ice'.agent = n
    BY <1>8, <1>10, <2>1, Zenon DEF IceRecords, HsRecords
  <2>8. ASSUME NEW a \in Agents
        PROVE  s[a].state \notin OpenStates
    BY <1>7, NoneIsNoAgent DEF Kept, AgentsInv, OneAgent, OpenStates
  <2>9. WorkerSound' /\ OneAgent'
    BY <2>1, <2>3, <2>5, <2>6, <2>7, <2>8 DEF WorkerSound, OneAgent, OpenStates, Sound
  <2>10. MadeInOrder'
    <3>1. k + 1 \in 0 .. count'.offers /\ hs'.listen # "ice"
      BY <1>2, <1>3, <1>5, <1>6
    <3>2. ASSUME NEW a \in Agents
          PROVE  ag'[a].state # "unused" <=> a <= k + 1
      <4>1. CASE a = n
        BY <2>1, <2>3, <2>5, <4>1, <1>2
      <4>2. CASE a # n
        <5>1. ag'[a].state # "unused" <=> a <= k
          BY <1>1, <1>7, <2>5, <4>2 DEF Kept
        <5>2. QED
          BY <1>2, <2>1, <4>2, <5>1, NoneIsNoAgent
      <4>3. QED
        BY <4>1, <4>2
    <3>3. QED
      BY <3>1, <3>2 DEF MadeInOrder
  <2>11. LateDials'
    BY <1>5, <2>3, <2>5, <2>8 DEF LateDials, Ending, Live
  <2>12. QED
    BY <2>9, <2>10, <2>11 DEF AgentsInv
<1>11. QED
  BY <1>5, <1>9, <1>10, ZenonT(30)

-----------------------------------------------------------------------------
(* The invariant of the agents in every step.  With the guard the steps of  *)
(* the connection are the same, but for the notes.                          *)

Quiet == UNCHANGED <<controller, life, iceVars, hs, relayVars, connVars, count>>

\* WireGuard's failures are counted within their bound.
LEMMA FaultType ==
    ASSUME count \in CountRecords, Fault
    PROVE  count' \in CountRecords /\ count'.offers = count.offers /\ count'.faults > 0
<1>1. /\ count.faults \in 0 .. MaxFaults /\ count.faults < MaxFaults /\ MaxFaults \in Nat
      /\ count' = [count EXCEPT !.faults = count.faults + 1]
  BY ConnAssumption DEF CountRecords, Fault
<1>2. count.faults + 1 \in 0 .. MaxFaults /\ count.faults + 1 > 0
  BY <1>1
<1>3. QED
  BY <1>1, <1>2 DEF CountRecords

\* The counters and the handshaker keep their types; Listen has an offer for
\* the ICE worker only when one has been counted since it had the last.
LEMMA OfferFrame ==
    ASSUME count \in CountRecords, hs \in HsRecords, Next \/ Quiet
    PROVE  /\ count' \in CountRecords /\ hs' \in HsRecords
           /\ \/ count'.offers = count.offers /\ (hs'.listen = "ice" => hs.listen = "ice")
              \/ count'.offers = count.offers + 1
           /\ count'.faults = count.faults \/ count'.faults > 0
<1>1. CASE Quiet
  BY <1>1 DEF Quiet
<1>2. CASE Open
  BY <1>2 DEF Open, HsRecords
<1>3. CASE CloseUnlocks \/ CloseReturns \/ EngineCancels
  BY <1>3 DEF CloseUnlocks, CloseReturns, EngineCancels
<1>3a. CASE Close
  <2>1. (count' = count \/ Fault) /\ hs' = hs
    BY <1>3a, Zenon DEF Close
  <2>2. QED
    BY <2>1, FaultType
<1>4. CASE ListenReturns
  BY <1>4 DEF ListenReturns, HsRecords
<1>5. CASE OnNewOffer
  <2>1. (count' = count \/ Fault) /\ hs' = [hs EXCEPT !.listen = "idle", !.session = None, !.turn = FALSE]
    BY <1>5, Zenon DEF OnNewOffer
  <2>2. hs' \in HsRecords /\ hs'.listen = "idle"
    BY <2>1, Zenon DEF HsRecords, Sessions
  <2>3. QED
    BY <2>1, <2>2, FaultType, ZenonT(30)
<1>6. ASSUME NEW o \in Offers, ReceiveOffer(o)
      PROVE  /\ count' \in CountRecords /\ hs' \in HsRecords
             /\ count'.offers = count.offers + 1 /\ count'.faults = count.faults
  <2>1. o.ice \in BOOLEAN /\ o.relay \in BOOLEAN /\ o.session \in Sessions /\ None \in Sessions
    BY ConnAssumption DEF Sessions
  <2>2. hs' \in HsRecords
    BY <1>6, <2>1 DEF ReceiveOffer, HsRecords
  <2>3. /\ count.offers \in 0 .. MaxOffers /\ MaxOffers \in Nat /\ count.offers < MaxOffers
        /\ count' = [count EXCEPT !.offers = count.offers + 1]
    BY <1>6, ConnAssumption DEF ReceiveOffer, CountRecords
  <2>4. count.offers + 1 \in 0 .. MaxOffers
    BY <2>3
  <2>5. QED
    BY <2>2, <2>3, <2>4 DEF CountRecords
<1>7. CASE RelayOnNewOffer \/ RelayOpened \/ ReaderEnds
  BY <1>7, Zenon DEF RelayOnNewOffer, RelayOpened, ReaderEnds
<1>8. CASE OnRelayDisconnected
  <2>1. (count' = count \/ Fault) /\ hs' = hs
    BY <1>8 DEF OnRelayDisconnected, Ignored, HandleRelayDisconnected, RemoveEndpointAddress
  <2>2. QED
    BY <2>1, FaultType
<1>9. ASSUME NEW s \in BOOLEAN, RelayFails(s)
      PROVE  count' \in CountRecords /\ hs' = hs /\ count'.offers = count.offers /\ count'.faults = count.faults
  <2>1. /\ count.losses \in 0 .. MaxLosses /\ MaxLosses \in Nat /\ count.losses < MaxLosses
        /\ count' = [count EXCEPT !.losses = count.losses + 1] /\ hs' = hs
    BY <1>9, ConnAssumption DEF RelayFails, CountRecords
  <2>2. count.losses + 1 \in 0 .. MaxLosses
    BY <2>1
  <2>3. QED
    BY <2>1, <2>2 DEF CountRecords
<1>10. ASSUME NEW g \in Relayed, OnRelayConnectionIsReady(g)
       PROVE  (count' = count \/ Fault) /\ hs' = hs
  BY <1>10 DEF OnRelayConnectionIsReady, Ignored
<1>11. CASE DelayedUpdate
  <2>1. (count' = count \/ Fault) /\ hs' = hs
    BY <1>11 DEF DelayedUpdate
  <2>2. QED
    BY <2>1, FaultType
<1>12. ASSUME NEW a \in Agents, Agent(a)
       PROVE  (count' = count \/ Fault) /\ hs' = hs
  <2>1. CASE AgentConnects(a) \/ AgentFails(a) \/ DialSucceeds(a) \/ OnConnectionStateChange(a) \/ LastKnownState(a)
    BY <2>1, Zenon DEF AgentConnects, AgentFails, DialSucceeds, OnConnectionStateChange, LastKnownState
  <2>2. CASE DialFails(a)
    BY <2>2 DEF DialFails
  <2>3. CASE OnICEStateDisconnected(a)
    BY <2>3 DEF OnICEStateDisconnected, Ignored, RemoveEndpointAddress
  <2>4. CASE \E p \in Pairs : OnICEConnectionIsReady(a, p)
    BY <2>4, ZenonT(30) DEF OnICEConnectionIsReady, Ignored
  <2>5. QED
    BY <1>12, <2>1, <2>2, <2>3, <2>4, ZenonT(30) DEF Agent
<1>13. ASSUME NEW w \in Watchers, Watcher(w)
       PROVE  (count' = count \/ Fault) /\ hs' = hs
  BY <1>13 DEF Watcher, WatcherStarts, WatcherEnds, WatcherExits, OnWGDisconnected, HandleRelayDisconnected,
               RemoveEndpointAddress
<1>14. QED
  BY <1>1, <1>2, <1>3, <1>3a, <1>4, <1>5, <1>6, <1>7, <1>8, <1>9, <1>10, <1>11, <1>12, <1>13, FaultType
     DEF Next, ConnStep, ListenStep, RelayStep

\* The life of the connection goes one way, and ends with Close.
LEMMA LifeFrame ==
    ASSUME Next \/ Quiet
    PROVE  \/ life' = life
           \/ Open /\ life = "new" /\ life' = "open"
           \/ EngineCancels /\ life = "open" /\ life' = "cancelled"
           \/ Close /\ life \in {"open", "cancelled"} /\ life' = "closing"
           \/ CloseUnlocks /\ life = "closing" /\ life' = "waiting"
           \/ CloseReturns /\ life = "waiting" /\ life' = "closed"
<1>1. CASE Quiet
  BY <1>1 DEF Quiet
<1>2. CASE Open \/ CloseUnlocks \/ CloseReturns \/ EngineCancels
  BY <1>2, ZenonT(30) DEF Open, CloseUnlocks, CloseReturns, EngineCancels, Live
<1>2a. CASE Close
  BY <1>2a, ZenonT(30) DEF Close
<1>3. CASE ListenStep
  BY <1>3, ZenonT(30) DEF ListenStep, OnNewOffer, ListenReturns, ReceiveOffer
<1>4. CASE RelayStep
  BY <1>4, Zenon DEF RelayStep, RelayOnNewOffer, RelayOpened, ReaderEnds, OnRelayDisconnected, RelayFails,
              OnRelayConnectionIsReady
<1>5. CASE DelayedUpdate
  BY <1>5, ZenonT(30) DEF DelayedUpdate
<1>6. ASSUME NEW a \in Agents, Agent(a)
      PROVE  life' = life
  BY <1>6, Zenon DEF Agent, AgentConnects, AgentFails, DialSucceeds, DialFails, OnConnectionStateChange,
              LastKnownState, OnICEStateDisconnected, OnICEConnectionIsReady
<1>7. ASSUME NEW w \in Watchers, Watcher(w)
      PROVE  life' = life
  BY <1>7 DEF Watcher, WatcherStarts, WatcherEnds, WatcherExits, OnWGDisconnected
<1>8. QED
  BY <1>1, <1>2, <1>2a, <1>3, <1>4, <1>5, <1>6, <1>7 DEF Next, ConnStep

\* Every step keeps the invariant of the agents.
LEMMA AgentsNext ==
    ASSUME AgentsInv, count \in CountRecords, hs \in HsRecords, Next \/ Quiet
    PROVE  AgentsInv'
<1>0. WorkerSound
  BY DEF AgentsInv
<1>1. CASE OnNewOffer
  BY <1>1, OnNewOfferInv
<1>2. ASSUME ~OnNewOffer
      PROVE  Followed
  <2>0. UNCHANGED iceVars => Followed
    BY <1>0 DEF Followed, WorkerSound, Kept, iceVars
  <2>1. CASE Quiet
    BY <2>0, <2>1 DEF Quiet
  <2>2. CASE Open \/ CloseUnlocks \/ CloseReturns
    BY <2>0, <2>2 DEF Open, CloseUnlocks, CloseReturns
  <2>3. CASE EngineCancels \/ Close
    BY <1>0, <2>3, CloseFollows
  <2>4. CASE ListenStep
    <3>1. UNCHANGED iceVars \/ ICEClose
      BY <1>2, <2>4, ZenonT(30) DEF ListenStep, ListenReturns, ReceiveOffer
    <3>2. QED
      BY <1>0, <2>0, <3>1, CloseFollows, ZenonT(30)
  <2>5. CASE RelayStep
    BY <2>0, <2>5, Zenon DEF RelayStep, RelayOnNewOffer, RelayOpened, ReaderEnds, OnRelayDisconnected, RelayFails,
                      OnRelayConnectionIsReady
  <2>6. CASE DelayedUpdate
    BY <2>0, <2>6 DEF DelayedUpdate
  <2>7. ASSUME NEW a \in Agents, Agent(a)
        PROVE  Followed
    BY <1>0, <2>7, AgentFollows, DialFailsFollows, StateChangeFollows DEF Agent
  <2>8. ASSUME NEW w \in Watchers, Watcher(w)
        PROVE  Followed
    <3>1. UNCHANGED iceVars \/ ICEClose
      BY <2>8 DEF Watcher, WatcherStarts, WatcherEnds, WatcherExits, OnWGDisconnected
    <3>2. QED
      BY <1>0, <2>0, <3>1, CloseFollows
  <2>9. QED
    BY <2>1, <2>2, <2>3, <2>4, <2>5, <2>6, <2>7, <2>8 DEF Next, ConnStep
<1>3. Ending' => Ending \/ ice'.agent = None
  <2>1. CASE Close
    BY <1>0, <2>1 DEF Close, WorkerSound, IceRecords
  <2>2. CASE ~Close
    BY <2>2, LifeFrame DEF Ending
  <2>3. QED
    BY <2>1, <2>2
<1>4. QED
  BY <1>1, <1>2, <1>3, OfferFrame, FollowedInv

-----------------------------------------------------------------------------
(* The relayed connections.                                                *)

RelayRecords ==
    [pc : {"idle", "offer", "opened"}, addr : BOOLEAN, latest : SUBSET BOOLEAN, supported : BOOLEAN,
     made : Relayed \union {None}, conn : Relayed \union {None}, live : Relayed \union {None}, listens : BOOLEAN]

\* Of the relayed connections only the last one made may be alive, and when
\* OpenConn has returned it is the worker's.  After Close a live one is on its
\* way to the callback that closes it.
RelayInv ==
    /\ relay \in RelayRecords /\ ready \subseteq Relayed
    /\ relay.pc = "opened" => relay.made # None
    /\ relay.live # None => relay.live = relay.made /\ (relay.pc = "opened" \/ relay.conn = relay.made)
    /\ Ending /\ relay.live # None => relay.pc = "opened" \/ relay.live \in ready

\* The listener goes on with the latest offer, or waits; the connections stay.
LEMMA LoopedType ==
    ASSUME NEW r \in RelayRecords
    PROVE  /\ Looped(r) \in RelayRecords /\ Looped(r).pc # "opened"
           /\ Looped(r).made = r.made /\ Looped(r).conn = r.conn /\ Looped(r).live = r.live
<1>1. CASE r.latest = {}
  BY <1>1, Zenon DEF Looped, RelayRecords
<1>2. CASE r.latest # {}
  <2> DEFINE x == CHOOSE x \in r.latest : TRUE
  <2>1. x \in r.latest /\ r.latest \subseteq BOOLEAN
    BY <1>2 DEF RelayRecords
  <2>2. x \in BOOLEAN
    BY <2>1
  <2>3. Looped(r) = [r EXCEPT !.pc = "offer", !.addr = x, !.latest = {}]
    BY <1>2 DEF Looped
  <2> HIDE DEF x
  <2>4. QED
    BY <2>2, <2>3, Zenon DEF RelayRecords
<1>3. QED
  BY <1>1, <1>2

\* closeConn ends this connection, or nothing.
LEMMA DroppedType ==
    ASSUME NEW r \in RelayRecords, NEW g
    PROVE  /\ Dropped(r, g) \in RelayRecords
           /\ Dropped(r, g).live = None \/ (Dropped(r, g).live = r.live /\ (g # None => r.live # g))
           /\ Dropped(r, g).pc = r.pc /\ Dropped(r, g).made = r.made /\ Dropped(r, g).conn = r.conn
BY DEF Dropped, RelayRecords

\* Connections that are closed, wherever, leave the rest true.
LEMMA DroppedInv ==
    ASSUME RelayInv, relay' \in RelayRecords, ready' = ready,
           relay'.pc = relay.pc, relay'.made = relay.made, relay'.conn = relay.conn,
           relay'.live = None \/ relay'.live = relay.live, Ending' => Ending
    PROVE  RelayInv'
BY DEF RelayInv

\* Every step keeps the invariant of the relayed connections.
LEMMA RelayNext ==
    ASSUME RelayInv, Next \/ Quiet
    PROVE  RelayInv'
<1>0. relay \in RelayRecords /\ ready \subseteq Relayed
  BY DEF RelayInv
<1>1. CASE Close
  <2> DEFINE d == Dropped(relay, relay.conn)
  <2>1. /\ relay' = Dropped(d, proxy.conn) /\ ready' = ready
        /\ ~Ending /\ Ending'
    BY <1>1 DEF Close, Ending
  <2>2. /\ d \in RelayRecords
        /\ d.live = None \/ (d.live = relay.live /\ (relay.conn # None => relay.live # relay.conn))
        /\ d.pc = relay.pc /\ d.made = relay.made /\ d.conn = relay.conn
    BY <1>0, DroppedType
  <2> HIDE DEF d
  <2>3. /\ relay' \in RelayRecords /\ (relay'.live = None \/ relay'.live = d.live)
        /\ relay'.pc = d.pc /\ relay'.made = d.made /\ relay'.conn = d.conn
    BY <2>1, <2>2, DroppedType
  <2>4. relay.live # None => relay.live = relay.made /\ (relay.pc = "opened" \/ relay.conn = relay.made)
    BY DEF RelayInv
  <2>5. relay'.live # None => relay'.pc = "opened" /\ relay'.live = relay'.made
    BY <2>2, <2>3, <2>4
  <2>6. QED
    BY <1>0, <2>1, <2>2, <2>3, <2>5 DEF RelayInv
<1>2. ASSUME ~Close
      PROVE  Ending' => Ending
  BY <1>2, LifeFrame DEF Ending
<1>3. CASE ~Close /\ UNCHANGED <<relay, ready>>
  BY <1>2, <1>3 DEF RelayInv
<1>4. ASSUME ~Close, NEW o \in Offers, ReceiveOffer(o)
      PROVE  RelayInv'
  <2>1. o.relay \in BOOLEAN
    BY ConnAssumption
  <2>2. /\ \/ relay.pc = "idle" /\ relay' = [relay EXCEPT !.pc = "offer", !.addr = o.relay, !.latest = {o.relay}]
           \/ relay' = [relay EXCEPT !.latest = {o.relay}]
        /\ ready' = ready
    BY <1>4 DEF ReceiveOffer
  <2>3. /\ relay' \in RelayRecords /\ relay'.live = relay.live /\ relay'.made = relay.made /\ relay'.conn = relay.conn
        /\ relay'.pc = relay.pc \/ (relay.pc = "idle" /\ relay'.pc = "offer")
    <3> DEFINE x == o.relay
               l == {x}
    <3>1. x \in BOOLEAN /\ l \in SUBSET BOOLEAN
      BY <2>1
    <3> HIDE DEF x, l
    <3>2. CASE relay.pc = "idle" /\ relay' = [relay EXCEPT !.pc = "offer", !.addr = x, !.latest = l]
      BY <1>0, <3>1, <3>2, Zenon DEF RelayRecords
    <3>3. CASE relay' = [relay EXCEPT !.latest = l]
      BY <1>0, <3>1, <3>3 DEF RelayRecords
    <3>4. QED
      BY <2>2, <3>2, <3>3 DEF x, l
  <2>4. QED
    BY <1>2, <1>4, <2>2, <2>3 DEF RelayInv
<1>5. CASE ~Close /\ RelayOnNewOffer
  <2> DEFINE r == [relay EXCEPT !.supported = relay.addr]
  <2>1. /\ r \in RelayRecords /\ r.pc = "offer" /\ r.made = relay.made /\ r.conn = relay.conn /\ r.live = relay.live
        /\ ready' = ready
    BY <1>0, <1>5 DEF RelayRecords, RelayOnNewOffer
  <2>2. CASE relay' = Looped(r)
    <3> HIDE DEF r
    <3>1. /\ relay' \in RelayRecords /\ relay'.pc # "opened"
          /\ relay'.made = relay.made /\ relay'.conn = relay.conn /\ relay'.live = relay.live
      BY <2>1, <2>2, LoopedType
    <3>2. relay.pc = "offer"
      BY <1>5 DEF RelayOnNewOffer
    <3>3. QED
      BY <1>2, <1>5, <2>1, <3>1, <3>2 DEF RelayInv
  <2>3. CASE /\ relay.made + 1 \in Relayed
             /\ relay' = [r EXCEPT !.pc = "opened", !.made = relay.made + 1, !.live = relay.made + 1]
    <3>1. /\ relay' \in RelayRecords /\ relay'.pc = "opened"
          /\ relay'.made = relay.made + 1 /\ relay'.live = relay.made + 1
      BY <2>1, <2>3, ZenonT(30) DEF RelayRecords
    <3>2. relay.made + 1 # None
      BY <2>3, ConnAssumption DEF None
    <3>3. QED
      BY <1>0, <2>1, <3>1, <3>2 DEF RelayInv
  <2>4. QED
    BY <1>5, <2>1, <2>2, <2>3 DEF RelayOnNewOffer
<1>6. CASE ~Close /\ RelayOpened
  <2>1. relay.pc = "opened" /\ relay.made \in Relayed /\ (relay.live # None => relay.live = relay.made)
    BY <1>0, <1>6, Zenon DEF RelayOpened, RelayInv, RelayRecords
  <2>2. PICK r \in RelayRecords :
           /\ r.conn = relay.made /\ r.made = relay.made /\ r.live = relay.live
           /\ relay' = Looped(r)
           /\ ready' = ready \union {relay.made} \/ (relay.live = None /\ ready' = ready)
    <3>1. ASSUME NEW l \in BOOLEAN
          PROVE  LET r == [relay EXCEPT !.conn = relay.made, !.listens = relay.listens \/ l]
                 IN  r \in RelayRecords /\ r.conn = relay.made /\ r.made = relay.made /\ r.live = relay.live
      BY <1>0, <2>1, Zenon DEF RelayRecords
    <3>2. LET r == [relay EXCEPT !.conn = relay.made]
          IN  r \in RelayRecords /\ r.conn = relay.made /\ r.made = relay.made /\ r.live = relay.live
      BY <1>0, <2>1 DEF RelayRecords
    <3>3. \/ /\ \E l \in BOOLEAN : relay' = Looped([relay EXCEPT !.conn = relay.made, !.listens = relay.listens \/ l])
             /\ ready' = ready \union {relay.made}
          \/ relay.live = None /\ relay' = Looped([relay EXCEPT !.conn = relay.made]) /\ ready' = ready
      BY <1>6, Zenon DEF RelayOpened
    <3>4. QED
      BY <3>1, <3>2, <3>3, Zenon
  <2>3. /\ relay' \in RelayRecords /\ relay'.pc # "opened"
        /\ relay'.made = relay.made /\ relay'.conn = relay.made /\ relay'.live = relay.live
    BY <2>2, LoopedType
  <2>4. QED
    BY <1>0, <2>1, <2>2, <2>3 DEF RelayInv
<1>7. ASSUME ~Close, NEW s \in BOOLEAN, RelayFails(s)
      PROVE  RelayInv'
  <2>1. relay' = [relay EXCEPT !.live = None, !.listens = relay.listens /\ ~s] /\ ready' = ready
    BY <1>7 DEF RelayFails
  <2>2. /\ relay' \in RelayRecords /\ relay'.pc = relay.pc /\ relay'.made = relay.made /\ relay'.conn = relay.conn
        /\ relay'.live = None
    BY <1>0, <2>1, Zenon DEF RelayRecords
  <2>3. QED
    BY <1>2, <1>7, <2>1, <2>2, DroppedInv
<1>8. ASSUME ~Close, NEW g \in Relayed, OnRelayConnectionIsReady(g)
      PROVE  RelayInv'
  <2>1. PICK h : /\ relay' = Dropped(relay, h) /\ ready' = ready \ {g}
                 /\ Ending => h = g
    BY <1>8 DEF OnRelayConnectionIsReady, Ignored, Ending, Live
  <2>2. /\ relay' \in RelayRecords
        /\ relay'.live = None \/ (relay'.live = relay.live /\ (h # None => relay.live # h))
        /\ relay'.pc = relay.pc /\ relay'.made = relay.made /\ relay'.conn = relay.conn
    BY <1>0, <2>1, DroppedType
  <2>3. g # None
    BY ConnAssumption DEF None
  <2>4. Ending' => Ending
    BY <1>2, <1>8
  <2>5. QED
    BY <2>1, <2>2, <2>3, <2>4 DEF RelayInv
<1>9. ASSUME ~Close, OnRelayDisconnected \/ \E w \in Watchers : OnWGDisconnected(w)
      PROVE  RelayInv'
  <2>1. /\ \/ relay' = relay
           \/ relay' = Dropped(relay, proxy.conn)
           \/ relay' = Dropped(Dropped(relay, relay.conn), proxy.conn)
        /\ ready' = ready
    BY <1>9, ZenonT(30) DEF OnRelayDisconnected, OnWGDisconnected, HandleRelayDisconnected
  <2>2. /\ relay' \in RelayRecords
        /\ relay'.live = None \/ relay'.live = relay.live
        /\ relay'.pc = relay.pc /\ relay'.made = relay.made /\ relay'.conn = relay.conn
    BY <1>0, <2>1, DroppedType
  <2>3. QED
    BY <1>2, <1>9, <2>1, <2>2, DroppedInv
<1>10. CASE Quiet \/ Open \/ CloseUnlocks \/ CloseReturns \/ EngineCancels
  BY <1>3, <1>10, <1>1 DEF Quiet, Open, CloseUnlocks, CloseReturns, EngineCancels, relayVars
<1>11. CASE OnNewOffer \/ ListenReturns \/ ReaderEnds \/ DelayedUpdate
  BY <1>1, <1>3, <1>11, Zenon DEF OnNewOffer, ListenReturns, ReaderEnds, DelayedUpdate, relayVars
<1>12. ASSUME NEW a \in Agents, Agent(a)
       PROVE  UNCHANGED <<relay, ready>>
  BY <1>12, Zenon DEF Agent, AgentConnects, AgentFails, DialSucceeds, DialFails, OnConnectionStateChange,
              LastKnownState, OnICEStateDisconnected, OnICEConnectionIsReady, relayVars
<1>13. ASSUME NEW w \in Watchers, WatcherStarts(w) \/ WatcherEnds(w) \/ WatcherExits(w)
       PROVE  UNCHANGED <<relay, ready>>
  BY <1>13, ZenonT(30) DEF WatcherStarts, WatcherEnds, WatcherExits, relayVars
<1>14. QED
  BY <1>1, <1>3, <1>4, <1>5, <1>6, <1>7, <1>8, <1>9, <1>10, <1>11, <1>12, <1>13
     DEF Next, ConnStep, ListenStep, RelayStep, Watcher

-----------------------------------------------------------------------------
(* The watcher's type.                                                     *)

WatcherStates == {"done", "starting", "running", "fired", "exit"}

WatchRecords ==
    [enabled : BOOLEAN, cancel : Watchers \union {None}, cancelled : SUBSET Watchers,
     pc : [Watchers -> WatcherStates]]

\* enableWgWatcherIfNeeded keeps the type.
LEMMA WatchingType ==
    ASSUME watch \in WatchRecords
    PROVE  Watching \subseteq WatchRecords
<1>1. ASSUME NEW w \in Idle
      PROVE  [watch EXCEPT !.cancel = w, !.pc[w] = "starting", !.cancelled = @ \ {w}] \in WatchRecords
  <2>1. w \in Watchers /\ watch.cancelled \ {w} \in SUBSET Watchers
    BY DEF Idle, WatchRecords
  <2>2. [watch.pc EXCEPT ![w] = "starting"] \in [Watchers -> WatcherStates]
    BY <2>1 DEF WatchRecords, WatcherStates
  <2>3. QED
    BY <2>1, <2>2, Zenon DEF WatchRecords
<1>2. QED
  BY <1>1, Zenon DEF Watching

\* disableWgWatcherIfNeeded keeps the type.
LEMMA UnwatchedType ==
    ASSUME NEW s \in WatchRecords, NEW p
    PROVE  Unwatched(s, p) \in WatchRecords
<1>1. s.cancel # None => s.cancelled \union {s.cancel} \in SUBSET Watchers
  BY DEF WatchRecords
<1>2. QED
  BY <1>1, Zenon DEF Unwatched, WatchRecords

\* Every step keeps the type of the watcher.
LEMMA WatchNext ==
    ASSUME watch \in WatchRecords, Next \/ Quiet
    PROVE  watch' \in WatchRecords
<1>1. CASE watch' = watch
  BY <1>1
<1>2. CASE watch' \in Watching
  BY <1>2, WatchingType
<1>3. CASE EngineCancels \/ Close
  <2>1. watch' = [watch EXCEPT !.cancelled = Watchers]
    BY <1>3 DEF EngineCancels, Close
  <2>2. QED
    BY <2>1 DEF WatchRecords
<1>4. ASSUME NEW w \in Watchers, NEW v \in WatcherStates
      PROVE  [watch.pc EXCEPT ![w] = v] \in [Watchers -> WatcherStates]
  BY DEF WatchRecords
<1>5. ASSUME NEW w \in Watchers, NEW v \in WatcherStates
      PROVE  [watch EXCEPT !.pc[w] = v] \in WatchRecords
  BY <1>4 DEF WatchRecords
<1>6. ASSUME NEW w \in Watchers, Watcher(w)
      PROVE  watch' \in WatchRecords
  <2> DEFINE x == watch.cancelled \ {w}
             c == IF watch.cancel = w THEN None ELSE watch.cancel
             d == [watch.pc EXCEPT ![w] = "done"]
  <2>1. x \in SUBSET Watchers /\ c \in Watchers \union {None} /\ d \in [Watchers -> WatcherStates]
    BY <1>4 DEF WatchRecords, WatcherStates
  <2>2. CASE WatcherStarts(w)
    <3>1. CASE watch' = [watch EXCEPT !.pc = d, !.cancelled = x, !.cancel = c]
      <4> HIDE DEF x, c, d
      <4>1. QED
        BY <2>1, <3>1, Zenon DEF WatchRecords
    <3>2. CASE watch' = [[watch EXCEPT !.pc[w] = "running"] EXCEPT !.enabled = TRUE]
      <4> DEFINE r == [watch EXCEPT !.pc[w] = "running"]
      <4>1. r \in WatchRecords
        BY <1>5, Zenon DEF WatcherStates
      <4> HIDE DEF r
      <4>2. watch' = [r EXCEPT !.enabled = TRUE]
        BY <3>2 DEF r
      <4>3. QED
        BY <4>1, <4>2, Zenon DEF WatchRecords
    <3>3. QED
      BY <2>2, <3>1, <3>2 DEF WatcherStarts, WatchRecords
  <2>3. CASE WatcherEnds(w)
    BY <1>5, <2>3, Zenon DEF WatcherEnds, WatcherStates
  <2>4. CASE WatcherExits(w)
    <3>1. watch' = [watch EXCEPT !.pc = d, !.enabled = FALSE, !.cancelled = x, !.cancel = c]
      BY <2>4 DEF WatcherExits, WatchRecords
    <3> HIDE DEF x, c, d
    <3>2. QED
      BY <2>1, <3>1, Zenon DEF WatchRecords
  <2>5. CASE OnWGDisconnected(w)
    <3> DEFINE e == [watch EXCEPT !.pc[w] = "exit"]
    <3>1. e \in WatchRecords
      BY <1>5, Zenon DEF WatcherStates
    <3>2. watch' = e \/ watch' = Unwatched(e, prio')
      BY <2>5 DEF OnWGDisconnected, HandleRelayDisconnected
    <3> HIDE DEF e
    <3>3. QED
      BY <3>1, <3>2, UnwatchedType
  <2>6. QED
    BY <1>6, <2>2, <2>3, <2>4, <2>5 DEF Watcher
<1>7. CASE OnRelayDisconnected
  <2>1. watch' = watch \/ watch' = Unwatched(watch, prio')
    BY <1>7 DEF OnRelayDisconnected, HandleRelayDisconnected, Ignored, connVars
  <2>2. QED
    BY <2>1, UnwatchedType
<1>8. ASSUME NEW g \in Relayed, OnRelayConnectionIsReady(g)
      PROVE  watch' = watch \/ watch' \in Watching
  BY <1>8 DEF OnRelayConnectionIsReady, Ignored, connVars
<1>9. ASSUME NEW a \in Agents, Agent(a)
      PROVE  watch' \in WatchRecords
  <2>1. CASE AgentConnects(a) \/ AgentFails(a) \/ DialSucceeds(a) \/ DialFails(a) \/ OnConnectionStateChange(a)
             \/ LastKnownState(a)
    BY <1>1, <2>1, Zenon DEF AgentConnects, AgentFails, DialSucceeds, DialFails, OnConnectionStateChange, LastKnownState, connVars
  <2>2. CASE OnICEStateDisconnected(a)
    <3>1. watch' = watch \/ watch' = Unwatched(watch, prio')
      BY <2>2 DEF OnICEStateDisconnected, Ignored, connVars
    <3>2. QED
      BY <3>1, UnwatchedType
  <2>3. CASE \E p \in Pairs : OnICEConnectionIsReady(a, p)
    <3>1. watch' = watch \/ watch' \in Watching
      BY <2>3, ZenonT(30) DEF OnICEConnectionIsReady, Ignored, connVars
    <3>2. QED
      BY <1>1, <1>2, <3>1
  <2>4. QED
    BY <1>9, <2>1, <2>2, <2>3, ZenonT(30) DEF Agent
<1>10. CASE Quiet \/ Open \/ CloseUnlocks \/ CloseReturns \/ ListenStep \/ DelayedUpdate
  BY <1>1, <1>10, ZenonT(30) DEF Quiet, Open, CloseUnlocks, CloseReturns, ListenStep, OnNewOffer, ListenReturns, ReceiveOffer,
                     DelayedUpdate, connVars
<1>11. CASE RelayOnNewOffer \/ RelayOpened \/ ReaderEnds \/ \E s \in BOOLEAN : RelayFails(s)
  BY <1>1, <1>11, Zenon DEF RelayOnNewOffer, RelayOpened, ReaderEnds, RelayFails, connVars
<1>12. QED
  BY <1>1, <1>2, <1>3, <1>6, <1>7, <1>8, <1>9, <1>10, <1>11 DEF Next, ConnStep, RelayStep

-----------------------------------------------------------------------------
(* The active transport, its proxy and WireGuard's endpoint.               *)

ProxyRecords ==
    [conn : Relayed \union {None}, reader : {"no", "reads", "ended"}, as : {"none", "proxy", "ice"},
     turn : BOOLEAN]

WgRecords == [endpoint : Endpoints, delayed : {"no", "proxy", "ice"}]

FrontType ==
    /\ controller \in Roles
    /\ prio \in {NoConn, Relay} \union ICEPrios /\ up \subseteq {"ice", "relay"}
    /\ proxy \in ProxyRecords /\ wg \in WgRecords /\ downs \in Nat

\* While the connection is open: a relay proxy counts as connected, and its end
\* is reported; ICE is active as long as it counts as connected; the proxy of
\* an active relay works.
Carried ==
    Live =>
        /\ proxy.conn # None => "relay" \in up
        /\ proxy.reader = "ended" => downs > 0
        /\ prio \in ICEPrios <=> "ice" \in up
        /\ prio = Relay => proxy.conn # None /\ proxy.as = "proxy" /\ proxy.reader # "no"

\* The initiator delays no update.
NoDelay == controller => wg.delayed = "no"

\* Before Open and from Close on there is nothing; only a failure of WireGuard
\* leaves the peer there.
Empty ==
    /\ prio = NoConn /\ up = {} /\ proxy = NoProxy
    /\ wg.delayed = "no" /\ (count.faults = 0 => wg.endpoint = "removed")

EmptyInv == life = "new" \/ Ending => Empty

FrontInv == FrontType /\ Carried /\ NoDelay /\ EndpointMatches /\ EmptyInv

\* A proxy's Work and RedirectAs keep its type, and what is noted of a
\* wgProxyICE.
LEMMA ProxyTypes ==
    ASSUME NEW p \in ProxyRecords, NEW e \in {"proxy", "ice"}
    PROVE  /\ Working(p) \in ProxyRecords /\ Redirected(p, e) \in ProxyRecords
           /\ Working(p).conn = p.conn /\ Redirected(p, e).conn = p.conn /\ Redirected(p, e).reader = p.reader
           /\ Working(p).turn = p.turn /\ Redirected(p, e).turn = p.turn
           /\ p.conn = None => Working(p) = p
           /\ p.conn # None =>
                /\ Working(p).as = "proxy" /\ Working(p).reader # "no"
                /\ Working(p).reader = "ended" => p.reader = "ended"
BY Zenon DEF ProxyRecords, Working, Redirected

\* A new proxy, or none, put in the place of the old.
LEMMA ForRelayType ==
    ASSUME proxy \in ProxyRecords, NEW g \in Relayed \union {None}
    PROVE  /\ ForRelay(g) \in ProxyRecords /\ ForRelay(g).conn = g /\ ForRelay(g).turn = proxy.turn
           /\ ForRelay(g).as = "none" /\ ForRelay(g).reader = "no"
BY ZenonT(30) DEF ProxyRecords, ForRelay, NoProxy

\* ConfigureWGEndpoint, also when it fails, and RemoveEndpointAddress keep the
\* type; the initiator delays nothing.
LEMMA WgTypes ==
    ASSUME wg \in WgRecords, NoDelay, NEW e \in {"proxy", "ice"}
    PROVE  /\ Configured(e) \in WgRecords /\ Misconfigured \in WgRecords /\ Unset(wg) \in WgRecords
           /\ controller => Configured(e).delayed = "no" /\ Misconfigured.delayed = "no"
           /\ Unset(wg).delayed = wg.delayed /\ Unset(wg).endpoint \in {"removed", "none"}
           /\ IF Configured(e).delayed = "no" THEN Configured(e).endpoint = e ELSE Configured(e).delayed = e
BY DEF WgRecords, Configured, Misconfigured, Unset, Endpoints, NoDelay

\* RemoveEndpointAddress leaves a delayed update alone, and an endpoint only
\* when it fails.
LEMMA EndpointGone ==
    ASSUME wg \in WgRecords, NoDelay, count \in CountRecords, RemoveEndpointAddress
    PROVE  /\ wg' \in WgRecords /\ wg'.delayed = wg.delayed
           /\ wg'.endpoint \in {"removed", "none"} \/ count'.faults > 0
<1>1. CASE wg' = Unset(wg)
  BY <1>1, WgTypes, ZenonT(30)
<1>2. CASE wg' = wg /\ Fault
  BY <1>2, FaultType
<1>3. QED
  BY <1>1, <1>2 DEF RemoveEndpointAddress

\* Steps outside conn.mu leave the transport alone.
LEMMA FrontFrame ==
    ASSUME FrontInv, UNCHANGED <<controller, prio, up, proxy, wg>>, downs' \in Nat, Live => downs' >= downs,
           count'.faults = 0 => count.faults = 0,
           Live' => Live \/ life = "new",
           life' = "new" \/ Ending' => life = "new" \/ Ending
    PROVE  FrontInv'
<1>1. FrontType' /\ NoDelay' /\ EmptyInv'
  BY DEF FrontInv, FrontType, NoDelay, EmptyInv, Empty
<1>2. Carried'
  <2>1. CASE Live
    BY <2>1 DEF FrontInv, FrontType, Carried
  <2>2. CASE life = "new"
    BY <2>2 DEF FrontInv, EmptyInv, Empty, Carried, NoProxy, NoConn, Relay, ICEPrios, ICETurn, ICEP2P, None
  <2>3. QED
    BY <2>1, <2>2 DEF Carried
<1>3. EndpointMatches'
  <2>1. CASE Live
    BY <2>1 DEF FrontInv, EndpointMatches
  <2>2. CASE life = "new"
    BY <2>2 DEF FrontInv, EmptyInv, Empty, EndpointMatches, NoConn, Relay, ICEPrios, ICETurn, ICEP2P
  <2>3. QED
    BY <2>1, <2>2 DEF EndpointMatches
<1>4. QED
  BY <1>1, <1>2, <1>3 DEF FrontInv

\* A step while the connection is open has to keep three of the four parts.
LEMMA OpenStep ==
    ASSUME Live, life' = life, FrontType', Carried', NoDelay', EndpointMatches'
    PROVE  FrontInv'
BY DEF FrontInv, EmptyInv, Live, Ending

\* onICEConnectionIsReady
LEMMA ICEReadyFront ==
    ASSUME FrontInv, count \in CountRecords, NEW a \in Agents, NEW p \in Pairs, OnICEConnectionIsReady(a, p)
    PROVE  FrontInv'
<1>0. /\ FrontType /\ proxy \in ProxyRecords /\ wg \in WgRecords /\ NoDelay /\ p \in ICEPrios
      /\ controller' = controller /\ life' = life /\ downs' = downs /\ downs \in Nat
      /\ prio \in {0, 1, 2, 3} /\ up \subseteq {"ice", "relay"}
  BY ConnAssumption DEF FrontInv, FrontType, OnICEConnectionIsReady, relayVars, ICEPrios, ICETurn, ICEP2P, NoConn, Relay
<1>1. CASE Ignored
  BY <1>0, <1>1, FrontFrame DEF Ignored, connVars, Ending, Live
<1>2. CASE /\ Live /\ prio > p /\ up' = up \union {"ice"}
           /\ UNCHANGED <<prio, proxy, wg, watch, notes, count>>
  <2>1. prio \in ICEPrios
    BY <1>0, <1>2 DEF ICEPrios, ICETurn, ICEP2P, NoConn, Relay
  <2>2. "ice" \in up
    BY <1>2, <2>1 DEF FrontInv, Carried
  <2>3. up' = up
    BY <1>2, <2>2
  <2>4. QED
    BY <1>0, <1>2, <2>3, FrontFrame DEF Ending, Live
<1>3. ASSUME Live, prio <= p, NEW e \in PairEndpoints(a, p),
             LET q == [proxy EXCEPT !.turn = @ \/ e = "proxy"]
             IN  \/ wg' = Configured(e) /\ proxy' = Redirected(q, e) /\ prio' = p /\ up' = up \union {"ice"} /\ count' = count
                 \/ wg' = Misconfigured /\ proxy' = Working(q) /\ Fault /\ UNCHANGED <<prio, up>>
      PROVE  FrontInv'
  <2> DEFINE q == [proxy EXCEPT !.turn = @ \/ e = "proxy"]
  <2>0. e \in {"proxy", "ice"}
    BY <1>3 DEF PairEndpoints
  <2>1. /\ q \in ProxyRecords /\ q.conn = proxy.conn /\ q.reader = proxy.reader /\ q.as = proxy.as
        /\ q.turn = (proxy.turn \/ e = "proxy")
    BY <1>0, Zenon DEF ProxyRecords
  <2>2. \/ wg' = Configured(e) /\ proxy' = Redirected(q, e) /\ prio' = p /\ up' = up \union {"ice"} /\ count' = count
        \/ wg' = Misconfigured /\ proxy' = Working(q) /\ Fault /\ UNCHANGED <<prio, up>>
    BY <1>3
  <2> HIDE DEF q
  <2>3. CASE wg' = Configured(e) /\ proxy' = Redirected(q, e) /\ prio' = p /\ up' = up \union {"ice"} /\ count' = count
    <3>1. /\ proxy' \in ProxyRecords /\ proxy'.conn = proxy.conn /\ proxy'.reader = proxy.reader
          /\ e = "proxy" => proxy'.turn
      BY <2>0, <2>1, <2>3, ProxyTypes, Zenon
    <3>2. /\ wg' \in WgRecords /\ (controller => wg'.delayed = "no")
          /\ IF wg'.delayed = "no" THEN wg'.endpoint = e ELSE wg'.delayed = e
      BY <1>0, <2>0, <2>3, WgTypes
    <3>3. /\ prio' \in ICEPrios /\ prio' # Relay /\ prio' # NoConn
          /\ "ice" \in up' /\ ("relay" \in up => "relay" \in up') /\ up' \subseteq {"ice", "relay"}
      BY <1>0, <2>3 DEF ICEPrios, ICETurn, ICEP2P, Relay, NoConn
    <3>4. FrontType' /\ NoDelay'
      BY <1>0, <3>1, <3>2, <3>3 DEF FrontType, NoDelay
    <3>5. Carried'
      BY <1>0, <1>3, <3>1, <3>3 DEF Carried, FrontInv
    <3>6. EndpointMatches'
      BY <2>0, <3>1, <3>2, <3>3, SMTT(30) DEF EndpointMatches
    <3>7. QED
      BY <1>0, <1>3, <3>4, <3>5, <3>6, OpenStep
  <2>4. CASE wg' = Misconfigured /\ proxy' = Working(q) /\ Fault /\ UNCHANGED <<prio, up>>
    <3>1. /\ proxy' \in ProxyRecords /\ proxy'.conn = proxy.conn
          /\ proxy.conn = None => proxy'.reader = proxy.reader
          /\ proxy.conn # None =>
                /\ proxy'.as = "proxy" /\ proxy'.reader # "no"
                /\ proxy'.reader = "ended" => proxy.reader = "ended"
      <4>1. CASE proxy.conn = None
        BY <2>0, <2>1, <2>4, <4>1, ProxyTypes, ZenonT(30)
      <4>2. CASE proxy.conn # None
        BY <2>0, <2>1, <2>4, <4>2, ProxyTypes, Zenon
      <4>3. QED
        BY <4>1, <4>2, SMTT(30)
    <3>2. wg' \in WgRecords /\ (controller => wg'.delayed = "no")
      BY <1>0, <2>0, <2>4, WgTypes
    <3>3. FrontType' /\ NoDelay'
      BY <1>0, <2>4, <3>1, <3>2 DEF FrontType, NoDelay
    <3>4. Carried'
      BY <1>0, <1>3, <2>4, <3>1 DEF Carried, FrontInv
    <3>5. EndpointMatches'
      BY <2>4, FaultType DEF EndpointMatches
    <3>6. QED
      BY <1>0, <1>3, <3>3, <3>4, <3>5, OpenStep
  <2>5. QED
    BY <2>2, <2>3, <2>4
<1>4. QED
  BY <1>1, <1>2, <1>3, ZenonT(30) DEF OnICEConnectionIsReady

\* onICEStateDisconnected
LEMMA ICELostFront ==
    ASSUME FrontInv, count \in CountRecords, NEW a \in Agents, OnICEStateDisconnected(a)
    PROVE  FrontInv'
<1>0. /\ FrontType /\ proxy \in ProxyRecords /\ wg \in WgRecords /\ NoDelay
      /\ controller' = controller /\ life' = life /\ downs' = downs /\ downs \in Nat
      /\ up \subseteq {"ice", "relay"}
  BY DEF FrontInv, FrontType, OnICEStateDisconnected, relayVars
<1>1. CASE Ignored
  BY <1>0, <1>1, FrontFrame DEF Ignored, connVars, Ending, Live
<1>2. CASE Live /\ TransportDown("ice") /\ proxy.conn # None /\ prio' = Relay /\ proxy' = Working(proxy)
           /\ \/ wg' = [endpoint |-> "proxy", delayed |-> "no"]
              \/ Fault /\ (wg' = [wg EXCEPT !.delayed = "no"] \/ wg' = [Unset(wg) EXCEPT !.delayed = "no"])
  <2>1. wg' \in WgRecords /\ wg'.delayed = "no" /\ (wg'.endpoint = "proxy" \/ Fault)
    BY <1>0, <1>2, WgTypes DEF WgRecords, Endpoints
  <2>2. FrontType' /\ NoDelay'
    BY <1>0, <1>2, <2>1, ProxyTypes, Zenon DEF FrontType, NoDelay, TransportDown
  <2>3. Carried'
    <3>1. /\ proxy'.conn = proxy.conn /\ proxy'.as = "proxy" /\ proxy'.reader # "no"
          /\ proxy'.reader = "ended" => proxy.reader = "ended"
      BY <1>0, <1>2, ProxyTypes, Zenon
    <3>2. prio' \notin ICEPrios /\ "ice" \notin up' /\ ("relay" \in up => "relay" \in up')
      BY <1>2 DEF ICEPrios, ICETurn, ICEP2P, Relay, TransportDown
    <3>3. QED
      BY <1>0, <1>2, <3>1, <3>2 DEF Carried, FrontInv
  <2>4. EndpointMatches'
    BY <1>2, <2>1, FaultType DEF EndpointMatches, Relay, ICEPrios, ICETurn, ICEP2P, NoConn
  <2>5. QED
    BY <1>0, <1>2, <2>2, <2>3, <2>4, OpenStep
<1>3. CASE Live /\ TransportDown("ice") /\ prio' = NoConn /\ RemoveEndpointAddress /\ proxy' = proxy
  <2>1. /\ wg' \in WgRecords /\ wg'.delayed = wg.delayed
        /\ wg'.endpoint \in {"removed", "none"} \/ count'.faults > 0
    BY <1>0, <1>3, EndpointGone
  <2>2. FrontType' /\ NoDelay'
    BY <1>0, <1>3, <2>1 DEF FrontType, NoDelay, TransportDown
  <2>3. Carried'
    BY <1>0, <1>3 DEF Carried, FrontInv, ICEPrios, ICETurn, ICEP2P, NoConn, Relay, Live, TransportDown
  <2>4. EndpointMatches'
    BY <1>0, <1>3, <2>1 DEF EndpointMatches, Relay, ICEPrios, ICETurn, ICEP2P, NoConn, NoDelay
  <2>5. QED
    BY <1>0, <1>3, <2>2, <2>3, <2>4, OpenStep
<1>4. QED
  BY <1>1, <1>2, <1>3 DEF OnICEStateDisconnected

\* onRelayConnectionIsReady
LEMMA RelayReadyFront ==
    ASSUME FrontInv, count \in CountRecords, NEW g \in Relayed, OnRelayConnectionIsReady(g)
    PROVE  FrontInv'
<1> DEFINE p == ForRelay(g)
           active == prio \in ICEPrios /\ "ice" \in up
<1>0. /\ FrontType /\ proxy \in ProxyRecords /\ wg \in WgRecords /\ NoDelay
      /\ controller' = controller /\ life' = life /\ downs' = downs /\ downs \in Nat
      /\ up \subseteq {"ice", "relay"}
  BY SMTT(30) DEF FrontInv, FrontType, OnRelayConnectionIsReady
<1>1. /\ p \in ProxyRecords /\ p.conn = g /\ g # None /\ p.reader = "no" /\ p.as = "none"
      /\ p.turn = proxy.turn
  BY <1>0, ForRelayType, ConnAssumption DEF None
<1>2. \/ Ignored
      \/ Live /\ active /\ proxy' = p /\ up' = up \union {"relay"} /\ UNCHANGED <<prio, wg, count>>
      \/ /\ Live /\ ~active /\ wg' = Configured("proxy") /\ prio' = Relay /\ up' = up \union {"relay"}
         /\ proxy' = Working(p) /\ count' = count
      \/ Live /\ Fault /\ wg' = Misconfigured /\ UNCHANGED <<prio, up, proxy>>
  BY DEF OnRelayConnectionIsReady
<1> HIDE DEF p, active
<1>3. CASE Ignored
  BY <1>0, <1>3, FrontFrame DEF Ignored, connVars, Ending, Live
<1>4. CASE Live /\ active /\ proxy' = p /\ up' = up \union {"relay"} /\ UNCHANGED <<prio, wg, count>>
  <2>1. proxy' \in ProxyRecords /\ proxy'.reader = "no" /\ proxy'.turn = proxy.turn
    BY <1>1, <1>4
  <2>2. FrontType' /\ NoDelay'
    BY <1>0, <1>4, <2>1 DEF FrontType, NoDelay
  <2>3. Carried'
    BY <1>0, <1>4, <2>1 DEF Carried, FrontInv, active, ICEPrios, ICETurn, ICEP2P, Relay, Live
  <2>4. EndpointMatches'
    BY <1>0, <1>4, <2>1 DEF EndpointMatches, FrontInv, Live
  <2>5. QED
    BY <1>0, <1>4, <2>2, <2>3, <2>4, OpenStep
<1>5. CASE /\ Live /\ ~active /\ wg' = Configured("proxy") /\ prio' = Relay /\ up' = up \union {"relay"}
           /\ proxy' = Working(p) /\ count' = count
  <2>2. /\ proxy' \in ProxyRecords /\ proxy'.conn = g /\ proxy'.as = "proxy"
        /\ proxy'.reader # "no" /\ proxy'.reader # "ended"
    BY <1>1, <1>5, ProxyTypes, Zenon
  <2>3. /\ wg' \in WgRecords /\ (controller => wg'.delayed = "no")
        /\ IF wg'.delayed = "no" THEN wg'.endpoint = "proxy" ELSE wg'.delayed = "proxy"
    BY <1>0, <1>5, WgTypes
  <2>4. FrontType' /\ NoDelay'
    BY <1>0, <1>5, <2>2, <2>3 DEF FrontType, NoDelay
  <2>5. "ice" \notin up
    BY <1>5 DEF Carried, FrontInv, active
  <2>6. Carried'
    BY <1>1, <1>5, <2>2, <2>5 DEF Carried, ICEPrios, ICETurn, ICEP2P, Relay
  <2>7. EndpointMatches'
    BY <1>5, <2>3 DEF EndpointMatches, ICEPrios, ICETurn, ICEP2P, Relay, NoConn
  <2>8. QED
    BY <1>0, <1>5, <2>4, <2>6, <2>7, OpenStep
<1>6. CASE Live /\ Fault /\ wg' = Misconfigured /\ UNCHANGED <<prio, up, proxy>>
  <2>2. FrontType' /\ NoDelay'
    BY <1>0, <1>6, WgTypes DEF FrontType, NoDelay
  <2>3. Carried'
    BY <1>0, <1>6 DEF Carried, FrontInv, Live
  <2>4. EndpointMatches'
    BY <1>6, FaultType DEF EndpointMatches
  <2>5. QED
    BY <1>0, <1>6, <2>2, <2>3, <2>4, OpenStep
<1>7. QED
  BY <1>2, <1>3, <1>4, <1>5, <1>6

\* handleRelayDisconnectedLocked, whatever it is handed.
LEMMA HandleFront ==
    ASSUME FrontInv, Live, life' = life, controller' = controller, count \in CountRecords, downs' \in Nat,
           NEW r, NEW s, HandleRelayDisconnected(r, s)
    PROVE  FrontInv'
<1>0. /\ FrontType /\ wg \in WgRecords /\ NoDelay /\ prio \in {0, 1, 2, 3} /\ up \subseteq {"ice", "relay"}
      /\ prio \in ICEPrios <=> "ice" \in up
  BY DEF FrontInv, FrontType, Carried, NoConn, Relay, ICEPrios, ICETurn, ICEP2P
<1>1. /\ prio' = (IF prio = Relay THEN NoConn ELSE prio)
      /\ IF prio = Relay THEN RemoveEndpointAddress ELSE wg' = wg /\ count' = count
      /\ proxy' = ForRelay(None) /\ up' = up \ {"relay"}
  BY DEF HandleRelayDisconnected, TransportDown
<1>2. /\ wg' \in WgRecords /\ wg'.delayed = wg.delayed
      /\ prio = Relay => wg'.endpoint \in {"removed", "none"} \/ count'.faults > 0
  BY <1>0, <1>1, EndpointGone
<1>3. proxy' \in ProxyRecords /\ proxy'.conn = None /\ proxy'.reader = "no" /\ proxy'.turn = proxy.turn
  BY <1>1, ForRelayType DEF FrontInv, FrontType
<1>4. prio' \in {NoConn, Relay} \union ICEPrios /\ prio' # Relay /\ (prio' \in ICEPrios <=> prio \in ICEPrios)
  BY <1>0, <1>1 DEF NoConn, Relay, ICEPrios, ICETurn, ICEP2P
<1>5. FrontType' /\ NoDelay'
  BY <1>0, <1>1, <1>2, <1>3, <1>4, ZenonT(30) DEF FrontType, NoDelay
<1>6. Carried'
  BY <1>0, <1>1, <1>3, <1>4 DEF Carried
<1>7. EndpointMatches'
  <2>1. CASE prio = Relay
    BY <1>0, <1>1, <1>2, <2>1 DEF EndpointMatches, NoDelay, NoConn, Relay, ICEPrios, ICETurn, ICEP2P
  <2>2. CASE prio # Relay
    BY <1>1, <1>3, <2>2, ZenonT(30) DEF EndpointMatches, FrontInv
  <2>3. QED
    BY <2>1, <2>2, ZenonT(30)
<1>8. QED
  BY <1>5, <1>6, <1>7, OpenStep, ZenonT(30)

\* Conn.Close leaves nothing.
LEMMA CloseFront ==
    ASSUME FrontInv, count \in CountRecords, Close
    PROVE  FrontInv'
<1>1. /\ controller' = controller /\ downs' = downs /\ life' = "closing"
      /\ prio' = NoConn /\ up' = {} /\ proxy' = NoProxy
      /\ \/ wg' = [endpoint |-> "removed", delayed |-> "no"]
         \/ wg' = [wg EXCEPT !.delayed = "no"] /\ Fault
  BY ZenonT(30) DEF Close
<1>2. wg' \in WgRecords /\ wg'.delayed = "no" /\ (wg'.endpoint = "removed" \/ count'.faults > 0)
  BY <1>1, FaultType DEF FrontInv, FrontType, WgRecords, Endpoints
<1>3. Empty'
  BY <1>1, <1>2 DEF Empty
<1>4. FrontType'
  BY <1>1, <1>2 DEF FrontInv, FrontType, NoProxy, ProxyRecords
<1>5. Carried' /\ EndpointMatches' /\ EmptyInv'
  BY <1>1, <1>3 DEF Carried, EndpointMatches, EmptyInv, Live
<1>6. NoDelay'
  BY <1>2 DEF NoDelay
<1>7. QED
  BY <1>4, <1>5, <1>6 DEF FrontInv

\* The delayed update sets the endpoint it was scheduled for.
LEMMA DelayedFront ==
    ASSUME FrontInv, count \in CountRecords, DelayedUpdate
    PROVE  FrontInv'
<1>1. /\ wg \in WgRecords /\ wg.delayed # "no" /\ ~controller
      /\ UNCHANGED <<controller, life, prio, up, proxy, downs>>
  BY DEF FrontInv, FrontType, NoDelay, DelayedUpdate, relayVars
<1>2. life # "new" /\ ~Ending
  BY <1>1 DEF FrontInv, EmptyInv, Empty
<1>3. \/ wg' = [endpoint |-> wg.delayed, delayed |-> "no"] /\ count' = count
      \/ wg' = [wg EXCEPT !.delayed = "no"] /\ Fault
  BY DEF DelayedUpdate
<1>4. wg' \in WgRecords /\ wg'.delayed = "no"
  BY <1>1, <1>3 DEF WgRecords, Endpoints
<1>5. FrontType' /\ NoDelay' /\ EmptyInv'
  BY <1>1, <1>2, <1>4, ZenonT(30) DEF FrontInv, FrontType, NoDelay, EmptyInv, Ending
<1>6. Carried'
  BY <1>1 DEF FrontInv, Carried, Live
<1>7. EndpointMatches'
  <2>1. CASE Fault
    BY <2>1, FaultType DEF EndpointMatches
  <2>2. CASE wg' = [endpoint |-> wg.delayed, delayed |-> "no"] /\ count' = count
    BY <1>1, <2>2, ZenonT(30) DEF FrontInv, EndpointMatches, Live
  <2>3. QED
    BY <1>3, <2>1, <2>2
<1>8. QED
  BY <1>5, <1>6, <1>7 DEF FrontInv

\* Every step keeps the invariant of the transports.
LEMMA FrontNext ==
    ASSUME FrontInv, count \in CountRecords, hs \in HsRecords, Next \/ Quiet
    PROVE  FrontInv'
<1>0. downs \in Nat /\ FrontType
  BY DEF FrontInv, FrontType
<1>1. CASE Close
  BY <1>1, CloseFront, ZenonT(30)
<1>2. ASSUME ~Close, UNCHANGED <<controller, prio, up, proxy, wg>>, downs' \in Nat, Live => downs' >= downs
      PROVE  FrontInv'
  <2>1. count'.faults = 0 => count.faults = 0
    BY OfferFrame
  <2>2. (Live' => Live \/ life = "new") /\ (life' = "new" \/ Ending' => life = "new" \/ Ending)
    BY <1>2, LifeFrame DEF Live, Ending
  <2>3. QED
    BY <1>2, <2>1, <2>2, FrontFrame
<1>3. CASE ~Close /\ (Quiet \/ Open \/ CloseUnlocks \/ CloseReturns \/ EngineCancels \/ ListenStep)
  <2>1. UNCHANGED <<controller, prio, up, proxy, wg, downs>>
    BY <1>3, Zenon DEF Quiet, Open, CloseUnlocks, CloseReturns, EngineCancels, ListenStep, OnNewOffer, ListenReturns,
                ReceiveOffer, connVars, relayVars
  <2>2. QED
    BY <1>0, <1>2, <1>3, <2>1
<1>4. CASE ~Close /\ (RelayOnNewOffer \/ RelayOpened \/ \E s \in BOOLEAN : RelayFails(s))
  <2>1. UNCHANGED <<controller, prio, up, proxy, wg>> /\ downs' \in {downs, downs + 1}
    BY <1>4, Zenon DEF RelayOnNewOffer, RelayOpened, RelayFails, connVars
  <2>2. QED
    BY <1>0, <1>2, <1>4, <2>1
<1>5. CASE ReaderEnds
  <2>1. /\ Live /\ proxy \in ProxyRecords /\ proxy.reader = "reads"
        /\ proxy' = [proxy EXCEPT !.reader = "ended"] /\ downs' = downs + 1
        /\ UNCHANGED <<controller, life, prio, up, wg, count>>
    BY <1>0, <1>5 DEF ReaderEnds, FrontType
  <2>2. proxy' \in ProxyRecords /\ proxy'.conn = proxy.conn /\ proxy'.as = proxy.as /\ proxy'.reader = "ended"
    BY <2>1 DEF ProxyRecords
  <2>3. downs' \in Nat /\ downs' > 0
    BY <1>0, <2>1
  <2>4. FrontType' /\ NoDelay'
    BY <1>0, <2>1, <2>2, <2>3 DEF FrontType, FrontInv, NoDelay
  <2>5. Carried'
    BY <2>1, <2>2, <2>3 DEF Carried, FrontInv
  <2>6. EndpointMatches'
    BY <2>1 DEF EndpointMatches, FrontInv
  <2>7. QED
    BY <2>1, <2>4, <2>5, <2>6, OpenStep
<1>6. CASE ~Close /\ OnRelayDisconnected
  <2>1. downs' \in Nat /\ UNCHANGED <<controller, life>>
    BY <1>0, <1>6 DEF OnRelayDisconnected
  <2>2. CASE Ignored
    BY <1>2, <1>6, <2>1, <2>2, ZenonT(30) DEF Ignored, connVars
  <2>3. CASE Live /\ HandleRelayDisconnected(relay, watch)
    BY <2>1, <2>3, HandleFront
  <2>4. QED
    BY <1>6, <2>2, <2>3 DEF OnRelayDisconnected
<1>7. ASSUME ~Close, NEW w \in Watchers, Watcher(w)
      PROVE  FrontInv'
  <2>1. CASE WatcherStarts(w) \/ WatcherEnds(w) \/ WatcherExits(w)
    <3>1. UNCHANGED <<controller, prio, up, proxy, wg, downs>>
      BY <2>1 DEF WatcherStarts, WatcherEnds, WatcherExits, relayVars
    <3>2. QED
      BY <1>0, <1>2, <1>7, <3>1
  <2>2. CASE OnWGDisconnected(w)
    <3>1. UNCHANGED <<controller, life>>
      BY <2>2 DEF OnWGDisconnected
    <3>2. CASE UNCHANGED <<prio, up, proxy, wg, downs>>
      BY <1>0, <1>2, <1>7, <3>1, <3>2
    <3>3. CASE /\ Live /\ downs' \in {downs, downs + 1}
               /\ HandleRelayDisconnected(Dropped(relay, relay.conn), [watch EXCEPT !.pc[w] = "exit"])
      <4>1. downs' \in Nat
        BY <1>0, <3>3
      <4>2. QED
        BY <3>1, <3>3, <4>1, HandleFront
    <3>4. QED
      BY <2>2, <3>2, <3>3 DEF OnWGDisconnected
  <2>3. QED
    BY <1>7, <2>1, <2>2 DEF Watcher
<1>8. ASSUME ~Close, NEW a \in Agents, Agent(a)
      PROVE  FrontInv'
  <2>1. CASE AgentConnects(a) \/ AgentFails(a) \/ DialSucceeds(a) \/ DialFails(a) \/ OnConnectionStateChange(a)
             \/ LastKnownState(a)
    <3>1. UNCHANGED <<controller, prio, up, proxy, wg, downs>>
      BY <2>1, Zenon DEF AgentConnects, AgentFails, DialSucceeds, DialFails, OnConnectionStateChange, LastKnownState,
                  connVars, relayVars
    <3>2. QED
      BY <1>0, <1>2, <1>8, <3>1
  <2>2. QED
    BY <1>8, <2>1, ICELostFront, ICEReadyFront, ZenonT(30) DEF Agent
<1>9. QED
  BY <1>1, <1>3, <1>4, <1>5, <1>6, <1>7, <1>8, RelayReadyFront, DelayedFront, ZenonT(30) DEF Next, ConnStep, RelayStep

-----------------------------------------------------------------------------
(* The theorems.                                                           *)

Lives == {"new", "open", "cancelled"} \union {"closing", "waiting", "closed"}

\* The inductive invariant of the connection.
Inv ==
    /\ life \in Lives /\ count \in CountRecords /\ hs \in HsRecords /\ watch \in WatchRecords
    /\ AgentsInv /\ RelayInv /\ FrontInv

\* It holds of a new connection.
LEMMA InitInv == Init => Inv
<1> SUFFICES ASSUME Init
             PROVE  Inv
  BY ZenonT(30)
<1>1. life \in Lives /\ life = "new" /\ ~Ending
  BY Zenon DEF Init, Lives, Ending
<1>2. count \in CountRecords /\ count.offers = 0
  <2>1. 0 \in 0 .. MaxOffers /\ 0 \in 0 .. MaxLosses /\ 0 \in 0 .. MaxFaults
    BY ConnAssumption
  <2>2. count = [offers |-> 0, losses |-> 0, faults |-> 0]
    BY ZenonT(30) DEF Init
  <2>3. QED
    BY <2>1, <2>2, ZenonT(30) DEF CountRecords
<1>3. hs \in HsRecords /\ hs.listen = "off"
  BY ZenonT(30) DEF Init, HsRecords, Sessions
<1>4. watch \in WatchRecords
  BY Zenon DEF Init, WatchRecords, WatcherStates
<1>5. AgentsInv
  <2> DEFINE q == [state |-> "unused", notes |-> <<>>, lost |-> "no", session |-> FALSE,
                   turn |-> FALSE, dial |-> "none"]
  <2>1. q \in AgentRecords /\ q.state = "unused" /\ q.dial = "none" /\ Len(q.notes) = 0
    BY DEF AgentRecords
  <2>2. ag = [a \in Agents |-> q]
    BY Zenon DEF Init
  <2> HIDE DEF q
  <2>3. ag \in [Agents -> AgentRecords] /\ \A a \in Agents : ag[a] = q
    BY <2>1, <2>2
  <2>4. Sound(ag)
    BY <2>1, <2>3, SendsValues DEF Sound
  <2>5. ice \in IceRecords /\ ice.agent = None
    BY Zenon DEF Init, IceRecords, Sessions
  <2>6. WorkerSound /\ OneAgent /\ LateDials
    BY <1>1, <2>1, <2>3, <2>4, <2>5, ZenonT(30) DEF WorkerSound, OneAgent, LateDials
  <2>7. MadeInOrder
    <3>1. 0 \in 0 .. count.offers /\ hs.listen # "ice"
      BY <1>2, <1>3
    <3>2. \A a \in Agents : ag[a].state # "unused" <=> a <= 0
      <4>1. \A a \in Agents : ~(a <= 0)
        BY NoneIsNoAgent DEF None
      <4>2. QED
        BY <2>1, <2>3, <4>1, Zenon
    <3>3. QED
      BY <3>1, <3>2 DEF MadeInOrder
  <2>8. QED
    BY <2>6, <2>7, ZenonT(30) DEF AgentsInv
<1>6. RelayInv
  BY Zenon DEF Init, RelayInv, RelayRecords
<1>7. FrontInv
  <2>0. wg = [endpoint |-> "removed", delayed |-> "no"]
    BY ZenonT(30) DEF Init
  <2>1. Empty /\ downs = 0 /\ controller \in Roles
    <3>1. prio = NoConn /\ up = {} /\ proxy = NoProxy /\ downs = 0 /\ controller \in Roles
      BY ZenonT(30) DEF Init
    <3>2. wg.delayed = "no" /\ wg.endpoint = "removed"
      BY <2>0
    <3>3. QED
      BY <3>1, <3>2 DEF Empty
  <2>2. FrontType
    BY <2>0, <2>1 DEF FrontType, Empty, NoProxy, ProxyRecords, WgRecords, Endpoints
  <2>3. NoDelay
    BY <2>1 DEF NoDelay, Empty
  <2>4. Carried /\ EndpointMatches /\ EmptyInv
    BY <1>1, <2>1 DEF Carried, EndpointMatches, EmptyInv, Live
  <2>5. QED
    BY <2>2, <2>3, <2>4, ZenonT(30) DEF FrontInv
<1>8. QED
  BY <1>1, <1>2, <1>3, <1>4, <1>5, <1>6, <1>7 DEF Inv

\* Every step of the connection keeps it, and so does a step of the guard.
LEMMA Inductive == Inv /\ (Next \/ Quiet) => Inv'
<1> SUFFICES ASSUME Inv, Next \/ Quiet
             PROVE  Inv'
  OBVIOUS
<1>1. life' \in Lives
  BY LifeFrame DEF Inv, Lives
<1>2. count' \in CountRecords /\ hs' \in HsRecords
  BY OfferFrame DEF Inv
<1>3. watch' \in WatchRecords
  BY WatchNext DEF Inv
<1>4. AgentsInv' /\ RelayInv' /\ FrontInv'
  BY AgentsNext, RelayNext, FrontNext, ZenonT(30) DEF Inv
<1>5. QED
  BY <1>1, <1>2, <1>3, <1>4 DEF Inv

\* Notes of lost connections come from transports that counted as connected;
\* the step in which the last one goes leaves one.
LEMMA NotesNext ==
    ASSUME Next \/ UNCHANGED vars
    PROVE  /\ notes \subseteq notes' /\ notes' \subseteq notes \union up
           /\ up' = {} /\ Live' => up = {} \/ notes' # {}
<1>1. CASE UNCHANGED <<up, notes>>
  BY <1>1
<1>2. CASE TransportDown("ice") \/ TransportDown("relay")
  BY <1>2 DEF TransportDown
<1>3. CASE Close
  BY <1>3, ZenonT(30) DEF Close, Live
<1>4. CASE UNCHANGED vars \/ Open \/ CloseUnlocks \/ CloseReturns \/ EngineCancels \/ ListenStep
  BY <1>1, <1>4, ZenonT(30) DEF vars, Open, CloseUnlocks, CloseReturns, EngineCancels, ListenStep, OnNewOffer, ListenReturns,
              ReceiveOffer, connVars
<1>5. CASE DelayedUpdate \/ RelayOnNewOffer \/ RelayOpened \/ ReaderEnds \/ \E s \in BOOLEAN : RelayFails(s)
  BY <1>1, <1>5, Zenon DEF DelayedUpdate, RelayOnNewOffer, RelayOpened, ReaderEnds, RelayFails, connVars
<1>6. CASE OnRelayDisconnected
  BY <1>1, <1>2, <1>6 DEF OnRelayDisconnected, HandleRelayDisconnected, Ignored, connVars
<1>7. ASSUME NEW g \in Relayed, OnRelayConnectionIsReady(g)
      PROVE  notes' = notes /\ (up' = up \/ "relay" \in up')
  BY <1>7 DEF OnRelayConnectionIsReady, Ignored, connVars
<1>8. ASSUME NEW w \in Watchers, Watcher(w)
      PROVE  UNCHANGED <<up, notes>> \/ TransportDown("relay")
  BY <1>8, ZenonT(30) DEF Watcher, WatcherStarts, WatcherEnds, WatcherExits, OnWGDisconnected, HandleRelayDisconnected
<1>9. ASSUME NEW a \in Agents, Agent(a)
      PROVE  UNCHANGED <<up, notes>> \/ TransportDown("ice") \/ (notes' = notes /\ "ice" \in up')
  <2>1. CASE AgentConnects(a) \/ AgentFails(a) \/ DialSucceeds(a) \/ DialFails(a) \/ OnConnectionStateChange(a)
             \/ LastKnownState(a)
    BY <2>1, Zenon DEF AgentConnects, AgentFails, DialSucceeds, DialFails, OnConnectionStateChange, LastKnownState, connVars
  <2>2. CASE OnICEStateDisconnected(a)
    BY <2>2 DEF OnICEStateDisconnected, Ignored, connVars
  <2>3. CASE \E p \in Pairs : OnICEConnectionIsReady(a, p)
    BY <2>3, ZenonT(30) DEF OnICEConnectionIsReady, Ignored, connVars
  <2>4. QED
    BY <1>9, <2>1, <2>2, <2>3, ZenonT(30) DEF Agent
<1>10. QED
  BY <1>1, <1>2, <1>3, <1>4, <1>5, <1>6, <1>7, <1>8, <1>9, ZenonT(30) DEF Next, ConnStep, RelayStep

\* What the invariant says of the connection.
LEMMA InvImplies ==
    ASSUME Inv, notes \subseteq {"ice", "relay"}
    PROVE  TypeOK /\ OneAgent /\ RelayWorks /\ EndpointMatches /\ ConnectedCarries /\ CloseLeavesNothing
<1>1. /\ FrontType /\ Carried /\ EmptyInv /\ EndpointMatches
      /\ WorkerSound /\ OneAgent /\ LateDials
  BY ZenonT(30) DEF Inv, FrontInv, AgentsInv
<1>2. TypeOK
  <2>1. \A a \in Agents : Len(ag[a].notes) <= 3
    <3> SUFFICES ASSUME NEW a \in Agents
                 PROVE  Len(ag[a].notes) <= 3
      OBVIOUS
    <3>1. /\ ag[a].state \in {"unused", "checking", "connected", "failed", "closed"}
          /\ ag[a].notes \in Seq({"up", "down"}) /\ Len(ag[a].notes) <= Sends[ag[a].state]
      BY <1>1, ZenonT(30) DEF WorkerSound, Sound, AgentRecords
    <3>2. Len(ag[a].notes) \in Nat
      BY <3>1, LenNat, Zenon
    <3>3. QED
      BY <3>1, <3>2, SendsValues
  <2>2. ag \in [Agents -> AgentRecords] /\ ice \in IceRecords
    BY <1>1 DEF WorkerSound, Sound
  <2>3. relay \in RelayRecords /\ ready \subseteq Relayed
    BY DEF Inv, RelayInv
  <2>4. life \in Lives /\ count \in CountRecords /\ hs \in HsRecords /\ watch \in WatchRecords
    BY DEF Inv
  <2>5. QED
    BY <1>1, <2>1, <2>2, <2>3, <2>4, Zenon DEF TypeOK, FrontType, AgentRecords, IceRecords, RelayRecords, Lives,
       CountRecords, HsRecords, WatchRecords, WatcherStates, ProxyRecords, WgRecords
<1>3. RelayWorks
  BY <1>1 DEF RelayWorks, Carried, FrontType, ProxyRecords
<1>4. ConnectedCarries
  BY <1>1 DEF ConnectedCarries, Carried, ConnStatus
<1>5. CloseLeavesNothing
  <2> SUFFICES ASSUME Ending
               PROVE  /\ Empty
                      /\ ready = {} /\ relay.pc = "idle" => relay.live = None
                      /\ \A a \in Agents : ag[a].dial = "none" => ag[a].state \in {"unused", "closed"}
    BY DEF CloseLeavesNothing, Ending, Empty
  <2>1. Empty
    BY <1>1 DEF EmptyInv
  <2>2. ready = {} /\ relay.pc = "idle" => relay.live = None
    BY DEF Inv, RelayInv
  <2>3. ASSUME NEW a \in Agents, ag[a].dial = "none"
        PROVE  ag[a].state \in {"unused", "closed"}
    BY <1>1, <2>3 DEF LateDials, OpenStates, WorkerSound, Sound, AgentRecords
  <2>4. QED
    BY <2>1, <2>2, <2>3, ZenonT(30)
<1>6. QED
  BY <1>1, <1>2, <1>3, <1>4, <1>5

\* The invariant, with the type of the notes.
LEMMA ConnSafety == Spec => [](Inv /\ notes \subseteq {"ice", "relay"})
<1>1. Init => Inv /\ notes \subseteq {"ice", "relay"}
  BY InitInv, Zenon DEF Init
<1>2. Inv /\ notes \subseteq {"ice", "relay"} /\ [Next]_vars => (Inv /\ notes \subseteq {"ice", "relay"})'
  <2> SUFFICES ASSUME Inv, notes \subseteq {"ice", "relay"}, Next \/ UNCHANGED vars
               PROVE  Inv' /\ notes' \subseteq {"ice", "relay"}
    OBVIOUS
  <2>1. Inv'
    BY Inductive DEF Quiet, vars
  <2>2. up \subseteq {"ice", "relay"}
    BY DEF Inv, FrontInv, FrontType
  <2>3. QED
    BY <2>1, <2>2, NotesNext, Zenon
<1>3. QED
  BY <1>1, <1>2, PTL DEF Spec

\* Every variable of the connection keeps its type: in particular there is
\* always an agent left for an offer that Listen takes, and an agent never has
\* more than three notifications to deliver.
THEOREM TypeCorrect == Spec => []TypeOK
BY ConnSafety, InvImplies, PTL

\* However offers, dials, notifications, timeouts and Close interleave, an ICE
\* agent that is not closed is the one WorkerICE holds: none is left behind.
THEOREM NoAgentLeft == Spec => []OneAgent
BY ConnSafety, InvImplies, PTL

\* While the relay is active and no loss of it waits, its proxy reads and
\* sends as the relay's, whatever the callbacks did before.
THEOREM ActiveRelayWorks == Spec => []RelayWorks
BY ConnSafety, InvImplies, PTL

\* As long as WireGuard takes its updates, its endpoint is, or for the responder
\* becomes, that of the active transport.
THEOREM EndpointFollows == Spec => []EndpointMatches
BY ConnSafety, InvImplies, PTL

\* When isConnectedOnAllWay keeps the guard quiet for a remote with ICE, ICE is
\* the active transport or agentConnecting is set.
THEOREM ConnectedIsCarried == Spec => []ConnectedCarries
BY ConnSafety, InvImplies, PTL

\* From Close on no transport, proxy, peer, relayed connection or agent is
\* left or comes back, but for those a call under way still has to close.
THEOREM ClosedForGood == Spec => []CloseLeavesNothing
BY ConnSafety, InvImplies, PTL

-----------------------------------------------------------------------------
(* With the guard.                                                         *)

GuardRecords == [pc : {"off", "idle", "partially"}, retries : Nat, hourly : BOOLEAN]

\* A guard that has seen the peer partially connected, or sleeps for an hour,
\* has a note once both transports are down; before Open it does not run.
GuardInv ==
    /\ guard \in GuardRecords
    /\ life = "new" => guard.pc = "off" /\ ~guard.hourly
    /\ (guard.pc = "partially" \/ guard.hourly) /\ up = {} /\ Live => notes # {}

\* The steps of the guard are steps of the connection, or take notes.
LEMMA GuardSteps ==
    ASSUME [GuardNext]_guardVars
    PROVE  /\ Next \/ Quiet
           /\ Next \/ UNCHANGED vars \/ GuardResets
BY DEF GuardNext, guardVars, GuardOpens, GuardClosed, GuardTicks, GuardRetries, GuardResets, GuardReturns,
       Next, Quiet, vars

\* Every step keeps the guard's part.
LEMMA GuardInductive ==
    ASSUME GuardInv, [GuardNext]_guardVars
    PROVE  GuardInv'
<1>0. guard \in GuardRecords /\ guard.retries \in Nat
  BY DEF GuardInv, GuardRecords
<1>1. CASE GuardOpens
  <2>1. /\ guard' = [guard EXCEPT !.pc = "idle"] /\ life = "new" /\ life' = "open"
    BY <1>1 DEF GuardOpens, Open
  <2>2. guard' \in GuardRecords /\ guard'.pc = "idle" /\ guard'.hourly = guard.hourly
    BY <1>0, <2>1 DEF GuardRecords
  <2>3. ~guard.hourly
    BY <2>1 DEF GuardInv
  <2>4. QED
    BY <2>1, <2>2, <2>3 DEF GuardInv
<1>2. CASE GuardTicks
  <2>1. /\ guard' = [guard EXCEPT !.pc = "partially"] /\ guard.pc = "idle"
        /\ ConnStatus = "partially" /\ UNCHANGED <<life, up, notes>>
    BY <1>2 DEF GuardTicks, vars, connVars
  <2>2. guard' \in GuardRecords
    BY <1>0, <2>1 DEF GuardRecords
  <2>3. "relay" \in up
    BY <2>1 DEF ConnStatus
  <2>4. QED
    BY <2>1, <2>2, <2>3 DEF GuardInv
<1>3. CASE GuardRetries
  <2>1. /\ guard.pc = "partially" /\ UNCHANGED <<life, up, notes>>
        /\ guard' = IF guard.hourly THEN [guard EXCEPT !.pc = "idle"]
                    ELSE [pc |-> "idle", retries |-> guard.retries + 1, hourly |-> guard.retries >= MaxRetries]
    BY <1>3 DEF GuardRetries, vars, connVars
  <2>2. guard' \in GuardRecords
    BY <1>0, <2>1 DEF GuardRecords
  <2>3. life # "new"
    BY <2>1 DEF GuardInv
  <2>4. QED
    BY <2>1, <2>2, <2>3 DEF GuardInv, Live
<1>4. CASE GuardResets
  <2>1. guard' = [guard EXCEPT !.retries = 0, !.hourly = FALSE] /\ guard.pc = "idle" /\ life' = life
    BY <1>4 DEF GuardResets
  <2>2. guard' \in GuardRecords /\ guard'.pc = "idle" /\ guard'.hourly = FALSE
    BY <1>0, <2>1, Zenon DEF GuardRecords
  <2>3. life # "new"
    BY <2>1 DEF GuardInv
  <2>4. QED
    BY <2>1, <2>2, <2>3 DEF GuardInv
<1>5. CASE GuardReturns
  BY <1>5 DEF GuardReturns, GuardInv, GuardRecords
<1>6. CASE (Next \/ UNCHANGED vars) /\ guard' = guard
  <2>1. notes \subseteq notes' /\ (up' = {} /\ Live' => up = {} \/ notes' # {})
    BY <1>6, NotesNext
  <2>2. (Live' => Live \/ life = "new") /\ (life' = "new" => life = "new")
    BY <1>6, LifeFrame DEF Live, Quiet, vars
  <2>3. QED
    BY <1>6, <2>1, <2>2 DEF GuardInv
<1>7. QED
  BY <1>1, <1>2, <1>3, <1>4, <1>5, <1>6, ZenonT(30) DEF GuardNext, GuardClosed, Next, guardVars

\* With the guard the connection keeps its invariant, and the guard its own.
LEMMA GuardSafety == GuardSpec => [](Inv /\ notes \subseteq {"ice", "relay"} /\ GuardInv)
<1> DEFINE I == Inv /\ notes \subseteq {"ice", "relay"} /\ GuardInv
<1>1. GuardInit => I
  <2> SUFFICES ASSUME GuardInit
               PROVE  I
    BY ZenonT(30)
  <2>1. guard \in GuardRecords /\ guard.pc = "off" /\ guard.hourly = FALSE /\ life = "new" /\ notes = {}
    BY Zenon DEF GuardInit, GuardRecords, Init
  <2>2. GuardInv
    BY <2>1 DEF GuardInv
  <2>3. QED
    BY <2>1, <2>2, InitInv DEF GuardInit
<1>2. I /\ [GuardNext]_guardVars => I'
  <2> SUFFICES ASSUME I, [GuardNext]_guardVars
               PROVE  I'
    OBVIOUS
  <2>1. Inv' /\ GuardInv'
    BY Inductive, GuardSteps, GuardInductive
  <2>2. up \subseteq {"ice", "relay"}
    BY DEF Inv, FrontInv, FrontType
  <2>3. notes' \subseteq notes \union up
    BY GuardSteps, NotesNext DEF GuardResets
  <2>4. QED
    BY <2>1, <2>2, <2>3
<1>3. QED
  BY <1>1, <1>2, PTL DEF GuardSpec

\* The guard never sleeps for an hour while both transports are down and it has
\* no note of it, although it reads their state without conn.mu.
THEOREM GuardIsAwake == GuardSpec => []GuardAwake
<1>1. GuardInv => GuardAwake
  BY DEF GuardInv, GuardAwake
<1>2. QED
  BY <1>1, GuardSafety, PTL

\* What is proved of the connection holds with the guard too: it only takes
\* notes.
THEOREM GuardKeepsConn ==
    GuardSpec => [](TypeOK /\ OneAgent /\ RelayWorks /\ EndpointMatches /\ ConnectedCarries /\ CloseLeavesNothing)
BY GuardSafety, InvImplies, PTL
=============================================================================
