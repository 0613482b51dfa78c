------------------------ MODULE AccountUpdatesProofs ------------------------
(***************************************************************************)
(* Proofs about AccountUpdates for every number of streams and              *)
(* registrations and every bound: the debouncer, and what PeerStreamsProofs *)
(* shows of the handlers, under the controller's way of making passes.      *)
(***************************************************************************)
EXTENDS AccountUpdates, PeerStreamsProofs

-----------------------------------------------------------------------------
(* Sequences of updates and what the debouncer makes of them.              *)

\* The places of ms that the debouncer may not leave out.
Needed(ms) == {k \in DOMAIN ms : ms[k] = Ctl \/ k = Len(ms) \/ ms[k + 1] = Ctl}

\* Where the messages sent stand in ms.
Places(ms, sent, at) ==
    /\ at \in [DOMAIN sent -> DOMAIN ms]
    /\ \A i, j \in DOMAIN sent : i < j => at[i] < at[j]
    /\ \A i \in DOMAIN sent : sent[i] = ms[at[i]]
    /\ \A k \in Needed(ms) : \E i \in DOMAIN sent : k = at[i]

\* The same with the lengths of the two sequences.
LEMMA PlacesOf ==
    ASSUME NEW ms \in Seq(Messages), NEW sent \in Seq(Messages), NEW at, Places(ms, sent, at)
    PROVE  /\ at \in [1 .. Len(sent) -> 1 .. Len(ms)]
           /\ \A i, j \in 1 .. Len(sent) : i < j => at[i] < at[j]
           /\ \A i \in 1 .. Len(sent) : sent[i] = ms[at[i]]
           /\ \A p \in Needed(ms) : \E i \in 1 .. Len(sent) : p = at[i]
<1>1. DOMAIN ms = 1 .. Len(ms) /\ DOMAIN sent = 1 .. Len(sent)
  OBVIOUS
<1> QED
  BY <1>1, Zenon DEF Places

\* MayBecome in these terms.
LEMMA MayBecomePlaces ==
    ASSUME NEW ms, NEW sent
    PROVE  MayBecome(ms, sent) <=> \E at : Places(ms, sent, at)
BY DEF MayBecome, Places, Needed

\* Nothing was taken, nothing was sent.
LEMMA NothingBecomes == MayBecome(<<>>, <<>>)
<1> DEFINE at == [i \in {} |-> 0]
<1>1. DOMAIN <<>> = {} /\ Needed(<<>>) = {}
  BY DEF Needed
<1>2. at \in [{} -> {}]
  OBVIOUS
<1>3. Places(<<>>, <<>>, at)
  BY <1>1, <1>2 DEF Places
<1> QED
  BY <1>3, MayBecomePlaces

\* A message added to a sequence of messages.
LEMMA Appended ==
    ASSUME NEW ms \in Seq(Messages), NEW m \in Messages
    PROVE  /\ Append(ms, m) \in Seq(Messages)
           /\ Len(ms) \in Nat
           /\ DOMAIN ms = 1 .. Len(ms)
           /\ Len(Append(ms, m)) = Len(ms) + 1
           /\ DOMAIN Append(ms, m) = 1 .. Len(ms) + 1
           /\ \A k \in 1 .. Len(ms) : Append(ms, m)[k] = ms[k]
           /\ Append(ms, m)[Len(ms) + 1] = m
OBVIOUS

\* Of the places before an added message none becomes needed.
LEMMA NeededAppended ==
    ASSUME NEW ms \in Seq(Messages), NEW m \in Messages, NEW k \in Needed(Append(ms, m)), k # Len(ms) + 1
    PROVE  k \in Needed(ms)
<1> DEFINE l == Append(ms, m)
<1>1. k \in 1 .. Len(ms) /\ (l[k] = Ctl \/ l[k + 1] = Ctl)
  BY Appended DEF Needed
<1>2. CASE k = Len(ms)
  BY <1>1, <1>2, Appended DEF Needed
<1>3. CASE k # Len(ms)
  <2>1. k + 1 \in 1 .. Len(ms)
    BY <1>1, <1>3, Appended
  <2>2. l[k] = ms[k] /\ l[k + 1] = ms[k + 1]
    BY <1>1, <2>1, Appended
  <2> QED
    BY <1>1, <2>2, Appended DEF Needed
<1> QED
  BY <1>2, <1>3

\* A message that is taken and sent, or queued behind what is pending.
LEMMA BecomesAppended ==
    ASSUME NEW ms \in Seq(Messages), NEW sent \in Seq(Messages), NEW m \in Messages, MayBecome(ms, sent)
    PROVE  MayBecome(Append(ms, m), Append(sent, m))
<1> DEFINE n == Len(ms)
           k == Len(sent)
           l == Append(ms, m)
           t == Append(sent, m)
<1>1. PICK at : Places(ms, sent, at)
  BY MayBecomePlaces
<1> DEFINE to == [i \in 1 .. k + 1 |-> IF i = k + 1 THEN n + 1 ELSE at[i]]
<1>2. /\ n \in Nat /\ k \in Nat /\ DOMAIN ms = 1 .. n /\ DOMAIN sent = 1 .. k
      /\ DOMAIN l = 1 .. n + 1 /\ DOMAIN t = 1 .. k + 1
      /\ (\A i \in 1 .. n : l[i] = ms[i]) /\ l[n + 1] = m
      /\ (\A i \in 1 .. k : t[i] = sent[i]) /\ t[k + 1] = m
  BY Appended
<1>3. /\ at \in [1 .. k -> 1 .. n]
      /\ \A i, j \in 1 .. k : i < j => at[i] < at[j]
      /\ \A i \in 1 .. k : sent[i] = ms[at[i]]
      /\ \A p \in Needed(ms) : \E i \in 1 .. k : p = at[i]
  BY <1>1, PlacesOf
<1>4. ASSUME NEW p \in Needed(l) PROVE \E i \in 1 .. k + 1 : p = to[i]
  <2>1. CASE p = n + 1
    <3>1. k + 1 \in 1 .. k + 1 /\ to[k + 1] = n + 1
      BY <1>2
    <3> QED
      BY <2>1, <3>1
  <2>2. CASE p # n + 1
    <3>1. p \in Needed(ms)
      BY <2>2, NeededAppended
    <3>2. PICK i \in 1 .. k : p = at[i]
      BY <1>3, <3>1
    <3>3. i \in 1 .. k + 1 /\ to[i] = at[i]
      BY <1>2, <3>2
    <3> QED
      BY <3>2, <3>3
  <2> QED
    BY <2>1, <2>2
<1> HIDE DEF n, k, l, t
<1>5. to \in [1 .. k + 1 -> 1 .. n + 1]
  BY <1>2, <1>3
<1>6. ASSUME NEW i \in 1 .. k + 1, NEW j \in 1 .. k + 1, i < j PROVE to[i] < to[j]
  <2>1. i \in 1 .. k /\ to[i] = at[i] /\ at[i] \in 1 .. n
    BY <1>2, <1>3, <1>6
  <2>2. CASE j = k + 1
    BY <1>2, <2>1, <2>2
  <2>3. CASE j # k + 1
    <3>1. j \in 1 .. k /\ to[j] = at[j]
      BY <1>2, <2>3
    <3> QED
      BY <1>3, <1>6, <2>1, <3>1
  <2> QED
    BY <2>2, <2>3
<1>7. ASSUME NEW i \in 1 .. k + 1 PROVE t[i] = l[to[i]]
  <2>1. CASE i = k + 1
    BY <1>2, <2>1
  <2>2. CASE i # k + 1
    <3>1. i \in 1 .. k /\ to[i] = at[i] /\ at[i] \in 1 .. n
      BY <1>2, <1>3, <2>2
    <3> QED
      BY <1>2, <1>3, <3>1
  <2> QED
    BY <2>1, <2>2
<1> HIDE DEF to
<1>8. Places(l, t, to)
  BY <1>2, <1>4, <1>5, <1>6, <1>7, Zenon DEF Places
<1> QED
  BY <1>8, MayBecomePlaces DEF l, t

\* The sequence with another message at its end, as Coalesced makes it.
WithLast(ms, m) == [ms EXCEPT ![Len(ms)] = m]

\* A map that replaces the map it would follow.
LEMMA BecomesReplaced ==
    ASSUME NEW ms \in Seq(Messages), NEW sent \in Seq(Messages), NEW m \in Messages, MayBecome(ms, sent),
           m # Ctl, sent # <<>>, sent[Len(sent)] # Ctl
    PROVE  MayBecome(Append(ms, m), WithLast(sent, m))
<1> DEFINE n == Len(ms)
           k == Len(sent)
           l == Append(ms, m)
           t == [sent EXCEPT ![Len(sent)] = m]
<1>1. PICK at : Places(ms, sent, at)
  BY MayBecomePlaces
<1> DEFINE to == [i \in 1 .. k |-> IF i = k THEN n + 1 ELSE at[i]]
<1>2. /\ n \in Nat /\ k \in Nat \ {0} /\ DOMAIN ms = 1 .. n
      /\ DOMAIN l = 1 .. n + 1 /\ Len(l) = n + 1
      /\ (\A i \in 1 .. n : l[i] = ms[i]) /\ l[n + 1] = m
  BY Appended
<1>3. /\ DOMAIN t = 1 .. k
      /\ (\A i \in 1 .. k : i # k => t[i] = sent[i]) /\ t[k] = m
  BY <1>2
<1>4. /\ at \in [1 .. k -> 1 .. n]
      /\ \A i, j \in 1 .. k : i < j => at[i] < at[j]
      /\ \A i \in 1 .. k : sent[i] = ms[at[i]]
      /\ \A p \in Needed(ms) : \E i \in 1 .. k : p = at[i]
  BY <1>1, PlacesOf
<1>5. k \in 1 .. k /\ at[k] \in 1 .. n /\ n \in Needed(ms)
  BY <1>2, <1>4 DEF Needed
\* The map that is replaced was the last one taken.
<1>6. at[k] = n
  <2>1. PICK i \in 1 .. k : n = at[i]
    BY <1>4, <1>5
  <2>2. CASE i = k
    BY <2>1, <2>2
  <2>3. CASE i # k
    <3>1. i < k
      BY <1>2, <2>3
    <3>2. n < at[k]
      BY <1>4, <1>5, <2>1, <3>1
    <3> QED
      BY <1>2, <1>5, <3>2
  <2> QED
    BY <2>2, <2>3
<1>7. sent[k] = ms[n] /\ ms[n] # Ctl
  BY <1>4, <1>5, <1>6
<1>8. ASSUME NEW p \in Needed(l) PROVE \E i \in 1 .. k : p = to[i]
  <2>1. CASE p = n + 1
    BY <1>5, <2>1
  <2>2. CASE p # n + 1
    <3>1. p \in Needed(ms)
      BY <2>2, NeededAppended
    <3>2. p # n
      BY <1>2, <1>7, <2>2 DEF Needed
    <3>3. PICK i \in 1 .. k : p = at[i]
      BY <1>4, <3>1
    <3>4. i # k
      BY <1>6, <3>2, <3>3
    <3>5. to[i] = at[i]
      BY <3>4
    <3> QED
      BY <3>3, <3>5
  <2> QED
    BY <2>1, <2>2
<1> HIDE DEF n, k, l, t
<1>9. to \in [1 .. k -> 1 .. n + 1]
  BY <1>2, <1>4
<1>10. ASSUME NEW i \in 1 .. k, NEW j \in 1 .. k, i < j PROVE to[i] < to[j]
  <2>1. to[i] = at[i] /\ at[i] \in 1 .. n
    BY <1>2, <1>4, <1>10
  <2>2. CASE j = k
    BY <1>2, <2>1, <2>2
  <2>3. CASE j # k
    BY <1>4, <1>10, <2>1, <2>3
  <2> QED
    BY <2>2, <2>3
<1>11. ASSUME NEW i \in 1 .. k PROVE t[i] = l[to[i]]
  <2>1. CASE i = k
    BY <1>2, <1>3, <2>1
  <2>2. CASE i # k
    <3>1. to[i] = at[i] /\ at[i] \in 1 .. n
      BY <1>4, <2>2
    <3> QED
      BY <1>2, <1>3, <1>4, <2>2, <3>1, Zenon
  <2> QED
    BY <2>1, <2>2
<1> HIDE DEF to
<1>12. Places(l, t, to)
  BY <1>2, <1>3, <1>8, <1>9, <1>10, <1>11, ZenonT(30) DEF Places
<1> QED
  BY <1>12, MayBecomePlaces DEF l, t, WithLast

\* The last message pending is the last one of all.
LEMMA LastReplaced ==
    ASSUME NEW a \in Seq(Messages), NEW p \in Seq(Messages), p # <<>>, NEW m \in Messages
    PROVE  a \o WithLast(p, m) = WithLast(a \o p, m)
<1> DEFINE x == [p EXCEPT ![Len(p)] = m]
           c == a \o p
           l == a \o x
           n == Len(a) + Len(p)
           r == [c EXCEPT ![n] = m]
<1>1. Len(a) \in Nat /\ Len(p) \in Nat \ {0}
  OBVIOUS
<1>2. /\ x \in Seq(Messages) /\ Len(x) = Len(p) /\ x[Len(p)] = m
      /\ \A i \in 1 .. Len(p) : i # Len(p) => x[i] = p[i]
  BY <1>1
<1>3. /\ c \in Seq(Messages) /\ Len(c) = n
      /\ \A i \in 1 .. n : c[i] = IF i <= Len(a) THEN a[i] ELSE p[i - Len(a)]
  BY <1>1
<1> HIDE DEF c, x
<1>4. /\ c \in [1 .. n -> Messages]
      /\ r \in [1 .. n -> Messages]
  <2>1. c \in [1 .. Len(c) -> Messages]
    BY <1>3
  <2> QED
    BY <1>3, <2>1
<1>5. /\ l \in Seq(Messages) /\ Len(l) = n
      /\ \A i \in 1 .. n : l[i] = IF i <= Len(a) THEN a[i] ELSE x[i - Len(a)]
  BY <1>1, <1>2
<1> HIDE DEF l
<1>6. l \in [1 .. n -> Messages]
  <2>1. l \in [1 .. Len(l) -> Messages]
    BY <1>5
  <2> QED
    BY <1>5, <2>1
<1>7. ASSUME NEW i \in 1 .. n PROVE l[i] = r[i]
  <2>1. CASE i = n
    <3>1. ~(i <= Len(a)) /\ i - Len(a) = Len(p)
      BY <1>1, <2>1
    <3>2. l[i] = m
      BY <1>2, <1>5, <3>1
    <3>3. r[i] = m
      BY <1>4, <2>1
    <3> QED
      BY <3>2, <3>3
  <2>2. CASE i # n
    <3>1. r[i] = c[i]
      BY <1>4, <2>2
    <3>2. CASE i <= Len(a)
      BY <1>3, <1>5, <3>1, <3>2
    <3>3. CASE ~(i <= Len(a))
      <4>1. i - Len(a) \in 1 .. Len(p) /\ i - Len(a) # Len(p)
        BY <1>1, <2>2, <3>3
      <4>2. x[i - Len(a)] = p[i - Len(a)]
        BY <1>2, <4>1, Zenon
      <4> QED
        BY <1>3, <1>5, <3>1, <3>3, <4>2
    <3> QED
      BY <3>2, <3>3
  <2> QED
    BY <2>1, <2>2
<1>8. l = r
  <2> DEFINE D == 1 .. n
  <2>1. l \in [D -> Messages] /\ r \in [D -> Messages] /\ \A i \in D : l[i] = r[i]
    BY <1>4, <1>6, <1>7
  <2> HIDE DEF r, D
  <2> QED
    BY <2>1
<1> QED
  BY <1>3, <1>8, Zenon DEF l, c, x, WithLast

\* What is pending stays behind what was sent.
LEMMA PendingBehind ==
    ASSUME NEW o \in Seq(Messages), o # <<>>, NEW p \in Seq(Messages), NEW m \in Messages
    PROVE  /\ Tail(o) \o p \in Seq(Messages)
           /\ Tail(o) \o <<>> = Tail(o)
           /\ Tail(o \o p) = Tail(o) \o p
           /\ Tail(o \o <<m>>) = Append(Tail(o), m)
           /\ Tail(o) \o Append(p, m) = Append(Tail(o) \o p, m)
           /\ p # <<>> => /\ Tail(o) \o p # <<>>
                          /\ (Tail(o) \o p)[Len(Tail(o) \o p)] = p[Len(p)]
                          /\ Tail(o) \o WithLast(p, m) = WithLast(Tail(o) \o p, m)
<1>1. Tail(o) \in Seq(Messages) /\ Tail(o) \o p \in Seq(Messages)
  OBVIOUS
<1>2. Tail(o) \o <<>> = Tail(o)
  OBVIOUS
<1>3. Tail(o \o p) = Tail(o) \o p
  OBVIOUS
<1>4. Tail(o \o <<m>>) = Append(Tail(o), m)
  OBVIOUS
<1>5. Tail(o) \o Append(p, m) = Append(Tail(o) \o p, m)
  OBVIOUS
<1>6. ASSUME p # <<>>
      PROVE  Tail(o) \o p # <<>> /\ (Tail(o) \o p)[Len(Tail(o) \o p)] = p[Len(p)]
  BY <1>1, <1>6
<1>7. ASSUME p # <<>>
      PROVE  Tail(o) \o WithLast(p, m) = WithLast(Tail(o) \o p, m)
  BY <1>1, <1>7, LastReplaced, Zenon
<1> QED
  BY <1>1, <1>2, <1>3, <1>4, <1>5, <1>6, <1>7, Zenon

\* Nothing behind a sequence leaves it as it is.
LEMMA EmptyBehind ==
    ASSUME NEW ms \in Seq(Messages)
    PROVE  ms \o <<>> = ms /\ (Len(ms) = 0 => ms = <<>>)
OBVIOUS

\* After the initial map alone there is nothing.
LEMMA OnlyOne ==
    ASSUME NEW o \in Seq(Messages), Len(o) = 1
    PROVE  o # <<>> /\ Tail(o) \o <<>> = <<>>
<1>1. o # <<>> /\ Tail(o) \in Seq(Messages) /\ Len(Tail(o)) = 0
  OBVIOUS
<1>2. Tail(o) = <<>>
  BY <1>1, EmptyBehind, Zenon
<1>3. <<>> \o <<>> = <<>>
  OBVIOUS
<1> QED
  BY <1>1, <1>2, <1>3

-----------------------------------------------------------------------------
(* The debouncer.                                                          *)

BeforeLoopPcs == {"idle"} \union InitPcs

\* What Debouncing needs of the handler s: there is something pending only in
\* the loop of Sync while the timer runs, so an update that is sent at once
\* passes none; nothing is taken before the loop, and the client has by then
\* received the initial map.
DebounceOf(s) ==
    /\ stream[s].pending # <<>> => stream[s].pc = "loop" /\ stream[s].timer /\ kind = "sync"
    /\ stream[s].pc \in BeforeLoopPcs => taken[s] = <<>>
    /\ stream[s].pc \in {"register", "channel", "refresh"} /\ ~left[s] => Len(out[s]) = 1
    /\ stream[s].pc = "loop" /\ ~left[s] =>
           out[s] # <<>> /\ MayBecome(taken[s], Tail(out[s]) \o stream[s].pending)

DebounceInv == \A s \in Streams : DebounceOf(s)

\* Nothing changes for a handler whose state and messages stay.
LEMMA KeepsDebounce ==
    ASSUME NEW s \in Streams, DebounceOf(s), kind' = kind, stream'[s] = stream[s], left'[s] = left[s],
           out'[s] = out[s], taken'[s] = taken[s]
    PROVE  DebounceOf(s)'
BY DEF DebounceOf

\* Nothing changes for anyone in a step that is no handler's.
LEMMA KeepsDebounceAll ==
    ASSUME DebounceInv, kind' = kind, UNCHANGED handlerVars
    PROVE  DebounceInv'
BY KeepsDebounce, ZenonT(30) DEF DebounceInv, handlerVars

\* A handler outside its loop drops what is pending or has nothing pending.
LEMMA WalksDebounce ==
    ASSUME NEW s \in Streams, DebounceOf(s), out'[s] = out[s], taken'[s] = taken[s], left'[s] = left[s],
           stream'[s].pc # "loop",
           \/ stream'[s].pending = <<>>
           \/ stream'[s].pending = stream[s].pending /\ stream[s].pc # "loop",
           stream'[s].pc \in BeforeLoopPcs => stream[s].pc \in BeforeLoopPcs,
           stream'[s].pc \in {"register", "channel", "refresh"} => stream[s].pc \in {"register", "channel", "refresh"}
    PROVE  DebounceOf(s)'
<1>1. stream'[s].pending = <<>>
  BY DEF DebounceOf
<1>2. stream'[s].pc \in BeforeLoopPcs => taken'[s] = <<>>
  BY DEF DebounceOf
<1>3. stream'[s].pc \in {"register", "channel", "refresh"} /\ ~left'[s] => Len(out'[s]) = 1
  BY ZenonT(30) DEF DebounceOf
<1> QED
  BY <1>1, <1>2, <1>3 DEF DebounceOf, BeforeLoopPcs, InitPcs

\* Entering the loop, the client has the initial map and nothing was taken.
LEMMA EntersDebounce ==
    ASSUME NEW s \in Streams, DebounceOf(s), stream[s].pc = "refresh", stream'[s].pc = "loop",
           stream'[s].pending = stream[s].pending, out[s] \in Seq(Messages),
           out'[s] = out[s], taken'[s] = taken[s], left'[s] = left[s]
    PROVE  DebounceOf(s)'
<1>1. stream'[s].pending = <<>> /\ taken'[s] = <<>>
  BY DEF DebounceOf, BeforeLoopPcs, InitPcs
<1>2. ASSUME ~left'[s]
      PROVE  out'[s] # <<>> /\ MayBecome(taken'[s], Tail(out'[s]) \o stream'[s].pending)
  <2>1. Len(out[s]) = 1
    BY <1>2 DEF DebounceOf
  <2>2. out[s] # <<>> /\ Tail(out[s]) \o <<>> = <<>>
    BY <2>1, OnlyOne
  <2> QED
    BY <1>1, <2>2, NothingBecomes, Zenon
<1> QED
  BY <1>1, <1>2 DEF DebounceOf, BeforeLoopPcs, InitPcs

\* An update that is sent at once: nothing is pending.
LEMMA SentAtOnce ==
    ASSUME NEW s \in Streams, DebounceOf(s), stream[s].pc = "loop", ~(kind = "sync" /\ stream[s].timer),
           NEW m \in Messages, out[s] \in Seq(Messages), taken[s] \in Seq(Messages), ~left[s]
    PROVE  /\ stream[s].pending = <<>>
           /\ out[s] \o <<m>> # <<>>
           /\ MayBecome(Append(taken[s], m), Tail(out[s] \o <<m>>) \o <<>>)
<1>1. /\ stream[s].pending = <<>> /\ out[s] # <<>>
      /\ MayBecome(taken[s], Tail(out[s]) \o stream[s].pending)
  BY DEF DebounceOf
<1>2. <<>> \in Seq(Messages) /\ Tail(out[s]) \in Seq(Messages)
  BY <1>1
<1>3. Tail(out[s]) \o <<>> = Tail(out[s]) /\ Tail(out[s] \o <<m>>) = Append(Tail(out[s]), m)
  BY <1>1, <1>2, PendingBehind, ZenonT(30)
<1>4. Append(Tail(out[s]), m) \o <<>> = Append(Tail(out[s]), m)
  BY <1>2
<1>5. out[s] \o <<m>> # <<>>
  BY <1>1
<1> QED
  BY <1>1, <1>2, <1>3, <1>4, <1>5, BecomesAppended, Zenon

\* An update that is kept for the timer.
LEMMA KeptForTimer ==
    ASSUME NEW s \in Streams, DebounceOf(s), stream[s].pc = "loop", NEW m \in Messages,
           out[s] \in Seq(Messages), taken[s] \in Seq(Messages), stream[s].pending \in Seq(Messages), ~left[s]
    PROVE  MayBecome(Append(taken[s], m), Tail(out[s]) \o Coalesced(stream[s].pending, m))
<1> DEFINE p == stream[s].pending
           all == Tail(out[s]) \o p
<1>1. out[s] # <<>> /\ MayBecome(taken[s], all)
  BY DEF DebounceOf
<1>2. all \in Seq(Messages)
  BY <1>1, PendingBehind
<1>3. CASE p # <<>> /\ m # Ctl /\ p[Len(p)] # Ctl
  <2>1. all # <<>> /\ all[Len(all)] # Ctl /\ Tail(out[s]) \o WithLast(p, m) = WithLast(all, m)
    BY <1>1, <1>3, PendingBehind, ZenonT(30)
  <2>2. Coalesced(p, m) = WithLast(p, m)
    BY <1>3 DEF Coalesced, WithLast
  <2> HIDE DEF p, all
  <2>3. MayBecome(Append(taken[s], m), WithLast(all, m))
    BY <1>1, <1>2, <1>3, <2>1, BecomesReplaced
  <2> QED
    BY <2>1, <2>2, <2>3, Zenon DEF p
<1>4. CASE ~(p # <<>> /\ m # Ctl /\ p[Len(p)] # Ctl)
  <2>1. Tail(out[s]) \o Append(p, m) = Append(all, m)
    BY <1>1, PendingBehind, Zenon
  <2>2. Coalesced(p, m) = Append(p, m)
    BY <1>4 DEF Coalesced
  <2> HIDE DEF p, all
  <2>3. MayBecome(Append(taken[s], m), Append(all, m))
    BY <1>1, <1>2, BecomesAppended
  <2> QED
    BY <2>1, <2>2, <2>3, Zenon DEF p
<1> QED
  BY <1>3, <1>4

\* Update and Debounced by a client that stays.
LEMMA LoopDebounce ==
    ASSUME TypeInv, NEW s \in Streams, DebounceOf(s), Update(s) \/ Debounced(s)
    PROVE  DebounceOf(s)'
<1> DEFINE p == stream[s].pending
           m == Head(buf[s])
<1>0. /\ stream \in [Streams -> StreamRecords] /\ out \in [Streams -> Seq(Messages)]
      /\ taken \in [Streams -> Seq(Messages)] /\ buf[s] \in Seq(Messages)
      /\ p \in Seq(Messages) /\ out[s] \in Seq(Messages) /\ taken[s] \in Seq(Messages)
  BY ZenonT(30) DEF TypeInv, HandlerType, QueueType, StreamRecords
<1>1. stream[s].pc = "loop" /\ stream'[s].pc = "loop" /\ kind' = kind /\ left' = left
  BY <1>0, LoopMoves, Zenon DEF MovesTo, Update, Debounced, peerVars
<1>2. ASSUME stream'[s].pending # <<>> => stream'[s].timer /\ kind = "sync",
             ~left[s] => out'[s] # <<>> /\ MayBecome(taken'[s], Tail(out'[s]) \o stream'[s].pending)
      PROVE  DebounceOf(s)'
  BY <1>1, <1>2 DEF DebounceOf, BeforeLoopPcs, InitPcs
<1>3. CASE Update(s) /\ kind = "sync" /\ stream[s].timer
  <2>1. /\ stream' = [stream EXCEPT ![s].pending = Coalesced(p, m)] /\ out' = out
        /\ taken' = IF left[s] THEN taken ELSE [taken EXCEPT ![s] = Append(taken[s], m)]
    BY <1>3 DEF Update
  <2>2. m \in Messages
    BY <1>0, <1>3 DEF Update
  <2>3. stream'[s].pending = Coalesced(p, m) /\ stream'[s].timer = stream[s].timer
    BY <1>0, <2>1 DEF StreamRecords
  <2>4. ~left[s] => taken'[s] = Append(taken[s], m) /\ out[s] # <<>>
    BY <1>0, <1>1, <2>1, ZenonT(30) DEF DebounceOf
  <2>5. ~left[s] => MayBecome(Append(taken[s], m), Tail(out[s]) \o Coalesced(p, m))
    BY <1>0, <1>1, <2>2, KeptForTimer
  <2> QED
    BY <1>2, <1>3, <2>1, <2>3, <2>4, <2>5, ZenonT(30)
<1>4. CASE Update(s) /\ ~(kind = "sync" /\ stream[s].timer)
  <2>1. /\ stream' = [stream EXCEPT ![s].timer = (kind = "sync")]
        /\ out' = IF left[s] THEN out ELSE [out EXCEPT ![s] = out[s] \o <<m>>]
        /\ taken' = IF left[s] THEN taken ELSE [taken EXCEPT ![s] = Append(taken[s], m)]
    BY <1>4 DEF Update, Deliver
  <2>2. m \in Messages
    BY <1>0, <1>4 DEF Update
  <2>3. p = <<>> /\ stream'[s].pending = p
    BY <1>0, <1>4, <2>1 DEF StreamRecords, DebounceOf
  <2>4. ~left[s] => taken'[s] = Append(taken[s], m) /\ out'[s] = out[s] \o <<m>>
    BY <1>0, <2>1, ZenonT(30)
  <2>5. ~left[s] => /\ out[s] \o <<m>> # <<>>
                    /\ MayBecome(Append(taken[s], m), Tail(out[s] \o <<m>>) \o <<>>)
    BY <1>0, <1>1, <1>4, <2>2, SentAtOnce
  <2> HIDE DEF m
  <2> QED
    BY <1>2, <2>3, <2>4, <2>5, Zenon
<1>5. CASE Debounced(s)
  <2>1. /\ stream' = [stream EXCEPT ![s].pending = <<>>, ![s].timer = (p # <<>>)]
        /\ out' = IF left[s] THEN out ELSE [out EXCEPT ![s] = out[s] \o p]
        /\ taken' = taken
    BY <1>5 DEF Debounced, Deliver
  <2>2. stream'[s].pending = <<>>
    BY <1>0, <2>1 DEF StreamRecords
  <2>3. ~left[s] => out'[s] = out[s] \o p /\ out[s] # <<>> /\ MayBecome(taken[s], Tail(out[s]) \o p)
    BY <1>0, <1>1, <2>1, ZenonT(30) DEF DebounceOf
  <2>4. ASSUME ~left[s] PROVE out[s] \o p # <<>> /\ Tail(out[s] \o p) \o <<>> = Tail(out[s]) \o p
    <3>1. Tail(out[s] \o p) = Tail(out[s]) \o p /\ Tail(out[s]) \o p \in Seq(Messages)
      BY <1>0, <2>3, <2>4, PendingBehind, 0 \in Messages, Zenon DEF Messages, Ctl
    <3>2. out[s] \o p # <<>>
      BY <1>0, <2>3, <2>4
    <3> QED
      BY <3>1, <3>2, EmptyBehind, Zenon
  <2> QED
    BY <1>2, <2>1, <2>2, <2>3, <2>4, Zenon
<1> QED
  BY <1>3, <1>4, <1>5, ZenonT(30)

\* Every step of PeerStreams keeps the debouncer's invariant.
LEMMA NextDebounce == TypeInv /\ DebounceInv /\ [Next]_vars => DebounceInv'
<1> SUFFICES ASSUME TypeInv, DebounceInv, [Next]_vars PROVE DebounceInv'
  OBVIOUS
<1>0. /\ stream \in [Streams -> StreamRecords] /\ out \in [Streams -> Seq(Messages)]
      /\ taken \in [Streams -> Seq(Messages)] /\ left \in [Streams -> BOOLEAN]
      /\ \A s \in Streams : DebounceOf(s)
  BY DEF TypeInv, HandlerType, QueueType, DebounceInv
\* It is enough to look at the handler that takes the step.
<1>1. ASSUME NEW s \in Streams, kind' = kind, Others(s),
             out' = [out EXCEPT ![s] = out'[s]], taken' = [taken EXCEPT ![s] = taken'[s]],
             left' = [left EXCEPT ![s] = left'[s]], DebounceOf(s)'
      PROVE  DebounceInv'
  <2>1. ASSUME NEW q \in Streams, q # s PROVE DebounceOf(q)'
    <3>1. stream'[q] = stream[q] /\ left'[q] = left[q] /\ out'[q] = out[q] /\ taken'[q] = taken[q]
      BY <1>0, <1>1, <2>1, ZenonT(30) DEF Others
    <3> QED
      BY <1>0, <1>1, <3>1, KeepsDebounce, ZenonT(30)
  <2> QED
    BY <1>1, <2>1 DEF DebounceInv
\* A step of a handler that leaves its client's messages alone.
<1>2. ASSUME NEW s \in Streams, kind' = kind, UNCHANGED <<out, taken, left>>, Others(s), DebounceOf(s)'
      PROVE  DebounceInv'
  BY <1>0, <1>1, <1>2, ZenonT(30)
<1>3. ASSUME NEW s \in Streams, NEW pc, Pc(s, pc) PROVE stream'[s].pending = stream[s].pending /\ MovesTo(s, pc)
  <2>1. MovesTo(s, pc)
    BY <1>0, <1>3, PcMoves
  <2>2. stream'[s].pending = stream[s].pending
    BY <1>0, <1>3 DEF Pc, StreamRecords
  <2> QED
    BY <2>1, <2>2
<1>4. ASSUME NEW s \in Streams, Return(s) PROVE stream'[s].pending = <<>> /\ stream'[s].pc = "done" /\ Others(s)
  BY <1>0, <1>4 DEF Return, Others, NewStream
<1>5. ASSUME NEW s \in Streams, Open(s) PROVE DebounceInv'
  <2>1. /\ stream[s].pc = "idle" /\ stream'[s].pc \in {"user", "done"} /\ Others(s)
        /\ kind' = kind /\ UNCHANGED <<out, taken, left>>
    BY <1>0, <1>5, OpenMoves, Zenon DEF Open
  <2>2. stream'[s].pending \in {stream[s].pending, <<>>}
    <3>1. CASE Return(s)
      BY <1>4, <3>1
    <3>2. CASE ~Return(s)
      <4>1. stream' = [stream EXCEPT ![s].pc = "user", ![s].start = clock']
        BY <1>5, <3>2, Zenon DEF Open
      <4> QED
        BY <1>0, <4>1 DEF StreamRecords
    <3> QED
      BY <3>1, <3>2
  <2>3. DebounceOf(s)'
    BY <1>0, <2>1, <2>2, WalksDebounce, Zenon DEF BeforeLoopPcs, InitPcs
  <2> QED
    BY <1>2, <2>1, <2>3
<1>5a. ASSUME NEW s \in Streams, LookUpUser(s) \/ LookUpAccount(s) PROVE DebounceInv'
  <2>1. kind' = kind /\ UNCHANGED <<out, taken, left>> /\ stream[s].pc \in {"user", "account"}
    BY <1>5a, Zenon DEF LookUpUser, LookUpAccount, peerVars
  <2>2. Pc(s, "account") \/ Pc(s, "lock") \/ Return(s)
    BY <1>5a, ZenonT(30) DEF LookUpUser, LookUpAccount
  <2>3. /\ stream'[s].pc \in {"account", "lock", "done"} /\ Others(s)
        /\ stream'[s].pending \in {stream[s].pending, <<>>}
    BY <1>3, <1>4, <2>2 DEF MovesTo
  <2>4. DebounceOf(s)'
    BY <1>0, <2>1, <2>3, WalksDebounce, Zenon DEF BeforeLoopPcs, InitPcs
  <2> QED
    BY <1>2, <2>1, <2>3, <2>4, ZenonT(30)
<1>6. ASSUME NEW s \in Streams,
             \/ AcquirePeerLock(s) \/ MarkConnected(s) \/ RegisterChannel(s) \/ CancelStatus(s) \/ CancelChannel(s)
      PROVE  DebounceInv'
  <2>1. kind' = kind /\ UNCHANGED <<out, taken, left>>
    BY <1>6, Zenon DEF AcquirePeerLock, MarkConnected, RegisterChannel, CancelStatus, CancelChannel, peerVars
  <2>2. \E pc : /\ Pc(s, pc)
                /\ <<stream[s].pc, pc>> \in {<<"lock", "sync">>, <<"cancelLock", "cancel">>, <<"mark", "initial">>,
                                             <<"channel", "refresh">>, <<"cancel", "cancelChannel">>, <<"cancelChannel", "cancelRefresh">>}
    BY <1>6, ZenonT(30) DEF AcquirePeerLock, MarkConnected, RegisterChannel, CancelStatus, CancelChannel
  <2>3. /\ stream'[s].pending = stream[s].pending /\ Others(s)
        /\ <<stream[s].pc, stream'[s].pc>> \in {<<"lock", "sync">>, <<"cancelLock", "cancel">>, <<"mark", "initial">>,
                                               <<"channel", "refresh">>, <<"cancel", "cancelChannel">>, <<"cancelChannel", "cancelRefresh">>}
    BY <1>3, <2>2 DEF MovesTo
  <2>4. DebounceOf(s)'
    BY <1>0, <2>1, <2>3, WalksDebounce, Zenon DEF BeforeLoopPcs, InitPcs
  <2> QED
    BY <1>2, <2>1, <2>3, <2>4, ZenonT(30)
<1>7. ASSUME NEW s \in Streams, SyncPeer(s) PROVE DebounceInv'
  <2>1. kind' = kind /\ UNCHANGED <<out, taken, left>> /\ stream[s].pc = "sync"
    BY <1>7, ZenonT(30) DEF SyncPeer
  <2>2. stream'[s].pc \in {"mark", "done"} /\ Others(s)
    BY <1>0, <1>7, SyncPeerMoves, ZenonT(30) DEF Returned
  <2>3. stream'[s].pending \in {stream[s].pending, <<>>}
    <3>1. CASE Return(s)
      BY <1>4, <3>1
    <3>2. CASE ~Return(s)
      <4>1. stream' = [stream EXCEPT ![s].pc = "mark", ![s].id = id, ![s].map = serial,
                             ![s].time = IF kind = "machine" THEN clock' ELSE stream[s].start]
        BY <1>7, <3>2, Zenon DEF SyncPeer
      <4> QED
        BY <1>0, <4>1 DEF StreamRecords
    <3> QED
      BY <3>1, <3>2
  <2>4. DebounceOf(s)'
    BY <1>0, <2>1, <2>2, <2>3, WalksDebounce, Zenon DEF BeforeLoopPcs, InitPcs
  <2> QED
    BY <1>2, <2>1, <2>2, <2>4, ZenonT(30)
<1>8. ASSUME NEW s \in Streams, SendInitialSync(s) PROVE DebounceInv'
  <2>1. /\ kind' = kind /\ UNCHANGED <<taken, left>> /\ stream[s].pc = "initial" /\ Pc(s, "register")
        /\ out' = IF left[s] THEN out ELSE [out EXCEPT ![s] = <<stream[s].map>>]
    BY <1>8, ZenonT(30) DEF SendInitialSync, peerVars
  <2>2. stream'[s].pending = stream[s].pending /\ stream'[s].pc = "register" /\ Others(s)
    BY <1>3, <2>1, ZenonT(30) DEF MovesTo
  <2>3. stream'[s].pending = <<>> /\ taken'[s] = <<>>
    BY <1>0, <2>1, <2>2, ZenonT(30) DEF DebounceOf, BeforeLoopPcs, InitPcs
  <2>4. ~left'[s] => Len(out'[s]) = 1
    BY <1>0, <2>1, ZenonT(30)
  <2>5. DebounceOf(s)'
    BY <2>2, <2>3, <2>4, ZenonT(30) DEF DebounceOf
  <2>6. /\ out' = [out EXCEPT ![s] = out'[s]] /\ taken' = [taken EXCEPT ![s] = taken'[s]]
        /\ left' = [left EXCEPT ![s] = left'[s]]
    BY <1>0, <2>1, Zenon
  <2> QED
    BY <1>1, <2>1, <2>2, <2>5, <2>6, ZenonT(30)
<1>9. ASSUME NEW s \in Streams, SendInitialSyncFails(s) PROVE DebounceInv'
  <2>1. kind' = kind /\ UNCHANGED <<out, taken, left>> /\ stream[s].pc = "initial" /\ (Pc(s, "cancel") \/ Return(s))
    BY <1>9, ZenonT(30) DEF SendInitialSyncFails, peerVars
  <2>2. stream'[s].pc \in {"cancel", "done"} /\ Others(s) /\ stream'[s].pending \in {stream[s].pending, <<>>}
    BY <1>3, <1>4, <2>1 DEF MovesTo
  <2>3. DebounceOf(s)'
    BY <1>0, <2>1, <2>2, WalksDebounce, Zenon DEF BeforeLoopPcs, InitPcs
  <2> QED
    BY <1>2, <2>1, <2>2, <2>3, ZenonT(30)
<1>10. ASSUME NEW s \in Streams, OnPeerConnected(s) PROVE DebounceInv'
  <2>1. /\ kind' = kind /\ UNCHANGED <<out, taken, left>> /\ stream[s].pc = "register"
        /\ \E pc \in {"channel", "cancel", "cancelLock"} : Pc(s, pc)
    BY <1>10, ZenonT(30) DEF OnPeerConnected, peerVars
  <2>2. /\ stream'[s].pc \in {"channel", "cancel", "cancelLock"} /\ Others(s)
        /\ stream'[s].pending = stream[s].pending
    BY <1>3, <2>1 DEF MovesTo
  <2>3. DebounceOf(s)'
    BY <1>0, <2>1, <2>2, WalksDebounce, Zenon DEF BeforeLoopPcs, InitPcs
  <2> QED
    BY <1>2, <2>1, <2>2, <2>3, ZenonT(30)
<1>11. ASSUME NEW s \in Streams, EnterLoop(s) PROVE DebounceInv'
  <2>1. kind' = kind /\ UNCHANGED <<out, taken, left>> /\ stream[s].pc = "refresh" /\ Pc(s, "loop")
    BY <1>11, ZenonT(30) DEF EnterLoop, peerVars
  <2>2. stream'[s].pc = "loop" /\ Others(s) /\ stream'[s].pending = stream[s].pending
    BY <1>3, <2>1, ZenonT(30) DEF MovesTo
  <2>3. DebounceOf(s)'
    BY <1>0, <2>1, <2>2, EntersDebounce, ZenonT(30)
  <2> QED
    BY <1>2, <2>1, <2>2, <2>3, ZenonT(30)
<1>12. ASSUME NEW s \in Streams, Update(s) \/ Debounced(s) PROVE DebounceInv'
  <2>1. Others(s) /\ kind' = kind /\ left' = left
    BY <1>0, <1>12, LoopMoves, Zenon DEF MovesTo, Update, Debounced, peerVars
  <2>2. /\ taken' \in {taken, [taken EXCEPT ![s] = Append(taken[s], Head(buf[s]))]}
        /\ out' \in {out, [out EXCEPT ![s] = out[s] \o <<Head(buf[s])>>], [out EXCEPT ![s] = out[s] \o stream[s].pending]}
    BY <1>12, Zenon DEF Update, Debounced, Deliver
  <2>3. /\ taken' = [taken EXCEPT ![s] = taken'[s]] /\ out' = [out EXCEPT ![s] = out'[s]]
        /\ left' = [left EXCEPT ![s] = left'[s]]
    BY <1>0, <2>1, <2>2, ZenonT(30)
  <2>4. DebounceOf(s)'
    BY <1>0, <1>12, LoopDebounce, ZenonT(30)
  <2> QED
    BY <1>1, <2>1, <2>3, <2>4, ZenonT(30)
<1>13. ASSUME NEW s \in Streams, LeaveLoop(s) PROVE DebounceInv'
  <2>1. kind' = kind /\ UNCHANGED <<out, taken, left>> /\ stream'[s].pc = "cancelLock" /\ Others(s)
    BY <1>0, <1>13, LeaveLoopMoves, Zenon DEF LeaveLoop, MovesTo, peerVars
  <2>2. stream'[s].pending = <<>>
    BY <1>0, <1>13 DEF LeaveLoop, StreamRecords
  <2>3. DebounceOf(s)'
    BY <1>0, <2>1, <2>2, WalksDebounce, Zenon DEF BeforeLoopPcs, InitPcs
  <2> QED
    BY <1>2, <2>1, <2>3
<1>14. ASSUME NEW s \in Streams, CancelRefresh(s) PROVE DebounceInv'
  <2>1. kind' = kind /\ UNCHANGED <<out, taken, left>> /\ Return(s)
    BY <1>14 DEF CancelRefresh, peerVars
  <2>2. stream'[s].pending = <<>> /\ stream'[s].pc = "done" /\ Others(s)
    BY <1>4, <2>1
  <2>3. DebounceOf(s)'
    BY <1>0, <2>1, <2>2, WalksDebounce, Zenon DEF BeforeLoopPcs, InitPcs
  <2> QED
    BY <1>2, <2>1, <2>2, <2>3, ZenonT(30)
<1>15. ASSUME NEW s \in Streams, Leave(s) PROVE DebounceInv'
  <2>1. /\ kind' = kind /\ stream' = stream
        /\ left' = [left EXCEPT ![s] = TRUE] /\ out' = [out EXCEPT ![s] = <<>>] /\ taken' = [taken EXCEPT ![s] = <<>>]
    BY <1>15 DEF Leave, peerVars
  <2>2. left'[s] /\ taken'[s] = <<>> /\ stream'[s] = stream[s]
    BY <1>0, <2>1, ZenonT(30)
  <2>3. DebounceOf(s)'
    BY <1>0, <2>1, <2>2 DEF DebounceOf
  <2>4. /\ taken' = [taken EXCEPT ![s] = taken'[s]] /\ out' = [out EXCEPT ![s] = out'[s]]
        /\ left' = [left EXCEPT ![s] = left'[s]] /\ Others(s)
    BY <1>0, <2>1 DEF Others
  <2> QED
    BY <1>1, <2>1, <2>3, <2>4, Zenon
<1>16. ASSUME \/ Account \/ Updates \/ UNCHANGED vars
              \/ \E p \in Passes : PassReads(p) \/ PassSends(p) \/ PassFails(p)
       PROVE  DebounceInv'
  <2>1. kind' = kind /\ UNCHANGED handlerVars
    BY <1>16, Zenon DEF Account, Updates, RegisterPeer, DeletePeer, OnPeersDeleted, EphemeralCleanup, DeletePeers,
         ReportMachineStatus, AccountChange, PushTokens, PassReads, PassSends, PassFails, peerVars, vars
  <2> QED
    BY <2>1, KeepsDebounceAll
<1> QED
  BY <1>5, <1>5a, <1>6, <1>7, <1>8, <1>9, <1>10, <1>11, <1>12, <1>13, <1>14, <1>15, <1>16, ZenonT(30)
     DEF Next, StreamNext, Handler

-----------------------------------------------------------------------------
(* The steps of the controller.                                            *)

\* A pass reads the account when the controller lets it, or a call is noted: the
\* handlers do not see it.
Unseen ==
    /\ UNCHANGED <<peerVars, handlerVars, channelVars, deleting, done>>
    /\ wanted' \in {wanted, FALSE}
    /\ pass' = pass \/ \E p \in Passes : pass' = [pass EXCEPT ![p] = [map |-> serial, id |-> id]]

\* bufferSendUpdateAccountPeers and its timer add nothing else to the steps of
\* PeerStreams.
LEMMA BufferSteps == [BufferNext]_bufferVars => [Next]_vars \/ Unseen
<1> SUFFICES ASSUME [BufferNext]_bufferVars PROVE [Next]_vars \/ Unseen
  OBVIOUS
<1>1. "direct" \in Passes /\ "buffer" \in Passes /\ "timer" \in Passes
  BY PassesAssumption
<1>2. CASE StreamNext \/ Updates \/ PassReads("direct") \/ \E p \in Passes : PassEnds(p)
  BY <1>1, <1>2 DEF PassEnds, Next
<1>3. CASE BufferSendUpdate
  BY <1>3, Zenon DEF BufferSendUpdate, Unseen
<1>4. ASSUME NEW p \in Passes, Reads(p) PROVE Unseen
  BY <1>4, Zenon DEF Reads, Unseen
<1>5. CASE BufferCheck \/ BufferUnlock \/ UNCHANGED bufferVars
  BY <1>5 DEF BufferCheck, BufferUnlock, bufferVars
<1> QED
  BY <1>1, <1>2, <1>3, <1>4, <1>5, ZenonT(30) DEF BufferNext, BufferReads, TimerFires

\* What the handlers do not see keeps their invariants.
LEMMA UnseenInv == IInv /\ DebounceInv /\ Unseen => IInv' /\ DebounceInv'
<1> SUFFICES ASSUME IInv, DebounceInv, Unseen PROVE IInv' /\ DebounceInv'
  OBVIOUS
<1>0. UNCHANGED <<kind, ephemeral, id, ids, status, serial, clock, lock, stream, left, out, taken, syncSem,
                  chan, buf, closed, refresh, listed, expired, deleting, done>>
  BY DEF Unseen, peerVars, handlerVars, channelVars
<1>1. DebounceInv'
  BY <1>0, KeepsDebounceAll DEF handlerVars
<1>2. OwnInv' /\ StatusInv' /\ SemInv'
  <2>1. OwnInv'
    BY <1>0 DEF IInv, OwnInv, Fresh, ChannelsOwned, RefreshesOwned
  <2>2. StatusInv'
    BY <1>0 DEF IInv, StatusInv, Registered
  <2>3. Busy' = Busy
    BY <1>0 DEF Busy
  <2>4. SemInv'
    BY <1>0, <2>3, ZenonT(30) DEF IInv, SemInv
  <2> QED
    BY <2>1, <2>2, <2>4, ZenonT(30)
<1>3. Bounds' /\ HandlerType' /\ QueueType'
  BY <1>0 DEF IInv, TypeInv, Bounds, HandlerType, QueueType
<1>4. FlagType'
  BY <1>0, Zenon DEF IInv, TypeInv, FlagType, Unseen
<1>5. StoreType'
  <2>1. StoreType /\ serial \in Maps
    BY SerialMap DEF IInv, TypeInv
  <2>2. [map |-> serial, id |-> id] \in [map : Maps \union {0}, id : Ids \union {0}]
    BY <2>1 DEF StoreType
  <2>3. pass' \in [Passes -> [map : Maps \union {0}, id : Ids \union {0}]]
    BY <2>1, <2>2 DEF StoreType, Unseen
  <2> QED
    BY <1>0, <2>1, <2>3 DEF StoreType
<1> QED
  BY <1>1, <1>2, <1>3, <1>4, <1>5 DEF IInv, TypeInv

-----------------------------------------------------------------------------
(* The theorems.                                                           *)

\* The invariants hold at first.
LEMMA BufferInitInv == BufferInit => IInv /\ DebounceInv
<1> SUFFICES ASSUME BufferInit PROVE IInv /\ DebounceInv
  OBVIOUS
<1>1. Init
  BY ZenonT(30) DEF BufferInit
<1>2. ASSUME NEW s \in Streams PROVE stream[s].pc = "idle" /\ stream[s].pending = <<>> /\ taken[s] = <<>>
  BY <1>1 DEF Init, NewStream
<1>3. DebounceInv
  BY <1>2 DEF DebounceInv, DebounceOf
<1> QED
  BY <1>1, <1>3, InitInv

\* The invariants always hold.
LEMMA BufferInductive == BufferSpec => [](IInv /\ DebounceInv)
<1>1. IInv /\ DebounceInv /\ [BufferNext]_bufferVars => (IInv /\ DebounceInv)'
  <2> SUFFICES ASSUME IInv, DebounceInv, [BufferNext]_bufferVars PROVE (IInv /\ DebounceInv)'
    OBVIOUS
  <2>1. CASE [Next]_vars
    <3>1. IInv'
      BY <2>1, NextInv
    <3>2. DebounceInv'
      BY <2>1, NextDebounce DEF IInv
    <3> QED
      BY <3>1, <3>2
  <2>2. CASE Unseen
    BY <2>2, UnseenInv
  <2> QED
    BY <2>1, <2>2, BufferSteps
<1> QED
  BY <1>1, BufferInitInv, PTL DEF BufferSpec

\* Whatever the order of updates, timers and passes, a client of Sync gets what
\* its handler took from the channel in that order, without some maps that a
\* later map replaced (UpdateDebouncer.ProcessUpdate, GetPendingUpdates).
THEOREM KeepsOrder == BufferSpec => []Debouncing
<1>1. IInv /\ DebounceInv => Debouncing
  BY DEF DebounceInv, DebounceOf, Debouncing
<1> QED
  BY <1>1, BufferInductive, PTL

\* bufferSendUpdateAccountPeers and its timer leave true what PeerStreamsProofs
\* shows of Sync and SyncMachinePeer.
THEOREM BufferKeepsStreams ==
    BufferSpec => [](TypeOK /\ ResourcesOwned /\ SyncStatusClears /\ SemBalanced)
<1>1. IInv => TypeOK /\ ResourcesOwned /\ SyncStatusClears /\ SemBalanced
  BY InvType, OwnInvOwned, StatusInvClears, SemInvBalanced DEF IInv
<1> QED
  BY <1>1, BufferInductive, PTL
=============================================================================
