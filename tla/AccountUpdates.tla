--------------------------- MODULE AccountUpdates ---------------------------
(***************************************************************************)
(* PeerStreams with the network map controller's way of turning calls into *)
(* passes of sendUpdateAccountPeers: UpdateAccountPeers runs a pass of its *)
(* own; bufferSendUpdateAccountPeers lets one goroutine at a time send and *)
(* leaves it a note, from which it arms a timer for one more pass.         *)
(***************************************************************************)
EXTENDS PeerStreams

\* bufferUpdate of the account: where the goroutine that has the mutex is, the
\* note, the timer
VARIABLE buffer

ASSUME PassesAssumption == Passes = {"direct", "buffer", "timer"}

BufferInit ==
    /\ Init
    /\ buffer = [mu |-> "free", update |-> FALSE, next |-> "nil"]

\* TryLock; with the mutex taken a note is left, otherwise the timer is
\* stopped and a goroutine started.
BufferSendUpdate ==
    /\ wanted
    /\ wanted' = FALSE
    /\ buffer' = IF buffer.mu = "free"
                 THEN [buffer EXCEPT !.mu = "read", !.next = IF @ = "nil" THEN @ ELSE "off"]
                 ELSE [buffer EXCEPT !.update = TRUE]
    /\ UNCHANGED <<peerVars, handlerVars, channelVars, pass, deleting, done>>

\* sendUpdateAccountPeers up to the reading of the account, by pass p.
Reads(p) ==
    /\ pass[p] = IdlePass
    /\ pass' = [pass EXCEPT ![p] = [map |-> serial, id |-> id]]
    /\ UNCHANGED <<peerVars, handlerVars, channelVars, wanted, deleting, done>>

BufferReads ==
    /\ buffer.mu = "read"
    /\ Reads("buffer")
    /\ buffer' = [buffer EXCEPT !.mu = "send"]

\* Mutant of BufferCheck: the note is cleared, and no timer armed.
BufferCheckForgets ==
    /\ buffer.mu = "check"
    /\ buffer' = [buffer EXCEPT !.mu = "unlock", !.update = FALSE]
    /\ UNCHANGED vars

\* The goroutine looks for a note after its pass and arms the timer.
BufferCheck ==
    /\ buffer.mu = "check"
    /\ buffer' = [mu |-> "unlock", update |-> FALSE,
                  next |-> IF buffer.update THEN "armed" ELSE buffer.next]
    /\ UNCHANGED vars

BufferUnlock ==
    /\ buffer.mu = "unlock"
    /\ buffer' = [buffer EXCEPT !.mu = "free"]
    /\ UNCHANGED vars

\* The timer's pass runs without the mutex.
TimerFires ==
    /\ buffer.next = "armed"
    /\ Reads("timer")
    /\ buffer' = [buffer EXCEPT !.next = "off"]

\* A pass sends or fails; after the one of the goroutine comes the check.
PassEnds(p) ==
    /\ PassSends(p) \/ PassFails(p)
    /\ buffer' = IF p = "buffer" THEN [buffer EXCEPT !.mu = "check"] ELSE buffer

BufferNext ==
    \/ /\ StreamNext \/ Updates \/ PassReads("direct")
       /\ UNCHANGED buffer
    \/ \E p \in Passes : PassEnds(p)
    \/ BufferSendUpdate \/ BufferReads \/ BufferCheck \/ BufferUnlock \/ TimerFires

bufferVars == <<vars, buffer>>

\* As in PeerStreams; the goroutine and the timer run too.
BufferSpec ==
    /\ BufferInit /\ [][BufferNext]_bufferVars
    /\ \A s \in Streams : WF_bufferVars(Handler(s) /\ UNCHANGED buffer)
    /\ WF_bufferVars(OnPeersDeleted /\ UNCHANGED buffer)
    /\ WF_bufferVars(BufferSendUpdate \/ (PassReads("direct") /\ UNCHANGED buffer))
    /\ \A p \in Passes : WF_bufferVars(PassEnds(p))
    /\ WF_bufferVars(BufferReads) /\ WF_bufferVars(BufferCheck) /\ WF_bufferVars(BufferUnlock)
    /\ WF_bufferVars(TimerFires)

-----------------------------------------------------------------------------
\* What the debouncer may do with a sequence of updates: leave out a map that
\* another map follows directly.
MayBecome(ms, sent) ==
    LET needed == {k \in DOMAIN ms : ms[k] = Ctl \/ k = Len(ms) \/ ms[k + 1] = Ctl}
    IN  \E at \in [DOMAIN sent -> DOMAIN ms] :
            /\ \A i, j \in DOMAIN sent : i < j => at[i] < at[j]
            /\ \A i \in DOMAIN sent : sent[i] = ms[at[i]]
            /\ needed \subseteq {at[i] : i \in DOMAIN sent}

\* What a client of Sync has received after the initial map, with what is
\* pending, is what its handler took from the channel, in that order, without
\* some maps that a later map replaced: no control message is lost or passed
\* by a map.
Debouncing ==
    \A s \in Streams :
        stream[s].pc = "loop" /\ ~left[s] =>
            MayBecome(taken[s], Tail(out[s]) \o stream[s].pending)

\* A note that nobody looks at before the next call: it was left between the
\* check of the goroutine and its unlock.
NoteStranded == buffer.update /\ buffer.mu = "free" /\ buffer.next # "armed"

\* A change announced while the peer has a channel reaches the handler of that
\* channel, in this or in a later map, unless the channel is closed or full,
\* the client leaves, an update fails, or the note of
\* bufferSendUpdateAccountPeers is stranded: there is no other way to lose it.
ChangesArrive ==
    \A s \in Streams : \A n \in Maps :
        (wanted /\ serial = n /\ Registered /\ chan[id] = s)
        ~> \/ left[s] \/ closed[s] \/ Len(buf[s]) = ChannelBuffer \/ done["faults"] > 0
           \/ NoteStranded
           \/ \E k \in DOMAIN taken[s] : taken[s][k] >= n
=============================================================================
