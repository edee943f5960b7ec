----------------------------- MODULE EventFeed -----------------------------
(***************************************************************************)
(* The daemon's event feed (src/src/daemon/event-feed.ts and the           *)
(* /rpc/events route of src/src/daemon/server.ts).  Events are numbered    *)
(* within one run of the daemon and kept in a bounded ring in memory.  A   *)
(* client that reconnects names the last event it got; it is replayed the  *)
(* rest, or told of a gap and reads everything again.                      *)
(*                                                                         *)
(* A queue of frames stands for what a stream has enqueued and the client  *)
(* has not read.  What an event says is left out: a client only takes it   *)
(* as a hint to read.  The client is not in the repository; the header of  *)
(* event-feed.ts says what it does with a gap.                             *)
(***************************************************************************)
EXTENDS Naturals, Sequences, FiniteSets

CONSTANTS
    Clients,
    RingCapacity,       \* EVENT_RING_CAPACITY
    MaxQueued,          \* MAX_QUEUED_FRAMES
    MaxSubscribers,     \* MAX_EVENT_SUBSCRIBERS
    MaxSeq,             \* bound on the events of one run of the daemon
    MaxGen,             \* bound on the restarts of the daemon
    MaxDrops            \* bound on the connections that break

ASSUME FeedBounds ==
    /\ RingCapacity \in Nat \ {0} /\ MaxQueued \in Nat
    /\ MaxSubscribers \in Nat \ {0}
    /\ MaxSeq \in Nat /\ MaxGen \in Nat /\ MaxDrops \in Nat

ASSUME FewClients == IsFiniteSet(Clients)

VARIABLES
    gen,        \* the run of the daemon
    oldest,     \* the first event of the ring, latest + 1 if it is empty
    latest,     \* the event numbered last (nextSeq - 1)
    conn,       \* conn[c]: does the client have a stream?
    frames,     \* frames[c]: what was enqueued for it and not read
    closed,     \* closed[c]: the stream takes nothing more
    entry,      \* entry[c]: the stream is in the map of the subscribers
    leaked,     \* how many streams that ended still are
    cursor,     \* cursor[c]: the Last-Event-ID of the client, 0 if it has none
    drops,      \* the connections that broke
    cursorGen,  \* history: the run of the daemon the cursor comes from
    owed,       \* history: the events since the client last read everything
                \* that it has not received
    stale       \* history: a cursor of an earlier run was taken for one of
                \* this run since then

daemonVars == <<gen, oldest, latest>>
streamVars == <<conn, frames, closed, entry, leaked>>
clientVars == <<cursor, drops, cursorGen, owed, stale>>
feedVars == <<daemonVars, streamVars, clientVars>>

-----------------------------------------------------------------------------
(* An open frame that reports a gap, or answers a client without a cursor, *)
(* makes the client read everything.  A beat is a heartbeat comment or a   *)
(* daemon.health event, which has no id.                                   *)
Frame == [kind : {"snapshot", "resume", "event", "beat"}, seq : 0..MaxSeq]

Event(s) == [kind |-> "event", seq |-> s]
Beat == [kind |-> "beat", seq |-> 0]

(* Mutant of Gap: one event too many counts as kept.                       *)
GapTooLate(k) == k > 0 /\ (k > latest \/ oldest > latest \/ oldest > k + 2)

(* replaySince: is the answer to the cursor k incomplete?                  *)
Gap(k) == k > 0 /\ (k > latest \/ oldest > latest \/ oldest > k + 1)

OpenFrame(k) == [kind |-> IF k = 0 \/ Gap(k) THEN "snapshot" ELSE "resume", seq |-> 0]

(* Mutant of ReplayFrom: the event the client names is sent again.         *)
ReplayAgain(k) == IF k = 0 \/ k > latest THEN latest + 1
                  ELSE IF oldest > k THEN oldest ELSE k

ReplayFrom(k) == IF k = 0 \/ k > latest THEN latest + 1
                 ELSE IF oldest > k + 1 THEN oldest ELSE k + 1

Replayed(k) == latest + 1 - ReplayFrom(k)

(* Mutant of CutShort: the replay is enqueued whole.                       *)
NeverCutShort(k) == FALSE

CutShort(k) == Replayed(k) > MaxQueued + 1

(* What start() enqueues: the open frame and the events of the ring, as    *)
(* many as the queue takes.                                                *)
Opening(k) ==
    [i \in 1..(IF CutShort(k) THEN MaxQueued + 2 ELSE Replayed(k) + 1) |->
        IF i = 1 THEN OpenFrame(k) ELSE Event(ReplayFrom(k) + i - 2)]

(* desiredSize is one minus the frames in the queue.                       *)
FellBehind(c) == Len(frames[c]) > MaxQueued + 1

Live(c) == conn[c] /\ ~closed[c]

(* deliver() and the heartbeat: a stream too far behind is closed and      *)
(* deregistered, the others get the frame.                                 *)
Enqueue(to, f) ==
    /\ frames' = [c \in Clients |-> IF c \in to /\ Live(c) /\ ~FellBehind(c)
                                    THEN Append(frames[c], f) ELSE frames[c]]
    /\ closed' = [c \in Clients |-> closed[c] \/ (c \in to /\ Live(c) /\ FellBehind(c))]
    /\ entry' = [c \in Clients |-> entry[c] /\ ~(c \in to /\ Live(c) /\ FellBehind(c))]

-----------------------------------------------------------------------------
(* publishDaemonEvent: number, ring, broadcast, without an await.          *)
Publish ==
    /\ latest < MaxSeq
    /\ latest' = latest + 1
    /\ oldest' = IF latest + 2 > oldest + RingCapacity THEN oldest + 1 ELSE oldest
    /\ Enqueue(Clients, Event(latest + 1))
    /\ owed' = [c \in Clients |-> owed[c] \cup {<<gen, latest + 1>>}]
    /\ UNCHANGED <<gen, conn, leaked, cursor, drops, cursorGen, stale>>

(* publishEphemeralEvent *)
Health ==
    /\ Enqueue(Clients, Beat)
    /\ UNCHANGED <<daemonVars, conn, leaked, clientVars>>

Heartbeat(c) ==
    /\ Enqueue({c}, Beat)
    /\ UNCHANGED <<daemonVars, conn, leaked, clientVars>>

Subscribers == Cardinality({c \in Clients : entry[c]}) + leaked

(* The route and start(): the replay is enqueued first, the subscriber is  *)
(* registered after it, whether or not the replay closed the stream.       *)
Connect(c) ==
    /\ ~conn[c]
    /\ Subscribers < MaxSubscribers
    /\ LET k == cursor[c]
       IN  /\ frames' = [frames EXCEPT ![c] = Opening(k)]
           /\ closed' = [closed EXCEPT ![c] = CutShort(k)]
           /\ stale' = [stale EXCEPT ![c] = @ \/ (k > 0 /\ cursorGen[c] # gen /\ ~Gap(k))]
    /\ conn' = [conn EXCEPT ![c] = TRUE]
    /\ entry' = [entry EXCEPT ![c] = TRUE]
    /\ UNCHANGED <<daemonVars, leaked, cursor, drops, cursorGen, owed>>

(* The client reads a frame: everything, or the id of the event.           *)
ReceiveOpen(c) ==
    /\ conn[c] /\ frames[c] # <<>> /\ Head(frames[c]).kind # "event"
    /\ frames' = [frames EXCEPT ![c] = Tail(@)]
    /\ IF Head(frames[c]).kind = "snapshot"
       THEN /\ owed' = [owed EXCEPT ![c] = {}]
            /\ stale' = [stale EXCEPT ![c] = FALSE]
       ELSE UNCHANGED <<owed, stale>>
    /\ UNCHANGED <<daemonVars, conn, closed, entry, leaked, cursor, drops, cursorGen>>

ReceiveEvent(c) ==
    /\ conn[c] /\ frames[c] # <<>> /\ Head(frames[c]).kind = "event"
    /\ frames' = [frames EXCEPT ![c] = Tail(@)]
    /\ cursor' = [cursor EXCEPT ![c] = Head(frames[c]).seq]
    /\ cursorGen' = [cursorGen EXCEPT ![c] = gen]
    /\ owed' = [owed EXCEPT ![c] = @ \ {<<gen, Head(frames[c]).seq>>}]
    /\ UNCHANGED <<daemonVars, conn, closed, entry, leaked, drops, stale>>

Receive(c) == ReceiveOpen(c) \/ ReceiveEvent(c)

(* A closed stream that was read to its end: nothing deregisters it again. *)
EndOfStream(c) ==
    /\ conn[c] /\ closed[c] /\ frames[c] = <<>>
    /\ conn' = [conn EXCEPT ![c] = FALSE]
    /\ closed' = [closed EXCEPT ![c] = FALSE]
    /\ entry' = [entry EXCEPT ![c] = FALSE]
    /\ leaked' = leaked + (IF entry[c] THEN 1 ELSE 0)
    /\ UNCHANGED <<daemonVars, frames, clientVars>>

(* The connection breaks: cancel() deregisters, what was queued is lost.   *)
Disconnect(c) ==
    /\ conn[c] /\ drops < MaxDrops
    /\ drops' = drops + 1
    /\ conn' = [conn EXCEPT ![c] = FALSE]
    /\ frames' = [frames EXCEPT ![c] = <<>>]
    /\ closed' = [closed EXCEPT ![c] = FALSE]
    /\ entry' = [entry EXCEPT ![c] = FALSE]
    /\ UNCHANGED <<daemonVars, leaked, cursor, cursorGen, owed, stale>>

(* closeAllEventStreams, as the daemon stops.                              *)
CloseAll ==
    /\ closed' = conn
    /\ entry' = [c \in Clients |-> FALSE]
    /\ leaked' = 0
    /\ UNCHANGED <<daemonVars, conn, frames, clientVars>>

(* Another run of the daemon: an empty ring, numbers from 1, no streams.   *)
Restart ==
    /\ gen < MaxGen
    /\ gen' = gen + 1 /\ latest' = 0 /\ oldest' = 1
    /\ conn' = [c \in Clients |-> FALSE]
    /\ frames' = [c \in Clients |-> <<>>]
    /\ closed' = [c \in Clients |-> FALSE]
    /\ entry' = [c \in Clients |-> FALSE]
    /\ leaked' = 0
    /\ UNCHANGED clientVars

FeedInit ==
    /\ gen = 0 /\ oldest = 1 /\ latest = 0
    /\ conn = [c \in Clients |-> FALSE]
    /\ frames = [c \in Clients |-> <<>>]
    /\ closed = [c \in Clients |-> FALSE]
    /\ entry = [c \in Clients |-> FALSE]
    /\ leaked = 0
    /\ cursor = [c \in Clients |-> 0]
    /\ drops = 0
    /\ cursorGen = [c \in Clients |-> 0]
    /\ owed = [c \in Clients |-> {}]
    /\ stale = [c \in Clients |-> FALSE]

StreamStep(c) ==
    \/ Heartbeat(c) \/ Connect(c) \/ Receive(c) \/ EndOfStream(c) \/ Disconnect(c)

FeedNext == Publish \/ Health \/ CloseAll \/ Restart \/ \E c \in Clients : StreamStep(c)

FeedSpec == FeedInit /\ [][FeedNext]_feedVars

(* A client reads what it is sent and connects again when its stream ends. *)
FairFeedSpec ==
    FeedSpec /\ \A c \in Clients :
        WF_feedVars(Connect(c)) /\ WF_feedVars(Receive(c)) /\ WF_feedVars(EndOfStream(c))

-----------------------------------------------------------------------------
FeedTypeOK ==
    /\ gen \in 0..MaxGen /\ latest \in 0..MaxSeq
    /\ oldest \in 1..(latest + 1) /\ latest + 1 <= oldest + RingCapacity
    /\ conn \in [Clients -> BOOLEAN]
    /\ frames \in [Clients -> Seq(Frame)]
    /\ \A c \in Clients : Len(frames[c]) <= MaxQueued + 2
    /\ closed \in [Clients -> BOOLEAN]
    /\ entry \in [Clients -> BOOLEAN]
    /\ leaked \in Nat
    /\ cursor \in [Clients -> 0..MaxSeq]
    /\ drops \in 0..MaxDrops
    /\ cursorGen \in [Clients -> 0..MaxGen]
    /\ owed \in [Clients -> SUBSET ((0..MaxGen) \X (1..MaxSeq))]
    /\ stale \in [Clients -> BOOLEAN]

SnapshotComes(c) == \E i \in 1..Len(frames[c]) : frames[c][i].kind = "snapshot"

EventsOf(c) == {i \in 1..Len(frames[c]) : frames[c][i].kind = "event"}

Coming(c) == {<<gen, frames[c][i].seq>> : i \in EventsOf(c)}

(* A client with an open stream that was neither told of a gap nor had a   *)
(* cursor of an earlier run accepted is on its way to every event it has   *)
(* not received, whatever was evicted, cut short or disconnected before.   *)
NothingSkipped ==
    \A c \in Clients :
        Live(c) /\ ~stale[c] => SnapshotComes(c) \/ owed[c] \subseteq Coming(c)

(* A cursor of an earlier run of the daemon is answered with a gap, not    *)
(* with silence.                                                           *)
OldCursorIsTold ==
    \A c \in Clients : Live(c) => SnapshotComes(c) \/ owed[c] \subseteq Coming(c)

(* Every place among the subscribers is that of a stream that is open.     *)
PlacesAreStreams == leaked = 0 /\ \A c \in Clients : entry[c] => Live(c)

(* Every event reaches every client, or the client reads everything after  *)
(* it: a replay longer than the queue is caught up with in several         *)
(* connections.                                                            *)
EventuallyTold ==
    \A c \in Clients : owed[c] # {} ~> owed[c] = {} \/ stale[c]
=============================================================================
