-------------------------- MODULE EventFeedProofs --------------------------
(***************************************************************************)
(* For every ring, queue, number of clients and sequence of disconnections *)
(* and restarts: a client that was not told of a gap is on its way to      *)
(* every event it has not received.  The invariant ties the cursor of a    *)
(* client to what it is owed: what it has not received comes after its     *)
(* cursor, so a replay from the cursor, cut short or not, leaves nothing   *)
(* out before the last event in the queue.                                 *)
(*                                                                         *)
(* The second part is about the tap and the client's copy of the store     *)
(* (StoreFeed): the copy says what the store says, or word of the change   *)
(* is on its way.                                                          *)
(***************************************************************************)
EXTENDS StoreFeed, SequenceTheorems, TLAPS

(* The events of a queue are ascending and published; the open frame that  *)
(* makes the client read everything comes first.                           *)
InOrder(c) ==
    \A i, j \in EventsOf(c) : i < j => frames[c][i].seq < frames[c][j].seq

Published(c) ==
    /\ \A i \in EventsOf(c) : frames[c][i].seq \in 1..latest
    /\ \A e \in owed[c] : e[1] <= gen /\ (e[1] = gen => e[2] <= latest)
    /\ cursorGen[c] <= gen
    /\ cursorGen[c] = gen => cursor[c] <= latest

SnapshotFirst(c) ==
    \A i \in 1..Len(frames[c]) : frames[c][i].kind = "snapshot" => i = 1

(* What a client with a stream is owed comes to it, or comes after all     *)
(* that a closed stream still has for it.                                  *)
Follows(c) ==
    conn[c] /\ ~stale[c] /\ ~SnapshotComes(c) =>
        \A e \in owed[c] :
            /\ e[1] = gen
            /\ \/ \E i \in EventsOf(c) : frames[c][i].seq = e[2]
               \/ closed[c] /\ \A i \in EventsOf(c) : frames[c][i].seq < e[2]

CursorCovers(c) ==
    ~stale[c] /\ cursor[c] > 0 /\ cursorGen[c] = gen =>
        \A e \in owed[c] : e[1] = gen /\ e[2] > cursor[c]

ClientInv(c) ==
    InOrder(c) /\ Published(c) /\ SnapshotFirst(c) /\ Follows(c) /\ CursorCovers(c)

FeedInv == FeedTypeOK /\ \A c \in Clients : ClientInv(c)

-----------------------------------------------------------------------------
LEMMA FrameKinds ==
    ASSUME NEW s \in 0..MaxSeq
    PROVE  /\ Event(s) \in Frame /\ Event(s).kind = "event" /\ Event(s).seq = s
           /\ Beat \in Frame /\ Beat.kind = "beat"
           /\ \A k \in 0..MaxSeq : OpenFrame(k) \in Frame /\ OpenFrame(k).kind # "event"
BY FeedBounds DEF Event, Beat, Frame, OpenFrame

LEMMA TailOf ==
    ASSUME NEW q \in Seq(Frame), q # <<>>
    PROVE  /\ Tail(q) \in Seq(Frame) /\ Head(q) = q[1] /\ Head(q) \in Frame
           /\ Len(q) >= 1 /\ Len(Tail(q)) = Len(q) - 1
           /\ \A i \in 1..(Len(q) - 1) : Tail(q)[i] = q[i + 1]
BY HeadTailProperties, EmptySeq, LenProperties

LEMMA AppendOf ==
    ASSUME NEW q \in Seq(Frame), NEW f \in Frame
    PROVE  /\ Append(q, f) \in Seq(Frame)
           /\ Len(Append(q, f)) = Len(q) + 1
           /\ \A i \in 1..Len(q) : Append(q, f)[i] = q[i]
           /\ Append(q, f)[Len(q) + 1] = f
BY AppendProperties

(* A replay starts in the ring, and behind the cursor.                     *)
LEMMA ReplayStarts ==
    ASSUME FeedTypeOK, NEW k \in 0..MaxSeq
    PROVE  /\ ReplayFrom(k) \in 1..(latest + 1)
           /\ Replayed(k) \in 0..latest
           /\ k > 0 /\ ~Gap(k) => ReplayFrom(k) = k + 1 /\ k <= latest
BY FeedBounds DEF FeedTypeOK, ReplayFrom, Replayed, Gap

LEMMA OpeningOf ==
    ASSUME FeedTypeOK, NEW k \in 0..MaxSeq
    PROVE  /\ Opening(k) \in Seq(Frame)
           /\ Len(Opening(k)) = IF CutShort(k) THEN MaxQueued + 2 ELSE Replayed(k) + 1
           /\ Len(Opening(k)) \in 1..(MaxQueued + 2)
           /\ Len(Opening(k)) <= Replayed(k) + 1
           /\ Opening(k)[1] = OpenFrame(k)
           /\ \A i \in 2..Len(Opening(k)) :
                 /\ Opening(k)[i] = Event(ReplayFrom(k) + i - 2)
                 /\ ReplayFrom(k) + i - 2 \in 1..latest
<1>. DEFINE n == IF CutShort(k) THEN MaxQueued + 2 ELSE Replayed(k) + 1
<1>1. /\ ReplayFrom(k) \in 1..(latest + 1) /\ Replayed(k) \in 0..latest
      /\ Replayed(k) = latest + 1 - ReplayFrom(k) /\ latest \in 0..MaxSeq
    BY ReplayStarts DEF Replayed, FeedTypeOK
<1>2. n \in 1..(MaxQueued + 2) /\ n <= Replayed(k) + 1
    BY <1>1, FeedBounds DEF CutShort
<1>5. Opening(k) = [i \in 1..n |-> IF i = 1 THEN OpenFrame(k)
                                   ELSE Event(ReplayFrom(k) + i - 2)]
    BY DEF Opening
<1>. HIDE DEF n
<1>3. \A i \in 2..n : ReplayFrom(k) + i - 2 \in 1..latest
    BY <1>1, <1>2, FeedBounds
<1>4. \A i \in 1..n :
          (IF i = 1 THEN OpenFrame(k) ELSE Event(ReplayFrom(k) + i - 2)) \in Frame
    <2>. TAKE i \in 1..n
    <2>1. CASE i = 1
        BY <2>1, FrameKinds, FeedBounds
    <2>2. CASE i # 1
        <3>1. i \in 2..n
            BY <2>2, <1>2, FeedBounds
        <3>2. ReplayFrom(k) + i - 2 \in 1..latest
            BY <3>1, <1>3
        <3>3. ReplayFrom(k) + i - 2 \in 0..MaxSeq
            BY <3>2, <1>1, FeedBounds
        <3>. QED BY <2>2, <3>3, FrameKinds
    <2>. QED BY <2>1, <2>2
<1>6. Opening(k) \in [1..n -> Frame] /\ n \in Nat
    BY <1>2, <1>4, <1>5, FeedBounds
<1>7. Opening(k) \in Seq(Frame) /\ Len(Opening(k)) = n
    BY <1>6, LenProperties, SeqDef
<1>8. /\ Opening(k)[1] = OpenFrame(k)
      /\ \A i \in 2..n : Opening(k)[i] = Event(ReplayFrom(k) + i - 2)
    BY <1>2, <1>5, FeedBounds
<1>. QED BY <1>2, <1>3, <1>7, <1>8 DEF n

-----------------------------------------------------------------------------
LEMMA FeedInvInit == FeedInit => FeedInv
<1>. SUFFICES ASSUME FeedInit PROVE FeedInv
    OBVIOUS
<1>1. FeedTypeOK
    BY FeedBounds, EmptySeq DEF FeedInit, FeedTypeOK
<1>2. \A c \in Clients : ClientInv(c)
    BY FeedBounds, EmptySeq
       DEF FeedInit, ClientInv, InOrder, Published, SnapshotFirst, Follows, CursorCovers,
           EventsOf
<1>. QED BY <1>1, <1>2 DEF FeedInv

(* A client to which nothing new was sent.                                 *)
LEMMA ClientKeeps ==
    ASSUME NEW c \in Clients, ClientInv(c), UNCHANGED <<gen, latest>>,
           frames'[c] = frames[c], cursor'[c] = cursor[c], cursorGen'[c] = cursorGen[c],
           owed'[c] = owed[c], stale'[c] = stale[c],
           conn'[c] => conn[c], closed[c] => closed'[c]
    PROVE  ClientInv(c)'
<1>1. EventsOf(c)' = EventsOf(c)
    BY DEF EventsOf
<1>2. InOrder(c)' /\ Published(c)' /\ SnapshotFirst(c)' /\ CursorCovers(c)'
    BY <1>1 DEF ClientInv, InOrder, Published, SnapshotFirst, CursorCovers
<1>3. Follows(c)'
    BY <1>1 DEF ClientInv, Follows, SnapshotComes
<1>. QED BY <1>2, <1>3 DEF ClientInv

(* A queue that gets a frame more, or closes instead.                      *)
LEMMA EnqueueType ==
    ASSUME FeedTypeOK, NEW to, NEW f \in Frame, Enqueue(to, f)
    PROVE  /\ frames' \in [Clients -> Seq(Frame)]
           /\ \A c \in Clients : Len(frames'[c]) <= MaxQueued + 2
           /\ closed' \in [Clients -> BOOLEAN] /\ entry' \in [Clients -> BOOLEAN]
           /\ \A c \in Clients :
                 \/ /\ frames'[c] = frames[c] /\ (closed[c] => closed'[c])
                    /\ c \in to /\ Live(c) => closed'[c]
                 \/ /\ frames'[c] = Append(frames[c], f) /\ closed'[c] = closed[c]
                    /\ ~closed[c]
<1>1. \A c \in Clients :
          \/ /\ frames'[c] = frames[c] /\ (closed[c] => closed'[c])
             /\ c \in to /\ Live(c) => closed'[c]
          \/ /\ frames'[c] = Append(frames[c], f) /\ closed'[c] = closed[c]
             /\ ~closed[c] /\ ~FellBehind(c)
    <2>. TAKE c \in Clients
    <2>1. /\ frames'[c] = IF c \in to /\ Live(c) /\ ~FellBehind(c)
                          THEN Append(frames[c], f) ELSE frames[c]
          /\ closed'[c] = (closed[c] \/ (c \in to /\ Live(c) /\ FellBehind(c)))
        BY DEF Enqueue
    <2>2. CASE c \in to /\ Live(c) /\ ~FellBehind(c)
        BY <2>1, <2>2 DEF Live, FeedTypeOK
    <2>3. CASE ~(c \in to /\ Live(c) /\ ~FellBehind(c))
        BY <2>1, <2>3
    <2>. QED BY <2>2, <2>3
<1>2. \A c \in Clients : frames'[c] \in Seq(Frame) /\ Len(frames'[c]) <= MaxQueued + 2
    <2>. TAKE c \in Clients
    <2>1. frames[c] \in Seq(Frame) /\ Len(frames[c]) <= MaxQueued + 2 /\ Len(frames[c]) \in Nat
        BY LenProperties DEF FeedTypeOK
    <2>2. CASE frames'[c] = frames[c]
        BY <2>1, <2>2
    <2>3. CASE frames'[c] = Append(frames[c], f) /\ ~FellBehind(c)
        BY <2>1, <2>3, AppendOf, FeedBounds DEF FellBehind
    <2>. QED BY <1>1, <2>2, <2>3
<1>3. frames' \in [Clients -> Seq(Frame)]
    BY <1>2 DEF Enqueue
<1>4. closed' \in [Clients -> BOOLEAN] /\ entry' \in [Clients -> BOOLEAN]
    BY DEF Enqueue, FeedTypeOK
<1>. QED BY <1>1, <1>2, <1>3, <1>4

LEMMA BeatKeeps ==
    ASSUME FeedInv, NEW to, Enqueue(to, Beat), UNCHANGED <<daemonVars, conn, leaked, clientVars>>
    PROVE  FeedInv'
<1>0. Beat \in Frame /\ Beat.kind = "beat"
    BY FrameKinds, FeedBounds
<1>1. FeedTypeOK'
    BY <1>0, EnqueueType DEF FeedInv, FeedTypeOK, daemonVars, clientVars
<1>2. ASSUME NEW c \in Clients PROVE ClientInv(c)'
    <2>0. UNCHANGED <<gen, latest, conn, cursor, cursorGen, owed, stale>>
        BY DEF daemonVars, clientVars
    <2>1. CASE frames'[c] = frames[c] /\ (closed[c] => closed'[c])
        BY <2>0, <2>1, ClientKeeps DEF FeedInv
    <2>2. CASE frames'[c] = Append(frames[c], Beat) /\ closed'[c] = closed[c]
        <3>1. /\ Len(frames[c]) \in Nat /\ Len(frames'[c]) = Len(frames[c]) + 1
              /\ \A i \in 1..Len(frames[c]) : frames'[c][i] = frames[c][i]
              /\ frames'[c][Len(frames[c]) + 1].kind = "beat"
            BY <1>0, <2>2, AppendOf, LenProperties DEF FeedInv, FeedTypeOK
        <3>2. EventsOf(c)' = EventsOf(c)
            BY <3>1 DEF EventsOf
        <3>3. \A i \in EventsOf(c) : frames'[c][i] = frames[c][i]
            BY <3>1 DEF EventsOf
        <3>a. \A i \in 1..Len(frames'[c]) : i \in 1..Len(frames[c]) \/ i = Len(frames[c]) + 1
            BY <3>1
        <3>b. SnapshotFirst(c)'
            BY <3>1, <3>a DEF FeedInv, ClientInv, SnapshotFirst
        <3>4. SnapshotComes(c) => SnapshotComes(c)'
            BY <3>1 DEF SnapshotComes
        <3>5. InOrder(c)' /\ Published(c)' /\ CursorCovers(c)'
            BY <2>0, <3>2, <3>3 DEF FeedInv, ClientInv, InOrder, Published, CursorCovers
        <3>6. Follows(c)'
            <4>. SUFFICES ASSUME conn[c], ~stale[c], ~SnapshotComes(c), NEW e \in owed[c]
                          PROVE  /\ e[1] = gen
                                 /\ \/ \E i \in EventsOf(c) : frames'[c][i].seq = e[2]
                                    \/ closed[c] /\ \A i \in EventsOf(c) :
                                                        frames'[c][i].seq < e[2]
                BY <2>0, <2>2, <3>2, <3>4 DEF Follows
            <4>. QED BY <3>3 DEF FeedInv, ClientInv, Follows
        <3>. QED BY <3>b, <3>5, <3>6 DEF ClientInv
    <2>. QED BY <1>0, <2>1, <2>2, EnqueueType DEF FeedInv
<1>. QED BY <1>1, <1>2 DEF FeedInv

LEMMA PublishKeeps ==
    ASSUME FeedInv, Publish
    PROVE  FeedInv'
<1>0. /\ latest \in 0..MaxSeq /\ latest < MaxSeq /\ gen \in 0..MaxGen
      /\ latest' = latest + 1 /\ gen' = gen /\ latest + 1 \in 1..MaxSeq
    BY FeedBounds DEF Publish, FeedInv, FeedTypeOK
<1>1. /\ Event(latest + 1) \in Frame
      /\ Event(latest + 1).kind = "event" /\ Event(latest + 1).seq = latest + 1
    BY <1>0, FrameKinds, FeedBounds
<1>2. FeedTypeOK'
    <2>1. /\ oldest' \in 1..(latest' + 1) /\ latest' + 1 <= oldest' + RingCapacity
          /\ latest' \in 0..MaxSeq
        BY <1>0, FeedBounds DEF Publish, FeedInv, FeedTypeOK
    <2>2. owed' \in [Clients -> SUBSET ((0..MaxGen) \X (1..MaxSeq))]
        BY <1>0 DEF Publish, FeedInv, FeedTypeOK
    <2>. QED BY <1>1, <2>1, <2>2, EnqueueType DEF Publish, FeedInv, FeedTypeOK
<1>3. ASSUME NEW c \in Clients PROVE ClientInv(c)'
    <2>0. /\ UNCHANGED <<conn, cursor, cursorGen, stale>>
          /\ owed'[c] = owed[c] \cup {<<gen, latest + 1>>}
        BY DEF Publish
    <2>1. /\ Len(frames[c]) \in Nat /\ cursor[c] \in 0..MaxSeq
          /\ owed[c] \subseteq (0..MaxGen) \X (1..MaxSeq)
          /\ \A i \in EventsOf(c) : frames[c][i].seq \in 1..latest
        BY LenProperties DEF FeedInv, FeedTypeOK, ClientInv, Published
    <2>2. CASE frames'[c] = frames[c] /\ (closed[c] => closed'[c]) /\ (Live(c) => closed'[c])
        <3>1. EventsOf(c)' = EventsOf(c) /\ (SnapshotComes(c)' <=> SnapshotComes(c))
            BY <2>2 DEF EventsOf, SnapshotComes
        <3>2. InOrder(c)' /\ SnapshotFirst(c)'
            BY <2>2, <3>1 DEF FeedInv, ClientInv, InOrder, SnapshotFirst
        <3>3. Published(c)'
            BY <1>0, <2>0, <2>1, <2>2, <3>1 DEF FeedInv, ClientInv, Published
        <3>4. CursorCovers(c)'
            BY <1>0, <2>0, <2>1 DEF FeedInv, ClientInv, CursorCovers, Published
        <3>5. Follows(c)'
            <4>. SUFFICES ASSUME conn[c], ~stale[c], ~SnapshotComes(c), NEW e \in owed'[c]
                          PROVE  /\ e[1] = gen
                                 /\ \/ \E i \in EventsOf(c) : frames[c][i].seq = e[2]
                                    \/ closed'[c] /\ \A i \in EventsOf(c) :
                                                        frames[c][i].seq < e[2]
                BY <1>0, <2>0, <2>2, <3>1 DEF Follows
            <4>1. CASE e \in owed[c]
                BY <2>2, <4>1 DEF FeedInv, ClientInv, Follows
            <4>2. CASE e = <<gen, latest + 1>>
                BY <1>0, <2>1, <2>2, <4>2 DEF Live
            <4>. QED BY <2>0, <4>1, <4>2
        <3>. QED BY <3>2, <3>3, <3>4, <3>5 DEF ClientInv
    <2>3. CASE frames'[c] = Append(frames[c], Event(latest + 1)) /\ closed'[c] = closed[c]
              /\ ~closed[c]
        <3>. DEFINE n == Len(frames[c])
        <3>1. /\ Len(frames'[c]) = n + 1
              /\ \A i \in 1..n : frames'[c][i] = frames[c][i]
              /\ frames'[c][n + 1].kind = "event" /\ frames'[c][n + 1].seq = latest + 1
            BY <1>1, <2>3, AppendOf DEF FeedInv, FeedTypeOK
        <3>2. EventsOf(c)' = EventsOf(c) \cup {n + 1} /\ EventsOf(c) \subseteq 1..n
            BY <2>1, <3>1 DEF EventsOf
        <3>3. \A i \in EventsOf(c) : frames'[c][i] = frames[c][i]
            BY <3>1, <3>2
        <3>4. \A i \in 1..Len(frames'[c]) : i \in 1..n \/ i = n + 1
            BY <2>1, <3>1
        <3>5. SnapshotFirst(c)' /\ (SnapshotComes(c) => SnapshotComes(c)')
            <4>1. SnapshotFirst(c)'
                BY <3>1, <3>4 DEF FeedInv, ClientInv, SnapshotFirst
            <4>2. SnapshotComes(c) => SnapshotComes(c)'
                BY <2>1, <3>1 DEF SnapshotComes
            <4>. QED BY <4>1, <4>2
        <3>6. InOrder(c)'
            <4>. SUFFICES ASSUME NEW i \in EventsOf(c)', NEW j \in EventsOf(c)', i < j
                          PROVE  frames'[c][i].seq < frames'[c][j].seq
                BY DEF InOrder
            <4>1. i \in EventsOf(c)
                BY <2>1, <3>2
            <4>2. CASE j \in EventsOf(c)
                BY <3>3, <4>1, <4>2 DEF FeedInv, ClientInv, InOrder
            <4>3. CASE j = n + 1
                BY <1>0, <2>1, <3>1, <3>3, <4>1, <4>3
            <4>. QED BY <3>2, <4>2, <4>3
        <3>7. Published(c)'
            <4>1. \A i \in EventsOf(c)' : frames'[c][i].seq \in 1..latest'
                BY <1>0, <2>1, <3>1, <3>2, <3>3
            <4>2. \A e \in owed'[c] : e[1] <= gen' /\ (e[1] = gen' => e[2] <= latest')
                BY <1>0, <2>0, <2>1 DEF FeedInv, ClientInv, Published
            <4>3. cursorGen'[c] <= gen' /\ (cursorGen'[c] = gen' => cursor'[c] <= latest')
                BY <1>0, <2>0, <2>1 DEF FeedInv, ClientInv, Published
            <4>. QED BY <4>1, <4>2, <4>3 DEF Published
        <3>8. CursorCovers(c)'
            BY <1>0, <2>0, <2>1 DEF FeedInv, ClientInv, CursorCovers, Published
        <3>9. Follows(c)'
            <4>. SUFFICES ASSUME conn[c], ~stale[c], ~SnapshotComes(c), NEW e \in owed'[c]
                          PROVE  /\ e[1] = gen
                                 /\ \/ \E i \in EventsOf(c)' : frames'[c][i].seq = e[2]
                                    \/ closed[c] /\ \A i \in EventsOf(c)' :
                                                        frames'[c][i].seq < e[2]
                BY <1>0, <2>0, <2>3, <3>5 DEF Follows
            <4>1. CASE e = <<gen, latest + 1>>
                BY <3>1, <3>2, <4>1
            <4>2. CASE e \in owed[c] /\ \E i \in EventsOf(c) : frames[c][i].seq = e[2]
                BY <3>2, <3>3, <4>2 DEF FeedInv, ClientInv, Follows
            <4>3. CASE e \in owed[c] /\ ~ \E i \in EventsOf(c) : frames[c][i].seq = e[2]
                <5>1. e[1] = gen /\ closed[c]
                    BY <4>3 DEF FeedInv, ClientInv, Follows
                <5>. QED BY <5>1, <2>3
            <4>. QED BY <2>0, <4>1, <4>2, <4>3
        <3>. QED BY <3>5, <3>6, <3>7, <3>8, <3>9 DEF ClientInv
    <2>. QED BY <1>1, <2>2, <2>3, EnqueueType DEF Publish, FeedInv
<1>. QED BY <1>2, <1>3 DEF FeedInv

(* A replay from a cursor of this run brings all that comes after it, or   *)
(* all up to where it was cut short.                                       *)
LEMMA ConnectKeeps ==
    ASSUME FeedInv, NEW c \in Clients, Connect(c)
    PROVE  FeedInv'
<1>. DEFINE k == cursor[c]
            n == Len(Opening(k))
            from == ReplayFrom(k)
<1>0. /\ k \in 0..MaxSeq /\ latest \in 0..MaxSeq
      /\ UNCHANGED <<gen, oldest, latest, cursor, cursorGen, owed>>
      /\ frames'[c] = Opening(k) /\ closed'[c] = CutShort(k) /\ ~conn[c]
      /\ stale'[c] = (stale[c] \/ (k > 0 /\ cursorGen[c] # gen /\ ~Gap(k)))
      /\ FeedTypeOK
    BY DEF Connect, daemonVars, FeedInv, FeedTypeOK
<1>1. FeedTypeOK'
    <2>1. frames' \in [Clients -> Seq(Frame)] /\ Opening(k) \in Seq(Frame)
        BY <1>0, OpeningOf DEF Connect, FeedTypeOK
    <2>2. \A d \in Clients : Len(frames'[d]) <= MaxQueued + 2
        BY <1>0, OpeningOf, FeedBounds DEF Connect, FeedTypeOK
    <2>3. /\ closed' \in [Clients -> BOOLEAN] /\ stale' \in [Clients -> BOOLEAN]
          /\ conn' \in [Clients -> BOOLEAN] /\ entry' \in [Clients -> BOOLEAN]
        BY <1>0 DEF Connect, FeedTypeOK, CutShort
    <2>. QED BY <1>0, <2>1, <2>2, <2>3 DEF Connect, FeedTypeOK, daemonVars
<1>2. ASSUME NEW d \in Clients, d # c PROVE ClientInv(d)'
    BY <1>0, <1>2, ClientKeeps DEF Connect, FeedInv, FeedTypeOK
<1>3. ClientInv(c)'
    <2>1. /\ n \in 1..(MaxQueued + 2) /\ n <= Replayed(k) + 1
          /\ n = (IF CutShort(k) THEN MaxQueued + 2 ELSE Replayed(k) + 1)
          /\ frames'[c][1] = OpenFrame(k)
          /\ frames'[c][1].kind # "event"
          /\ from \in 1..(latest + 1) /\ Replayed(k) = latest + 1 - from
        <3>1. OpenFrame(k).kind # "event"
            BY <1>0, FrameKinds
        <3>2. from \in 1..(latest + 1) /\ Replayed(k) = latest + 1 - from
            BY <1>0, ReplayStarts DEF Replayed
        <3>3. /\ n \in 1..(MaxQueued + 2) /\ n <= Replayed(k) + 1
              /\ n = (IF CutShort(k) THEN MaxQueued + 2 ELSE Replayed(k) + 1)
              /\ Opening(k)[1] = OpenFrame(k)
            BY <1>0, OpeningOf
        <3>. QED BY <1>0, <3>1, <3>2, <3>3
    <2>2. \A i \in 2..n : /\ frames'[c][i].kind = "event"
                          /\ frames'[c][i].seq = from + i - 2
                          /\ from + i - 2 \in 1..latest
        <3>. TAKE i \in 2..n
        <3>1. from + i - 2 \in 1..latest /\ frames'[c][i] = Event(from + i - 2)
            BY <1>0, OpeningOf
        <3>2. from + i - 2 \in 0..MaxSeq
            BY <1>0, <3>1, FeedBounds
        <3>. QED BY <3>1, <3>2, FrameKinds
    <2>. HIDE DEF n, from
    <2>3. Len(frames'[c]) = n
        BY <1>0 DEF n
    <2>4. EventsOf(c)' = 2..n
        <3>1. \A i \in 1..n : frames'[c][i].kind = "event" <=> i \in 2..n
            <4>. TAKE i \in 1..n
            <4>1. i = 1 \/ i \in 2..n
                BY <2>1, FeedBounds
            <4>. QED BY <4>1, <2>1, <2>2, FeedBounds
        <3>2. 2..n \subseteq 1..n
            BY <2>1, FeedBounds
        <3>. QED BY <2>3, <3>1, <3>2 DEF EventsOf
    <2>a. InOrder(c)'
        <3>. SUFFICES ASSUME NEW i \in 2..n, NEW j \in 2..n, i < j
                      PROVE  frames'[c][i].seq < frames'[c][j].seq
            BY <2>4 DEF InOrder
        <3>1. frames'[c][i].seq = from + i - 2 /\ frames'[c][j].seq = from + j - 2
            BY <2>2
        <3>. QED BY <2>1, <3>1, FeedBounds
    <2>b. SnapshotFirst(c)'
        <3>. SUFFICES ASSUME NEW i \in 1..n, i # 1 PROVE frames'[c][i].kind # "snapshot"
            BY <2>3 DEF SnapshotFirst
        <3>1. i \in 2..n
            BY <2>1, FeedBounds
        <3>. QED BY <2>2, <3>1
    <2>5. InOrder(c)' /\ SnapshotFirst(c)'
        BY <2>a, <2>b
    <2>6. Published(c)'
        BY <1>0, <2>2, <2>4 DEF FeedInv, ClientInv, Published
    <2>7. CursorCovers(c)'
        BY <1>0 DEF FeedInv, ClientInv, CursorCovers
    <2>8. Follows(c)'
        <3>. SUFFICES ASSUME ~stale'[c], ~SnapshotComes(c)', NEW e \in owed[c]
                      PROVE  /\ e[1] = gen
                             /\ \/ \E i \in 2..n : frames'[c][i].seq = e[2]
                                \/ CutShort(k) /\ \A i \in 2..n : frames'[c][i].seq < e[2]
            BY <1>0, <2>4 DEF Follows
        <3>1. k > 0 /\ ~Gap(k)
            BY <1>0, <2>1, <2>3 DEF SnapshotComes, OpenFrame
        <3>2. from = k + 1 /\ k <= latest
            BY <1>0, <3>1, ReplayStarts DEF from
        <3>3. ~stale[c] /\ cursorGen[c] = gen
            BY <1>0, <3>1
        <3>4. e[1] = gen /\ e[2] > k /\ e[2] <= latest /\ e[2] \in Nat
            BY <1>0, <3>1, <3>3 DEF FeedInv, ClientInv, CursorCovers, Published, FeedTypeOK
        <3>5. CASE e[2] - k + 1 <= n
            <4>0. k \in Nat /\ e[2] \in Nat /\ n \in Nat /\ e[2] >= k + 1
                BY <1>0, <2>1, <3>4, FeedBounds
            <4>1. e[2] - k + 1 \in 2..n /\ from + (e[2] - k + 1) - 2 = e[2]
                <5>. HIDE DEF k
                <5>. QED BY <3>2, <3>5, <4>0
            <4>. QED BY <2>2, <3>4, <4>1
        <3>6. CASE e[2] - k + 1 > n
            <4>0. n # Replayed(k) + 1
                <5>1. Replayed(k) = latest - k
                    BY <1>0, <2>1, <3>2
                <5>. QED BY <1>0, <2>1, <3>2, <3>4, <3>6, <5>1, FeedBounds
            <4>1. CutShort(k)
                BY <2>1, <4>0
            <4>2. \A i \in 2..n : from + i - 2 < e[2]
                BY <1>0, <2>1, <3>2, <3>4, <3>6, FeedBounds
            <4>3. \A i \in 2..n : frames'[c][i].seq < e[2]
                BY <2>2, <4>2
            <4>. QED BY <3>4, <4>1, <4>3
        <3>. QED BY <1>0, <2>1, <3>4, <3>5, <3>6, FeedBounds
    <2>. QED BY <2>5, <2>6, <2>7, <2>8 DEF ClientInv
<1>. QED BY <1>1, <1>2, <1>3 DEF FeedInv

(* The queue without its head.                                             *)
LEMMA QueueShifts ==
    ASSUME FeedInv, NEW c \in Clients, frames[c] # <<>>, frames'[c] = Tail(frames[c])
    PROVE  /\ Len(frames[c]) \in Nat \ {0} /\ Head(frames[c]) = frames[c][1]
           /\ Head(frames[c]) \in Frame
           /\ Len(frames'[c]) = Len(frames[c]) - 1
           /\ \A i \in 1..Len(frames'[c]) : frames'[c][i] = frames[c][i + 1]
           /\ \A i \in EventsOf(c)' :
                 i + 1 \in EventsOf(c) /\ frames'[c][i] = frames[c][i + 1]
           /\ \A i \in EventsOf(c) : i # 1 =>
                 i - 1 \in EventsOf(c)' /\ frames'[c][i - 1] = frames[c][i]
           /\ SnapshotComes(c)' => SnapshotComes(c)
           /\ SnapshotComes(c) /\ Head(frames[c]).kind # "snapshot" => SnapshotComes(c)'
           /\ InOrder(c)' /\ SnapshotFirst(c)'
           /\ \A i \in EventsOf(c) : i \in Nat \ {0} /\ frames[c][i].seq \in 1..latest
<1>. DEFINE q == frames[c]
<1>1. /\ Len(q) \in Nat \ {0} /\ Head(q) = q[1] /\ Head(q) \in Frame
      /\ Len(frames'[c]) = Len(q) - 1
      /\ \A i \in 1..Len(frames'[c]) : frames'[c][i] = q[i + 1]
    BY TailOf, LenProperties DEF FeedInv, FeedTypeOK
<1>2. \A i \in EventsOf(c)' : i + 1 \in EventsOf(c) /\ frames'[c][i] = q[i + 1]
    BY <1>1 DEF EventsOf
<1>3. \A i \in EventsOf(c) : i # 1 => i - 1 \in EventsOf(c)' /\ frames'[c][i - 1] = q[i]
    <2>. TAKE i \in EventsOf(c)
    <2>. HAVE i # 1
    <2>1. i \in 1..Len(q) /\ q[i].kind = "event"
        BY DEF EventsOf
    <2>2. i - 1 \in 1..Len(frames'[c]) /\ (i - 1) + 1 = i
        BY <1>1, <2>1
    <2>3. frames'[c][i - 1] = q[i]
        BY <1>1, <2>2
    <2>. QED BY <2>1, <2>2, <2>3 DEF EventsOf
<1>4. SnapshotComes(c)' => SnapshotComes(c)
    BY <1>1 DEF SnapshotComes
<1>5. SnapshotComes(c) /\ Head(q).kind # "snapshot" => SnapshotComes(c)'
    <2>. HAVE SnapshotComes(c) /\ Head(q).kind # "snapshot"
    <2>1. PICK i \in 1..Len(q) : q[i].kind = "snapshot"
        BY DEF SnapshotComes
    <2>2. i - 1 \in 1..Len(frames'[c]) /\ (i - 1) + 1 = i
        BY <1>1, <2>1
    <2>3. frames'[c][i - 1].kind = "snapshot"
        BY <1>1, <2>1, <2>2
    <2>. QED BY <2>2, <2>3 DEF SnapshotComes
<1>6. InOrder(c)'
    BY <1>1, <1>2 DEF FeedInv, ClientInv, InOrder, EventsOf
<1>7. SnapshotFirst(c)'
    BY <1>1 DEF FeedInv, ClientInv, SnapshotFirst
<1>8. \A i \in EventsOf(c) : i \in Nat \ {0} /\ frames[c][i].seq \in 1..latest
    BY DEF FeedInv, ClientInv, Published, EventsOf
<1>. QED BY <1>1, <1>2, <1>3, <1>4, <1>5, <1>6, <1>7, <1>8

LEMMA ReceiveOpenKeeps ==
    ASSUME FeedInv, NEW c \in Clients, ReceiveOpen(c)
    PROVE  FeedInv'
<1>0. /\ UNCHANGED <<gen, oldest, latest, conn, closed, cursor, cursorGen>>
      /\ conn[c] /\ frames[c] # <<>> /\ Head(frames[c]).kind # "event"
      /\ frames' = [frames EXCEPT ![c] = Tail(frames[c])] /\ frames'[c] = Tail(frames[c])
      /\ \/ /\ Head(frames[c]).kind = "snapshot"
            /\ owed' = [owed EXCEPT ![c] = {}] /\ stale' = [stale EXCEPT ![c] = FALSE]
         \/ Head(frames[c]).kind # "snapshot" /\ UNCHANGED <<owed, stale>>
    BY DEF ReceiveOpen, daemonVars, FeedInv, FeedTypeOK
<1>1. FeedTypeOK'
    <2>1. /\ frames' \in [Clients -> Seq(Frame)]
          /\ \A d \in Clients : Len(frames'[d]) <= MaxQueued + 2
        BY <1>0, TailOf, FeedBounds DEF FeedInv, FeedTypeOK
    <2>2. /\ owed' \in [Clients -> SUBSET ((0..MaxGen) \X (1..MaxSeq))]
          /\ stale' \in [Clients -> BOOLEAN]
        BY <1>0 DEF FeedInv, FeedTypeOK
    <2>. QED BY <2>1, <2>2 DEF ReceiveOpen, FeedInv, FeedTypeOK, daemonVars
<1>2. ASSUME NEW d \in Clients, d # c PROVE ClientInv(d)'
    BY <1>0, <1>2, ClientKeeps DEF FeedInv, FeedTypeOK
<1>3. ClientInv(c)'
    <2>1. \A i \in EventsOf(c) : i # 1 =>
              i - 1 \in EventsOf(c)' /\ frames'[c][i - 1] = frames[c][i]
        BY <1>0, QueueShifts
    <2>2. \A i \in EventsOf(c) : i # 1
        BY <1>0, QueueShifts DEF EventsOf
    <2>a. \A i \in EventsOf(c)' : i + 1 \in EventsOf(c) /\ frames'[c][i] = frames[c][i + 1]
        BY <1>0, QueueShifts
    <2>b. \A i \in EventsOf(c) : frames[c][i].seq \in 1..latest
        BY <1>0, QueueShifts
    <2>3. \A i \in EventsOf(c)' : frames'[c][i].seq \in 1..latest
        BY <2>a, <2>b
    <2>4. owed'[c] \subseteq owed[c] /\ (owed'[c] = owed[c] \/ owed'[c] = {})
        BY <1>0 DEF FeedInv, FeedTypeOK
    <2>5. Published(c)'
        BY <1>0, <2>3, <2>4 DEF FeedInv, ClientInv, Published
    <2>6. CASE owed'[c] = {}
        BY <1>0, <2>5, <2>6, QueueShifts DEF ClientInv, CursorCovers, Follows
    <2>7. CASE Head(frames[c]).kind # "snapshot" /\ UNCHANGED <<owed, stale>>
        <3>1. CursorCovers(c)'
            BY <1>0, <2>7 DEF FeedInv, ClientInv, CursorCovers
        <3>2. Follows(c)'
            <4>. SUFFICES ASSUME ~stale[c], ~SnapshotComes(c)', NEW e \in owed[c]
                          PROVE  /\ e[1] = gen
                                 /\ \/ \E i \in EventsOf(c)' : frames'[c][i].seq = e[2]
                                    \/ closed[c] /\ \A i \in EventsOf(c)' :
                                                        frames'[c][i].seq < e[2]
                BY <1>0, <2>7 DEF Follows
            <4>1. ~SnapshotComes(c)
                BY <1>0, <2>7, QueueShifts
            <4>2. /\ e[1] = gen
                  /\ \/ \E i \in EventsOf(c) : frames[c][i].seq = e[2]
                     \/ closed[c] /\ \A i \in EventsOf(c) : frames[c][i].seq < e[2]
                BY <1>0, <4>1 DEF FeedInv, ClientInv, Follows
            <4>3. CASE \E i \in EventsOf(c) : frames[c][i].seq = e[2]
                BY <2>1, <2>2, <4>2, <4>3
            <4>4. CASE closed[c] /\ \A i \in EventsOf(c) : frames[c][i].seq < e[2]
                BY <2>a, <4>2, <4>4
            <4>. QED BY <4>2, <4>3, <4>4
        <3>. QED BY <1>0, <2>5, <3>1, <3>2, QueueShifts DEF ClientInv
    <2>. QED BY <1>0, <2>6, <2>7 DEF FeedInv, FeedTypeOK
<1>. QED BY <1>1, <1>2, <1>3 DEF FeedInv

(* An event is received after all those before it: what is still owed has  *)
(* a later number.                                                         *)
LEMMA ReceiveEventKeeps ==
    ASSUME FeedInv, NEW c \in Clients, ReceiveEvent(c)
    PROVE  FeedInv'
<1>. DEFINE h == Head(frames[c]).seq
<1>0. /\ UNCHANGED <<gen, oldest, latest, conn, closed, stale>>
      /\ conn[c] /\ frames[c] # <<>> /\ Head(frames[c]).kind = "event"
      /\ frames' = [frames EXCEPT ![c] = Tail(frames[c])] /\ frames'[c] = Tail(frames[c])
      /\ cursor' = [cursor EXCEPT ![c] = h] /\ cursorGen' = [cursorGen EXCEPT ![c] = gen]
      /\ owed' = [owed EXCEPT ![c] = owed[c] \ {<<gen, h>>}]
      /\ cursor'[c] = h /\ cursorGen'[c] = gen /\ owed'[c] = owed[c] \ {<<gen, h>>}
    BY DEF ReceiveEvent, daemonVars, FeedInv, FeedTypeOK
<1>a. /\ 1 \in EventsOf(c) /\ frames[c][1].seq = h /\ h \in 1..latest
      /\ latest \in 0..MaxSeq /\ gen \in 0..MaxGen
    <2>1. 1 \in EventsOf(c) /\ frames[c][1].seq = h
        BY <1>0, QueueShifts DEF EventsOf
    <2>. QED BY <1>0, <2>1, QueueShifts DEF FeedInv, FeedTypeOK
<1>1. FeedTypeOK'
    <2>1. /\ frames' \in [Clients -> Seq(Frame)]
          /\ \A d \in Clients : Len(frames'[d]) <= MaxQueued + 2
        BY <1>0, TailOf, FeedBounds DEF FeedInv, FeedTypeOK
    <2>2. /\ owed' \in [Clients -> SUBSET ((0..MaxGen) \X (1..MaxSeq))]
          /\ cursor' \in [Clients -> 0..MaxSeq] /\ cursorGen' \in [Clients -> 0..MaxGen]
        BY <1>0, <1>a, FeedBounds DEF FeedInv, FeedTypeOK
    <2>. QED BY <2>1, <2>2 DEF ReceiveEvent, FeedInv, FeedTypeOK, daemonVars
<1>2. ASSUME NEW d \in Clients, d # c PROVE ClientInv(d)'
    BY <1>0, <1>2, ClientKeeps DEF FeedInv, FeedTypeOK
<1>3. ClientInv(c)'
    <2>1. ~SnapshotComes(c)
        <3>1. frames[c][1].kind = "event"
            BY <1>0, QueueShifts
        <3>2. \A i \in 1..Len(frames[c]) : frames[c][i].kind = "snapshot" => i = 1
            BY DEF FeedInv, ClientInv, SnapshotFirst
        <3>. QED BY <3>1, <3>2 DEF SnapshotComes
    <2>a. \A i \in EventsOf(c) : i # 1 =>
              i - 1 \in EventsOf(c)' /\ frames'[c][i - 1] = frames[c][i]
        BY <1>0, QueueShifts
    <2>2. \A i \in EventsOf(c)' : frames'[c][i].seq > h /\ frames'[c][i].seq \in 1..latest
        <3>. TAKE i \in EventsOf(c)'
        <3>1. i + 1 \in EventsOf(c) /\ frames'[c][i] = frames[c][i + 1] /\ i \in 1..Len(frames'[c])
            BY <1>0, QueueShifts DEF EventsOf
        <3>2. 1 < i + 1 /\ frames[c][i + 1].seq \in 1..latest
            BY <1>0, <3>1, QueueShifts
        <3>3. InOrder(c)
            BY DEF FeedInv, ClientInv
        <3>4. frames[c][1].seq < frames[c][i + 1].seq
            BY <1>a, <3>1, <3>2, <3>3 DEF InOrder
        <3>5. frames'[c][i].seq = frames[c][i + 1].seq
            BY <3>1
        <3>. HIDE DEF h
        <3>. QED BY <1>a, <3>2, <3>4, <3>5
    <2>3. Published(c)'
        <3>1. \A i \in EventsOf(c)' : frames'[c][i].seq \in 1..latest'
            BY <1>0, <2>2
        <3>2. \A e \in owed'[c] : e[1] <= gen' /\ (e[1] = gen' => e[2] <= latest')
            BY <1>0 DEF FeedInv, ClientInv, Published
        <3>3. cursorGen'[c] <= gen' /\ cursor'[c] <= latest'
            BY <1>0, <1>a
        <3>. QED BY <3>1, <3>2, <3>3 DEF Published
    <2>4. ASSUME ~stale[c], NEW e \in owed'[c]
          PROVE  /\ e[1] = gen /\ e[2] > h
                 /\ \/ \E i \in EventsOf(c)' : frames'[c][i].seq = e[2]
                    \/ closed[c] /\ \A i \in EventsOf(c)' : frames'[c][i].seq < e[2]
        <3>1. e \in owed[c] /\ e # <<gen, h>> /\ e = <<e[1], e[2]>> /\ e[2] \in Nat
            BY <1>0, <2>4 DEF FeedInv, FeedTypeOK
        <3>2. /\ e[1] = gen
              /\ \/ \E i \in EventsOf(c) : frames[c][i].seq = e[2]
                 \/ closed[c] /\ \A i \in EventsOf(c) : frames[c][i].seq < e[2]
            BY <1>0, <2>1, <2>4, <3>1 DEF FeedInv, ClientInv, Follows
        <3>3. CASE \E i \in EventsOf(c) : frames[c][i].seq = e[2]
            <4>1. PICK i \in EventsOf(c) : frames[c][i].seq = e[2]
                BY <3>3
            <4>2. i # 1
                BY <1>a, <3>1, <3>2, <4>1
            <4>3. i - 1 \in EventsOf(c)' /\ frames'[c][i - 1].seq = e[2]
                BY <2>a, <4>1, <4>2
            <4>. QED BY <2>2, <3>2, <4>3
        <3>4. CASE closed[c] /\ \A i \in EventsOf(c) : frames[c][i].seq < e[2]
            <4>1. e[2] > h
                BY <1>a, <3>1, <3>4
            <4>2. \A i \in EventsOf(c)' : i + 1 \in EventsOf(c) /\ frames'[c][i] = frames[c][i + 1]
                BY <1>0, QueueShifts
            <4>3. \A i \in EventsOf(c)' : frames'[c][i].seq < e[2]
                BY <3>4, <4>2
            <4>. QED BY <3>2, <3>4, <4>1, <4>3
        <3>. QED BY <3>2, <3>3, <3>4
    <2>5. Follows(c)' /\ CursorCovers(c)'
        BY <1>0, <2>4 DEF Follows, CursorCovers
    <2>. QED BY <1>0, <2>3, <2>5, QueueShifts DEF ClientInv
<1>. QED BY <1>1, <1>2, <1>3 DEF FeedInv

(* A client that has no stream any more, perhaps since the daemon is       *)
(* another one.                                                            *)
LEMMA ClientLeaves ==
    ASSUME FeedTypeOK, NEW c \in Clients, ClientInv(c), UNCHANGED clientVars,
           ~conn'[c], frames'[c] = <<>>,
           UNCHANGED <<gen, latest>> \/ (gen' = gen + 1 /\ latest' = 0)
    PROVE  ClientInv(c)'
<1>1. EventsOf(c)' = {} /\ Len(frames'[c]) = 0
    BY EmptySeq DEF EventsOf
<1>2. InOrder(c)' /\ SnapshotFirst(c)' /\ Follows(c)'
    BY <1>1 DEF InOrder, SnapshotFirst, Follows
<1>3. /\ gen \in Nat /\ latest \in Nat /\ cursorGen[c] \in Nat
      /\ UNCHANGED <<cursor, cursorGen, owed, stale>>
      /\ \A e \in owed[c] : e[1] \in Nat
    BY FeedBounds DEF FeedTypeOK, clientVars
<1>4. Published(c)' /\ CursorCovers(c)'
    BY <1>1, <1>3 DEF ClientInv, Published, CursorCovers
<1>. QED BY <1>2, <1>4 DEF ClientInv

LEMMA EndsKeep ==
    ASSUME FeedInv, NEW c \in Clients, EndOfStream(c) \/ Disconnect(c)
    PROVE  FeedInv'
<1>0. /\ UNCHANGED <<gen, oldest, latest, cursor, cursorGen, owed, stale>>
      /\ frames'[c] = <<>> /\ ~conn'[c]
      /\ \A d \in Clients \ {c} : /\ frames'[d] = frames[d] /\ conn'[d] = conn[d]
                                 /\ closed'[d] = closed[d]
    BY DEF EndOfStream, Disconnect, daemonVars, clientVars, FeedInv, FeedTypeOK
<1>1. FeedTypeOK'
    <2>1. /\ frames' \in [Clients -> Seq(Frame)]
          /\ \A d \in Clients : Len(frames'[d]) <= MaxQueued + 2
        <3>1. CASE frames' = frames
            BY <3>1 DEF FeedInv, FeedTypeOK
        <3>2. CASE frames' = [frames EXCEPT ![c] = <<>>]
            BY <3>2, EmptySeq, FeedBounds DEF FeedInv, FeedTypeOK
        <3>. QED BY <3>1, <3>2 DEF EndOfStream, Disconnect
    <2>a. CASE EndOfStream(c)
        BY <1>0, <2>1, <2>a DEF EndOfStream, FeedInv, FeedTypeOK, clientVars
    <2>b. CASE Disconnect(c)
        BY <1>0, <2>1, <2>b, FeedBounds DEF Disconnect, FeedInv, FeedTypeOK
    <2>. QED BY <2>a, <2>b
<1>2. ASSUME NEW d \in Clients, d # c PROVE ClientInv(d)'
    BY <1>0, <1>2, ClientKeeps DEF FeedInv
<1>3. ClientInv(c)'
    <2>1. EventsOf(c)' = {} /\ Len(frames'[c]) = 0
        BY <1>0, EmptySeq DEF EventsOf
    <2>2. InOrder(c)' /\ SnapshotFirst(c)' /\ Follows(c)'
        BY <1>0, <2>1 DEF InOrder, SnapshotFirst, Follows
    <2>3. Published(c)' /\ CursorCovers(c)'
        BY <1>0, <2>1 DEF FeedInv, ClientInv, Published, CursorCovers
    <2>. QED BY <2>2, <2>3 DEF ClientInv
<1>. QED BY <1>1, <1>2, <1>3 DEF FeedInv

LEMMA CloseAllKeeps ==
    ASSUME FeedInv, CloseAll
    PROVE  FeedInv'
<1>1. FeedTypeOK'
    BY DEF CloseAll, FeedInv, FeedTypeOK, daemonVars, clientVars
<1>2. ASSUME NEW c \in Clients PROVE ClientInv(c)'
    <2>1. /\ UNCHANGED <<gen, latest, conn, frames, cursor, cursorGen, owed, stale>>
          /\ closed' = conn
        BY DEF CloseAll, daemonVars, clientVars
    <2>2. EventsOf(c)' = EventsOf(c) /\ (SnapshotComes(c)' <=> SnapshotComes(c))
        BY <2>1 DEF EventsOf, SnapshotComes
    <2>3. InOrder(c)' /\ Published(c)' /\ SnapshotFirst(c)' /\ CursorCovers(c)'
        BY <2>1, <2>2 DEF FeedInv, ClientInv, InOrder, Published, SnapshotFirst, CursorCovers
    <2>4. Follows(c)'
        BY <2>1, <2>2 DEF FeedInv, ClientInv, Follows
    <2>. QED BY <2>3, <2>4 DEF ClientInv
<1>. QED BY <1>1, <1>2 DEF FeedInv

LEMMA RestartKeeps ==
    ASSUME FeedInv, Restart
    PROVE  FeedInv'
<1>1. FeedTypeOK'
    <2>1. gen' \in 0..MaxGen /\ latest' \in 0..MaxSeq /\ oldest' \in 1..(latest' + 1)
          /\ latest' + 1 <= oldest' + RingCapacity
        BY FeedBounds DEF Restart, FeedInv, FeedTypeOK
    <2>2. /\ frames' \in [Clients -> Seq(Frame)]
          /\ \A d \in Clients : Len(frames'[d]) <= MaxQueued + 2
        BY EmptySeq, FeedBounds DEF Restart
    <2>. QED BY <2>1, <2>2 DEF Restart, FeedInv, FeedTypeOK, clientVars
<1>2. ASSUME NEW c \in Clients PROVE ClientInv(c)'
    BY ClientLeaves DEF Restart, FeedInv
<1>. QED BY <1>1, <1>2 DEF FeedInv

LEMMA FeedInvNext ==
    ASSUME FeedInv, [FeedNext]_feedVars
    PROVE  FeedInv'
<1>1. CASE Publish
    BY <1>1, PublishKeeps
<1>2. CASE Health \/ \E c \in Clients : Heartbeat(c)
    BY <1>2, BeatKeeps DEF Health, Heartbeat
<1>3. CASE \E c \in Clients : Connect(c) \/ Receive(c)
    BY <1>3, ConnectKeeps, ReceiveOpenKeeps, ReceiveEventKeeps DEF Receive
<1>4. CASE \E c \in Clients : EndOfStream(c) \/ Disconnect(c)
    BY <1>4, EndsKeep
<1>5. CASE CloseAll
    BY <1>5, CloseAllKeeps
<1>6. CASE Restart
    BY <1>6, RestartKeeps
<1>7. CASE UNCHANGED feedVars
    <2>1. FeedTypeOK'
        BY <1>7 DEF feedVars, daemonVars, streamVars, clientVars, FeedInv, FeedTypeOK
    <2>2. ASSUME NEW c \in Clients PROVE ClientInv(c)'
        BY <1>7, ClientKeeps DEF feedVars, daemonVars, streamVars, clientVars, FeedInv
    <2>. QED BY <2>1, <2>2 DEF FeedInv
<1>. QED BY <1>1, <1>2, <1>3, <1>4, <1>5, <1>6, <1>7 DEF FeedNext, StreamStep

LEMMA FeedInvMeans == FeedInv => FeedTypeOK /\ NothingSkipped
<1>. SUFFICES ASSUME FeedInv, NEW c \in Clients, Live(c), ~stale[c], ~SnapshotComes(c),
                     NEW e \in owed[c]
              PROVE  FeedTypeOK /\ e \in Coming(c)
    BY DEF FeedInv, NothingSkipped
<1>1. e = <<e[1], e[2]>>
    BY DEF FeedInv, FeedTypeOK
<1>2. e[1] = gen /\ \E i \in EventsOf(c) : frames[c][i].seq = e[2]
    BY DEF FeedInv, ClientInv, Follows, Live
<1>. QED BY <1>1, <1>2 DEF Coming, FeedInv

LEMMA FeedInvAlways == FeedSpec => []FeedInv
BY FeedInvInit, FeedInvNext, PTL DEF FeedSpec

(* The ring, the queues and the numbers keep their bounds: no queue grows  *)
(* past MAX_QUEUED_FRAMES, the ring ends with the latest event.            *)
THEOREM FeedTypes == FeedSpec => []FeedTypeOK
BY FeedInvAlways, FeedInvMeans, PTL

(* A client that was not told of a gap misses no event, whatever was       *)
(* evicted, cut short, closed or disconnected, unless a cursor of another  *)
(* run of the daemon was accepted.                                         *)
THEOREM NoEventIsSkipped == FeedSpec => []NothingSkipped
BY FeedInvAlways, FeedInvMeans, PTL

-----------------------------------------------------------------------------
(* The tap and the client's copy (StoreFeed) stand on the feed: each of    *)
(* their steps is a step of the feed or leaves it alone, so that FeedInv   *)
(* carries over.  What is added says why a part of the copy may differ     *)
(* from the store: a write of it is not reported yet, an event about it is *)
(* still owed to the client, or the client has no cursor of this run and   *)
(* must read everything when it comes back.  It is the third that a        *)
(* restart leaves, which forgets what was written and not reported.        *)
Returning(c) ==
    /\ cursor[c] = 0 \/ cursorGen[c] < gen
    /\ ~conn[c] \/ SnapshotComes(c)

OwedAbout(c, p) == \E e \in owed[c] : e[1] = gen /\ about[e[2]] = p

Accounted(c, p) ==
    ~stale[c] /\ p \notin hidden[c] =>
        copy[c][p] = store[p] \/ Unreported(p) \/ OwedAbout(c, p) \/ Returning(c)

HasTarget == \A w \in Writers : wpc[w] = "read" => target[w] \in Statuses

CopyInv ==
    FeedInv /\ TypeOK /\ HasTarget /\ \A c \in Clients, p \in Parts : Accounted(c, p)

(* Every step of the composition is one of the feed, or none.              *)
LEMMA StepIsOfTheFeed == ASSUME [Next]_vars PROVE [FeedNext]_feedVars
<1>1. ASSUME NEW w \in Writers, WriterStep(w) PROVE Publish \/ UNCHANGED feedVars
    BY <1>1 DEF WriterStep, ReadBefore, WriteStatus, StatusThrows, ReadAfter, ReadAfterFails,
                EmitStatus, HideStatus, WriteNote, EmitNote, NoteThrows, Tell
<1>2. ASSUME NEW c \in Clients, Take(c) PROVE Receive(c)
    BY <1>2 DEF Take, TakeEvent, TakeOpen, Receive
<1>3. ASSUME RestartDaemon PROVE Restart
    BY <1>3 DEF RestartDaemon
<1>4. ASSUME UNCHANGED vars \/ \E s \in Statuses : HealStatus(s) PROVE UNCHANGED feedVars
    BY <1>4 DEF vars, HealStatus
<1>. QED BY <1>1, <1>2, <1>3, <1>4 DEF Next, FeedOnly, FeedNext, StreamStep

LEMMA CopyInvInit == Init => CopyInv
<1>. SUFFICES ASSUME Init PROVE CopyInv
    OBVIOUS
<1>1. FeedInv /\ FeedTypeOK
    BY FeedInvInit DEF Init, FeedInv
<1>2. TypeOK
    <2>1. about \in Seq(Parts) /\ Len(about) = latest
        BY EmptySeq DEF Init, FeedInit
    <2>2. store \in Store
        BY TapBounds DEF Init, Store
    <2>. QED BY <1>1, <2>1, <2>2 DEF Init, TypeOK
<1>. QED BY <1>1, <1>2 DEF Init, CopyInv, HasTarget, Accounted

-----------------------------------------------------------------------------
(* What a client misses stays accounted for while nothing of it is taken   *)
(* away.                                                                   *)
LEMMA StaysAccounted ==
    ASSUME NEW c \in Clients, NEW p \in Parts, Accounted(c, p),
           stale[c] => stale'[c], p \in hidden[c] => p \in hidden'[c],
           \/ copy'[c][p] = copy[c][p] /\ store'[p] = store[p]
           \/ Unreported(p)',
           Unreported(p) => Unreported(p)' \/ OwedAbout(c, p)',
           OwedAbout(c, p) => OwedAbout(c, p)',
           Returning(c) => Returning(c)' \/ stale'[c]
    PROVE  Accounted(c, p)'
BY DEF Accounted

(* A writer that goes on as it was still has its write to report.          *)
LEMMA StillUnreported ==
    ASSUME TypeOK, NEW w \in Writers, NEW from, NEW to, Steps(w, from, to), NEW p \in Parts,
           \/ p = "status" /\ (from \in {"wrote", "reread"} => to \in {"wrote", "reread"})
           \/ p = "notes" /\ from # "noted"
    PROVE  Unreported(p) => Unreported(p)'
BY DEF TypeOK, Steps, Unreported

(* The ways a call ends with no event.                                     *)
LosesWord(w) ==
    StatusThrows(w) \/ ReadAfterFails(w) \/ HideStatus(w) \/ NoteThrows(w)

(* Reading, writing and ending with no event: the feed does not move.      *)
QuietWrite(w) ==
    \/ \E s \in Statuses : ReadBefore(w, s)
    \/ WriteStatus(w) \/ ReadAfter(w) \/ WriteNote(w) \/ LosesWord(w)

LEMMA QuietWriteTypes ==
    ASSUME CopyInv, NEW w \in Writers, QuietWrite(w)
    PROVE  TypeOK' /\ HasTarget'
<1>1. UNCHANGED <<feedVars, about, copy>>
    BY DEF QuietWrite, LosesWord, ReadBefore, WriteStatus, StatusThrows, ReadAfter,
           ReadAfterFails, HideStatus, WriteNote, NoteThrows, Untold
<1>2. TypeOK /\ HasTarget
    BY DEF CopyInv
<1>3. FeedTypeOK'
    BY <1>1, <1>2 DEF TypeOK, FeedTypeOK, feedVars, daemonVars, streamVars, clientVars
<1>4. /\ wpc' \in [Writers -> {"idle", "read", "wrote", "reread", "noted"}]
      /\ hidden' \in [Clients -> SUBSET Parts]
    BY <1>2 DEF QuietWrite, LosesWord, TypeOK, ReadBefore, WriteStatus, StatusThrows, ReadAfter,
                ReadAfterFails, HideStatus, WriteNote, NoteThrows, Untold, Steps, Parts
<1>5. /\ target' \in [Writers -> Statuses \cup {None}]
      /\ before' \in [Writers -> Statuses \cup {None}]
      /\ after' \in [Writers -> Statuses \cup {None}]
    <2>1. /\ store.status \in Statuses
          /\ target \in [Writers -> Statuses \cup {None}]
          /\ before \in [Writers -> Statuses \cup {None}]
          /\ after \in [Writers -> Statuses \cup {None}]
        BY <1>2 DEF TypeOK, Store
    <2>. QED BY <2>1 DEF QuietWrite, LosesWord, ReadBefore, WriteStatus, StatusThrows, ReadAfter,
                         ReadAfterFails, HideStatus, WriteNote, NoteThrows, Returns
<1>6. store' \in Store
    <2>1. CASE WriteStatus(w) \/ StatusThrows(w)
        <3>1. CASE store' = [store EXCEPT !.status = target[w]] /\ wpc[w] = "read"
            <4>1. target[w] \in Statuses
                BY <1>2, <3>1 DEF HasTarget
            <4>. QED BY <1>2, <3>1, <4>1 DEF TypeOK, Store
        <3>2. CASE UNCHANGED store
            BY <1>2, <3>2 DEF TypeOK
        <3>. QED BY <2>1, <3>1, <3>2 DEF WriteStatus, StatusThrows, Steps
    <2>2. CASE WriteNote(w) \/ NoteThrows(w)
        <3>1. store \in Store /\ store.notes + 1 \in 0..MaxNotes
            BY <1>2, <2>2, TapBounds DEF TypeOK, WriteNote, NoteThrows, Store
        <3>2. store' = [store EXCEPT !.notes = store.notes + 1]
            BY <2>2 DEF WriteNote, NoteThrows
        <3>. QED BY <3>1, <3>2 DEF Store
    <2>3. CASE \/ \E s \in Statuses : ReadBefore(w, s)
               \/ ReadAfter(w) \/ ReadAfterFails(w) \/ HideStatus(w)
        BY <1>2, <2>3 DEF TypeOK, ReadBefore, ReadAfter, ReadAfterFails, HideStatus
    <2>. QED BY <2>1, <2>2, <2>3 DEF QuietWrite, LosesWord
<1>7. TypeOK'
    BY <1>1, <1>2, <1>3, <1>4, <1>5, <1>6 DEF TypeOK, feedVars, daemonVars
<1>8. HasTarget'
    BY <1>2 DEF QuietWrite, LosesWord, TypeOK, HasTarget, ReadBefore, WriteStatus, StatusThrows,
                ReadAfter, ReadAfterFails, HideStatus, WriteNote, NoteThrows, Steps, Returns
<1>. QED BY <1>7, <1>8

LEMMA QuietWriteAccounts ==
    ASSUME CopyInv, NEW w \in Writers, QuietWrite(w), NEW c \in Clients, NEW p \in Parts
    PROVE  Accounted(c, p)'
<1>1. /\ UNCHANGED <<about, copy>>
      /\ UNCHANGED <<gen, latest, conn, frames, cursor, cursorGen, owed, stale>>
    BY DEF QuietWrite, LosesWord, ReadBefore, WriteStatus, StatusThrows, ReadAfter,
           ReadAfterFails, HideStatus, WriteNote, NoteThrows, feedVars, daemonVars, streamVars,
           clientVars
<1>2. /\ TypeOK /\ Accounted(c, p) /\ p \in {"status", "notes"}
      /\ wpc \in [Writers -> {"idle", "read", "wrote", "reread", "noted"}]
      /\ store \in [status : Statuses, notes : 0..MaxNotes]
    BY DEF CopyInv, Parts, TypeOK, Store
<1>3. /\ OwedAbout(c, p)' <=> OwedAbout(c, p)
      /\ Returning(c)' <=> Returning(c)
    BY <1>1 DEF OwedAbout, Returning, SnapshotComes
<1>4. p \in hidden[c] => p \in hidden'[c]
    BY <1>2 DEF QuietWrite, LosesWord, ReadBefore, WriteStatus, StatusThrows, ReadAfter,
                ReadAfterFails, HideStatus, WriteNote, NoteThrows, Untold, TypeOK
<1>5. CASE Untold(p)
    BY <1>5 DEF Untold, Accounted
<1>6. CASE ~Untold(p)
    <2>1. Unreported(p) => Unreported(p)'
        <3>1. CASE \E s \in Statuses : ReadBefore(w, s)
            BY <1>2, <3>1, StillUnreported DEF ReadBefore
        <3>2. CASE WriteStatus(w)
            BY <1>2, <3>2, StillUnreported DEF WriteStatus
        <3>3. CASE ReadAfter(w)
            BY <1>2, <3>3, StillUnreported DEF ReadAfter
        <3>4. CASE WriteNote(w)
            BY <1>2, <3>4, StillUnreported DEF WriteNote
        <3>5. CASE StatusThrows(w)
            BY <1>2, <3>5, StillUnreported DEF StatusThrows
        <3>6. CASE ReadAfterFails(w) \/ HideStatus(w)
            BY <1>2, <1>6, <3>6, StillUnreported DEF ReadAfterFails, HideStatus
        <3>7. CASE NoteThrows(w)
            BY <3>7 DEF NoteThrows, Unreported
        <3>. QED BY <3>1, <3>2, <3>3, <3>4, <3>5, <3>6, <3>7 DEF QuietWrite, LosesWord
    <2>2. store'[p] = store[p] \/ Unreported(p)'
        <3>1. CASE WriteStatus(w) /\ p = "status"
            BY <1>2, <3>1 DEF WriteStatus, Steps, Unreported
        <3>2. CASE WriteStatus(w) /\ p = "notes"
            BY <1>2, <3>2 DEF WriteStatus
        <3>3. CASE WriteNote(w) /\ p = "notes"
            BY <1>2, <3>3 DEF WriteNote, Steps, Unreported
        <3>4. CASE WriteNote(w) /\ p = "status"
            BY <1>2, <3>4 DEF WriteNote
        <3>5. CASE StatusThrows(w)
            BY <1>2, <1>6, <3>5 DEF StatusThrows
        <3>6. CASE NoteThrows(w)
            BY <1>2, <1>6, <3>6 DEF NoteThrows
        <3>7. CASE \/ \E s \in Statuses : ReadBefore(w, s)
                   \/ ReadAfter(w) \/ ReadAfterFails(w) \/ HideStatus(w)
            BY <3>7 DEF ReadBefore, ReadAfter, ReadAfterFails, HideStatus
        <3>. QED BY <1>2, <3>1, <3>2, <3>3, <3>4, <3>5, <3>6, <3>7 DEF QuietWrite, LosesWord
    <2>. QED BY <1>1, <1>2, <1>3, <1>4, <2>1, <2>2, StaysAccounted
<1>. QED BY <1>5, <1>6

(* A write under the tap is nobody's to report, and is hidden.             *)
LEMMA HealAccounts ==
    ASSUME CopyInv, NEW s \in Statuses, HealStatus(s)
    PROVE  TypeOK' /\ HasTarget' /\ \A c \in Clients, p \in Parts : Accounted(c, p)'
<1>1. /\ UNCHANGED <<wpc, target, before, after, about, copy>>
      /\ UNCHANGED <<gen, oldest, latest, conn, frames, closed, entry, leaked, cursor, drops,
                     cursorGen, owed, stale>>
      /\ store' = [store EXCEPT !.status = s] /\ Untold("status")
    BY DEF HealStatus, feedVars, daemonVars, streamVars, clientVars
<1>2. TypeOK /\ HasTarget
    BY DEF CopyInv
<1>3. FeedTypeOK'
    BY <1>1, <1>2 DEF TypeOK, FeedTypeOK
<1>4. store' \in Store /\ hidden' \in [Clients -> SUBSET Parts]
    BY <1>1, <1>2 DEF TypeOK, Store, Untold, Parts
<1>5. TypeOK'
    BY <1>1, <1>2, <1>3, <1>4 DEF TypeOK
<1>6. HasTarget'
    BY <1>1, <1>2 DEF HasTarget
<1>7. ASSUME NEW c \in Clients, NEW p \in Parts PROVE Accounted(c, p)'
    <2>1. CASE p = "status"
        BY <1>1, <2>1 DEF Untold, Accounted
    <2>2. CASE p # "status"
        <3>1. /\ store'[p] = store[p] /\ Accounted(c, p)
              /\ p \in hidden[c] => p \in hidden'[c]
            BY <1>1, <1>2, <2>2 DEF TypeOK, Store, Parts, Untold, CopyInv
        <3>2. /\ Unreported(p)' <=> Unreported(p)
              /\ OwedAbout(c, p)' <=> OwedAbout(c, p)
              /\ Returning(c)' <=> Returning(c)
            BY <1>1 DEF Unreported, OwedAbout, Returning, SnapshotComes
        <3>. QED BY <1>1, <3>1, <3>2, StaysAccounted
    <2>. QED BY <2>1, <2>2
<1>. QED BY <1>5, <1>6, <1>7

(* An event is owed to every client as soon as it is published.            *)
LEMMA EmitAccounts ==
    ASSUME CopyInv, NEW w \in Writers, EmitStatus(w) \/ EmitNote(w)
    PROVE  TypeOK' /\ HasTarget' /\ \A c \in Clients, p \in Parts : Accounted(c, p)'
<1>. DEFINE part == IF EmitStatus(w) THEN "status" ELSE "notes"
<1>1. /\ Publish /\ UNCHANGED <<store, copy>>
      /\ hidden' = [c \in Clients |-> hidden[c] \ {part}]
      /\ part \in Parts /\ about' = Append(about, part)
      /\ wpc' = [wpc EXCEPT ![w] = "idle"]
      /\ wpc[w] = IF part = "status" THEN "reread" ELSE "noted"
      /\ target' = [target EXCEPT ![w] = None] \/ UNCHANGED target
      /\ before' = [before EXCEPT ![w] = None] \/ UNCHANGED before
      /\ after' = [after EXCEPT ![w] = None] \/ UNCHANGED after
    BY DEF EmitStatus, EmitNote, Tell, Returns, Steps, Parts
<1>. HIDE DEF part
<1>2. TypeOK /\ HasTarget /\ FeedInv /\ FeedTypeOK
    BY DEF CopyInv, FeedInv
<1>3. FeedTypeOK'
    BY <1>1, <1>2, PublishKeeps DEF FeedInv
<1>4. /\ gen' = gen /\ latest' = latest + 1 /\ latest \in Nat
      /\ UNCHANGED <<conn, cursor, cursorGen, stale>>
      /\ \A c \in Clients : owed'[c] = owed[c] \cup {<<gen, latest + 1>>}
    BY <1>1, <1>2, FeedBounds DEF Publish, FeedTypeOK
<1>5. /\ about' \in Seq(Parts) /\ Len(about') = latest + 1
      /\ \A i \in 1..latest : about'[i] = about[i]
      /\ about'[latest + 1] = part
    BY <1>1, <1>2, AppendProperties DEF TypeOK
<1>6. TypeOK'
    BY <1>1, <1>2, <1>3, <1>4, <1>5 DEF TypeOK
<1>7. HasTarget'
    BY <1>1, <1>2 DEF HasTarget, TypeOK
<1>8. ASSUME NEW c \in Clients, NEW p \in Parts PROVE Accounted(c, p)'
    <2>1. Accounted(c, p)
        BY DEF CopyInv
    <2>2. OwedAbout(c, p) => OwedAbout(c, p)'
        <3>. SUFFICES ASSUME NEW e \in owed[c], e[1] = gen, about[e[2]] = p
                      PROVE  OwedAbout(c, p)'
            BY DEF OwedAbout
        <3>1. e[2] \in 1..latest
            BY <1>2, <1>4 DEF FeedInv, FeedTypeOK, ClientInv, Published
        <3>. QED BY <1>4, <1>5, <3>1 DEF OwedAbout
    <2>3. Unreported(p) => Unreported(p)' \/ OwedAbout(c, p)'
        <3>1. CASE p = part
            <4>. DEFINE e == <<gen, latest + 1>>
            <4>1. e \in owed'[c] /\ e[1] = gen' /\ about'[e[2]] = p
                BY <1>4, <1>5, <3>1
            <4>. QED BY <4>1 DEF OwedAbout
        <3>2. CASE p # part
            BY <1>1, <1>2, <3>2 DEF TypeOK, Unreported, Parts
        <3>. QED BY <3>1, <3>2
    <2>4. SnapshotComes(c) => SnapshotComes(c)'
        <3>1. Event(latest + 1) \in Frame
            BY <1>3, <1>4, FrameKinds, FeedBounds DEF FeedTypeOK
        <3>2. CASE frames'[c] = frames[c]
            BY <3>2 DEF SnapshotComes
        <3>3. CASE frames'[c] = Append(frames[c], Event(latest + 1))
            <4>1. frames[c] \in Seq(Frame) /\ Len(frames[c]) \in Nat
                BY <1>2, LenProperties DEF FeedTypeOK
            <4>2. /\ Len(frames'[c]) = Len(frames[c]) + 1
                  /\ \A i \in 1..Len(frames[c]) : frames'[c][i] = frames[c][i]
                BY <3>1, <3>3, <4>1, AppendOf
            <4>. QED BY <4>1, <4>2 DEF SnapshotComes
        <3>. QED BY <1>1, <1>2, <3>1, <3>2, <3>3, EnqueueType DEF Publish
    <2>5. Returning(c) => Returning(c)'
        BY <1>4, <2>4 DEF Returning
    <2>6. CASE p = part
        <3>. DEFINE e == <<gen, latest + 1>>
        <3>1. e \in owed'[c] /\ e[1] = gen' /\ about'[e[2]] = p
            BY <1>4, <1>5, <2>6
        <3>2. OwedAbout(c, p)'
            BY <3>1 DEF OwedAbout
        <3>. QED BY <3>2 DEF Accounted
    <2>7. CASE p # part
        <3>1. p \in hidden[c] => p \in hidden'[c]
            BY <1>1, <2>7
        <3>. QED BY <1>1, <1>4, <2>1, <2>2, <2>3, <2>5, <3>1, StaysAccounted
    <2>. QED BY <2>6, <2>7
<1>. QED BY <1>6, <1>7, <1>8

-----------------------------------------------------------------------------
(* The streams come and go without the store.                              *)
LEMMA FeedOnlyAccounts ==
    ASSUME CopyInv, FeedOnly
    PROVE  TypeOK' /\ HasTarget' /\ \A c \in Clients, p \in Parts : Accounted(c, p)'
<1>1. /\ UNCHANGED tapVars
      /\ UNCHANGED <<gen, latest, cursor, cursorGen, owed>>
    BY DEF FeedOnly, Health, CloseAll, Heartbeat, Connect, EndOfStream, Disconnect, daemonVars,
           clientVars
<1>2. TypeOK /\ HasTarget /\ FeedInv /\ FeedTypeOK
    BY DEF CopyInv, FeedInv
<1>3. FeedTypeOK'
    <2>1. [FeedNext]_feedVars
        BY DEF FeedOnly, FeedNext, StreamStep
    <2>. QED BY <1>2, <2>1, FeedInvNext DEF FeedInv
<1>4. TypeOK' /\ HasTarget'
    BY <1>1, <1>2, <1>3 DEF TypeOK, HasTarget, tapVars
<1>5. ASSUME NEW c \in Clients
      PROVE  /\ stale[c] => stale'[c]
             /\ Returning(c) => Returning(c)' \/ stale'[c]
    <2>1. CASE Health \/ \E d \in Clients : Heartbeat(d)
        <3>1. PICK to : Enqueue(to, Beat)
            BY <2>1 DEF Health, Heartbeat
        <3>2. UNCHANGED <<stale, conn>>
            BY <2>1 DEF Health, Heartbeat, clientVars
        <3>3. Beat \in Frame
            BY FrameKinds, FeedBounds
        <3>4. SnapshotComes(c) => SnapshotComes(c)'
            <4>1. CASE frames'[c] = frames[c]
                BY <4>1 DEF SnapshotComes
            <4>2. CASE frames'[c] = Append(frames[c], Beat)
                <5>1. frames[c] \in Seq(Frame) /\ Len(frames[c]) \in Nat
                    BY <1>2, LenProperties DEF FeedTypeOK
                <5>2. /\ Len(frames'[c]) = Len(frames[c]) + 1
                      /\ \A i \in 1..Len(frames[c]) : frames'[c][i] = frames[c][i]
                    BY <3>3, <4>2, <5>1, AppendOf
                <5>. QED BY <5>1, <5>2 DEF SnapshotComes
            <4>. QED BY <1>2, <3>1, <3>3, <4>1, <4>2, EnqueueType
        <3>. QED BY <1>1, <3>2, <3>4 DEF Returning
    <2>2. CASE CloseAll
        BY <1>1, <2>2 DEF CloseAll, clientVars, Returning, SnapshotComes
    <2>3. ASSUME NEW d \in Clients, Connect(d) PROVE
             /\ stale[c] => stale'[c]
             /\ Returning(c) => Returning(c)' \/ stale'[c]
        <3>1. CASE c # d
            BY <1>1, <1>2, <2>3, <3>1 DEF Connect, FeedTypeOK, Returning, SnapshotComes
        <3>2. CASE c = d
            <4>. DEFINE k == cursor[c]
            <4>1. /\ frames'[c] = Opening(k) /\ k \in 0..MaxSeq
                  /\ stale'[c] = (stale[c] \/ (k > 0 /\ cursorGen[c] # gen /\ ~Gap(k)))
                BY <1>2, <2>3, <3>2 DEF Connect, FeedTypeOK
            <4>2. frames'[c][1] = OpenFrame(k) /\ 1 \in 1..Len(frames'[c])
                BY <1>2, <4>1, OpeningOf, FeedBounds
            <4>3. k = 0 \/ Gap(k) => SnapshotComes(c)'
                BY <4>2 DEF SnapshotComes, OpenFrame
            <4>4. cursorGen[c] < gen => cursorGen[c] # gen
                BY <1>2 DEF FeedTypeOK
            <4>5. k = 0 \/ k > 0
                BY <4>1, FeedBounds
            <4>. QED BY <1>1, <4>1, <4>3, <4>4, <4>5 DEF Returning
        <3>. QED BY <3>1, <3>2
    <2>4. ASSUME NEW d \in Clients, EndOfStream(d) \/ Disconnect(d) PROVE
             /\ stale[c] => stale'[c]
             /\ Returning(c) => Returning(c)' \/ stale'[c]
        <3>1. UNCHANGED stale /\ conn' = [conn EXCEPT ![d] = FALSE]
              /\ (c # d => frames'[c] = frames[c])
            BY <1>2, <2>4 DEF EndOfStream, Disconnect, clientVars, FeedTypeOK
        <3>2. conn \in [Clients -> BOOLEAN]
            BY <1>2 DEF FeedTypeOK
        <3>3. CASE c = d
            BY <1>1, <3>1, <3>2, <3>3 DEF Returning
        <3>4. CASE c # d
            BY <1>1, <3>1, <3>2, <3>4 DEF Returning, SnapshotComes
        <3>. QED BY <3>1, <3>3, <3>4
    <2>. QED BY <2>1, <2>2, <2>3, <2>4 DEF FeedOnly
<1>6. ASSUME NEW c \in Clients, NEW p \in Parts PROVE Accounted(c, p)'
    <2>1. /\ Accounted(c, p)
          /\ Unreported(p)' <=> Unreported(p)
          /\ OwedAbout(c, p)' <=> OwedAbout(c, p)
        BY <1>1 DEF CopyInv, tapVars, Unreported, OwedAbout
    <2>. QED BY <1>1, <1>5, <2>1, StaysAccounted DEF tapVars
<1>. QED BY <1>4, <1>6

(* What was written and not reported is forgotten, but no client has a     *)
(* cursor of the new run yet.                                              *)
LEMMA RestartAccounts ==
    ASSUME CopyInv, RestartDaemon
    PROVE  TypeOK' /\ HasTarget' /\ \A c \in Clients, p \in Parts : Accounted(c, p)'
<1>1. Restart /\ UNCHANGED <<store, copy, hidden>> /\ about' = <<>>
    BY DEF RestartDaemon
<1>2. TypeOK /\ FeedInv /\ FeedTypeOK
    BY DEF CopyInv, FeedInv
<1>3. FeedTypeOK'
    BY <1>1, <1>2, RestartKeeps DEF FeedInv
<1>4. TypeOK'
    <2>1. about' \in Seq(Parts) /\ Len(about') = latest'
        BY <1>1, EmptySeq DEF Restart
    <2>2. /\ wpc' \in [Writers -> {"idle", "read", "wrote", "reread", "noted"}]
          /\ target' \in [Writers -> Statuses \cup {None}]
          /\ before' \in [Writers -> Statuses \cup {None}]
          /\ after' \in [Writers -> Statuses \cup {None}]
        BY DEF RestartDaemon
    <2>. QED BY <1>1, <1>2, <1>3, <2>1, <2>2 DEF TypeOK
<1>5. HasTarget'
    BY DEF RestartDaemon, HasTarget
<1>6. ASSUME NEW c \in Clients PROVE Returning(c)'
    <2>1. cursorGen[c] <= gen /\ cursorGen[c] \in Nat /\ gen \in Nat
        BY <1>2, FeedBounds DEF FeedInv, FeedTypeOK, ClientInv, Published
    <2>. QED BY <1>1, <2>1 DEF Restart, clientVars, Returning
<1>. QED BY <1>4, <1>5, <1>6 DEF Accounted

(* A client that has read a part has what the store says.                  *)
LEMMA ReadLeaves ==
    ASSUME TypeOK, NEW c \in Clients, NEW parts \in SUBSET Parts, Read(c, parts),
           NEW d \in Clients, NEW p \in Parts
    PROVE  /\ d = c /\ p \in parts => copy'[d][p] = store[p]
           /\ ~(d = c /\ p \in parts) => /\ copy'[d][p] = copy[d][p]
                                         /\ p \in hidden[d] => p \in hidden'[d]
<1>1. copy \in [Clients -> Store] /\ hidden \in [Clients -> SUBSET Parts]
    BY DEF TypeOK
<1>2. /\ copy'[c] = [q \in Parts |-> IF q \in parts THEN store[q] ELSE copy[c][q]]
      /\ hidden'[c] = hidden[c] \ parts
      /\ d # c => copy'[d] = copy[d] /\ hidden'[d] = hidden[d]
    BY <1>1 DEF Read
<1>. QED BY <1>2

LEMMA ReadTypes ==
    ASSUME TypeOK, NEW c \in Clients, NEW parts \in SUBSET Parts, Read(c, parts)
    PROVE  copy' \in [Clients -> Store] /\ hidden' \in [Clients -> SUBSET Parts]
<1>1. copy \in [Clients -> Store] /\ store \in Store /\ hidden \in [Clients -> SUBSET Parts]
    BY DEF TypeOK
<1>. DEFINE r == [q \in Parts |-> IF q \in parts THEN store[q] ELSE copy[c][q]]
<1>2. copy[c] \in Store
    BY <1>1
<1>3. r \in Store
    <2>1. /\ DOMAIN r = {"status", "notes"}
          /\ r["status"] \in Statuses /\ r["notes"] \in 0..MaxNotes
        BY <1>1, <1>2 DEF Store, Parts
    <2>. QED BY <2>1 DEF Store, Parts
<1>4. copy' = [copy EXCEPT ![c] = r]
    BY DEF Read
<1>5. copy' \in [Clients -> Store]
    <2>. HIDE DEF r
    <2>. QED BY <1>1, <1>3, <1>4
<1>. QED BY <1>1, <1>5 DEF Read

(* The snapshot comes first, so an event that is read finds none.          *)
LEMMA TakeEventAccounts ==
    ASSUME CopyInv, NEW c \in Clients, TakeEvent(c)
    PROVE  TypeOK' /\ HasTarget' /\ \A d \in Clients, p \in Parts : Accounted(d, p)'
<1>. DEFINE s == Head(frames[c]).seq
<1>1. /\ ReceiveEvent(c) /\ Read(c, {about[s]})
      /\ UNCHANGED <<store, wpc, target, before, after, about>>
    BY DEF TakeEvent
<1>2. TypeOK /\ HasTarget /\ FeedInv /\ FeedTypeOK
    BY DEF CopyInv, FeedInv
<1>3. FeedTypeOK'
    BY <1>1, <1>2, ReceiveEventKeeps DEF FeedInv
<1>4. /\ UNCHANGED <<gen, latest, conn, stale>>
      /\ conn[c] /\ frames[c] # <<>> /\ Head(frames[c]).kind = "event"
      /\ frames'[c] = Tail(frames[c])
      /\ owed'[c] = owed[c] \ {<<gen, s>>}
      /\ \A d \in Clients \ {c} :
            /\ owed'[d] = owed[d] /\ frames'[d] = frames[d]
            /\ cursor'[d] = cursor[d] /\ cursorGen'[d] = cursorGen[d]
    BY <1>1, <1>2 DEF ReceiveEvent, daemonVars, FeedTypeOK
<1>5. /\ Len(frames[c]) \in Nat \ {0} /\ Head(frames[c]) = frames[c][1]
      /\ \A i \in EventsOf(c) : frames[c][i].seq \in 1..latest
    BY <1>2, <1>4, QueueShifts
<1>6. s \in 1..latest
    <2>1. 1 \in EventsOf(c)
        BY <1>4, <1>5 DEF EventsOf
    <2>. QED BY <1>5, <2>1
<1>7. about[s] \in Parts /\ {about[s]} \in SUBSET Parts
    <2>1. about \in Seq(Parts) /\ Len(about) = latest
        BY <1>2 DEF TypeOK
    <2>. QED BY <1>6, <2>1, ElementOfSeq
<1>8. ~SnapshotComes(c)
    BY <1>2, <1>4, <1>5 DEF SnapshotComes, FeedInv, ClientInv, SnapshotFirst
<1>. HIDE DEF s
<1>9. TypeOK'
    BY <1>1, <1>2, <1>3, <1>4, <1>7, ReadTypes DEF TypeOK
<1>10. HasTarget'
    BY <1>1, <1>2 DEF HasTarget
<1>11. ASSUME NEW d \in Clients, NEW p \in Parts PROVE Accounted(d, p)'
    <2>1. /\ Accounted(d, p) /\ (Unreported(p)' <=> Unreported(p))
        BY <1>1 DEF CopyInv, Unreported
    <2>2. CASE d = c /\ p = about[s]
        <3>1. copy'[d][p] = store'[p]
            BY <1>1, <1>2, <1>7, <2>2, ReadLeaves
        <3>. QED BY <3>1 DEF Accounted
    <2>3. CASE ~(d = c /\ p = about[s])
        <3>1. copy'[d][p] = copy[d][p] /\ (p \in hidden[d] => p \in hidden'[d])
            BY <1>1, <1>2, <1>7, <2>3, ReadLeaves
        <3>2. OwedAbout(d, p) => OwedAbout(d, p)'
            <4>. SUFFICES ASSUME NEW e \in owed[d], e[1] = gen, about[e[2]] = p
                          PROVE  e \in owed'[d]
                BY <1>1, <1>4 DEF OwedAbout
            <4>1. CASE d = c
                <5>1. e # <<gen, s>>
                    BY <2>3, <4>1
                <5>. QED BY <1>4, <4>1, <5>1
            <4>2. CASE d # c
                BY <1>4, <4>2
            <4>. QED BY <4>1, <4>2
        <3>3. Returning(d) => Returning(d)'
            <4>1. CASE d = c
                BY <1>4, <1>8, <4>1 DEF Returning
            <4>2. CASE d # c
                BY <1>4, <4>2 DEF Returning, SnapshotComes
            <4>. QED BY <4>1, <4>2
        <3>. QED BY <1>1, <1>4, <2>1, <3>1, <3>2, <3>3, StaysAccounted
    <2>. QED BY <2>2, <2>3
<1>. QED BY <1>9, <1>10, <1>11

LEMMA TakeOpenAccounts ==
    ASSUME CopyInv, NEW c \in Clients, TakeOpen(c)
    PROVE  TypeOK' /\ HasTarget' /\ \A d \in Clients, p \in Parts : Accounted(d, p)'
<1>1. /\ ReceiveOpen(c)
      /\ UNCHANGED <<store, wpc, target, before, after, about>>
    BY DEF TakeOpen
<1>2. TypeOK /\ HasTarget /\ FeedInv /\ FeedTypeOK
    BY DEF CopyInv, FeedInv
<1>3. FeedTypeOK'
    BY <1>1, <1>2, ReceiveOpenKeeps DEF FeedInv
<1>4. /\ UNCHANGED <<gen, latest, conn, cursor, cursorGen>>
      /\ frames[c] # <<>> /\ frames'[c] = Tail(frames[c])
      /\ \A d \in Clients \ {c} :
            owed'[d] = owed[d] /\ stale'[d] = stale[d] /\ frames'[d] = frames[d]
    BY <1>1, <1>2 DEF ReceiveOpen, daemonVars, FeedTypeOK
<1>5. HasTarget'
    BY <1>1, <1>2 DEF HasTarget
<1>6. CASE Head(frames[c]).kind = "snapshot"
    <2>1. Read(c, Parts)
        BY <1>6 DEF TakeOpen
    <2>2. TypeOK'
        BY <1>1, <1>2, <1>3, <1>4, <2>1, ReadTypes DEF TypeOK
    <2>3. ASSUME NEW d \in Clients, NEW p \in Parts PROVE Accounted(d, p)'
        <3>1. CASE d = c
            <4>1. copy'[d][p] = store'[p]
                BY <1>1, <1>2, <2>1, <3>1, ReadLeaves
            <4>. QED BY <4>1 DEF Accounted
        <3>2. CASE d # c
            <4>1. copy'[d][p] = copy[d][p] /\ (p \in hidden[d] => p \in hidden'[d])
                BY <1>2, <2>1, <3>2, ReadLeaves
            <4>2. /\ Accounted(d, p) /\ (Unreported(p)' <=> Unreported(p))
                  /\ OwedAbout(d, p)' <=> OwedAbout(d, p)
                  /\ Returning(d)' <=> Returning(d)
                BY <1>1, <1>4, <3>2
                   DEF CopyInv, Unreported, OwedAbout, Returning, SnapshotComes
            <4>. QED BY <1>1, <1>4, <3>2, <4>1, <4>2, StaysAccounted
        <3>. QED BY <3>1, <3>2
    <2>. QED BY <1>5, <2>2, <2>3
<1>7. CASE Head(frames[c]).kind # "snapshot"
    <2>1. UNCHANGED <<copy, hidden, owed, stale>>
        BY <1>1, <1>7 DEF TakeOpen, ReceiveOpen
    <2>2. TypeOK'
        BY <1>1, <1>2, <1>3, <1>4, <2>1 DEF TypeOK
    <2>3. ASSUME NEW d \in Clients, NEW p \in Parts PROVE Accounted(d, p)'
        <3>1. SnapshotComes(d) => SnapshotComes(d)'
            <4>1. CASE d = c
                BY <1>2, <1>4, <1>7, <4>1, QueueShifts
            <4>2. CASE d # c
                BY <1>4, <4>2 DEF SnapshotComes
            <4>. QED BY <4>1, <4>2
        <3>2. /\ Accounted(d, p) /\ (Unreported(p)' <=> Unreported(p))
              /\ OwedAbout(d, p)' <=> OwedAbout(d, p)
              /\ Returning(d) => Returning(d)'
            BY <1>1, <1>4, <2>1, <3>1 DEF CopyInv, Unreported, OwedAbout, Returning
        <3>. QED BY <1>1, <2>1, <3>2, StaysAccounted
    <2>. QED BY <1>5, <2>2, <2>3
<1>. QED BY <1>6, <1>7

LEMMA CopyInvNext ==
    ASSUME CopyInv, [Next]_vars
    PROVE  CopyInv'
<1>1. FeedInv'
    BY StepIsOfTheFeed, FeedInvNext DEF CopyInv
<1>2. TypeOK' /\ HasTarget' /\ \A c \in Clients, p \in Parts : Accounted(c, p)'
    <2>1. CASE \E w \in Writers : QuietWrite(w)
        BY <2>1, QuietWriteTypes, QuietWriteAccounts
    <2>2. CASE \E w \in Writers : EmitStatus(w) \/ EmitNote(w)
        BY <2>2, EmitAccounts
    <2>3. CASE \E c \in Clients : Take(c)
        BY <2>3, TakeEventAccounts, TakeOpenAccounts DEF Take
    <2>4. CASE RestartDaemon
        BY <2>4, RestartAccounts
    <2>5. CASE FeedOnly
        BY <2>5, FeedOnlyAccounts
    <2>6. CASE \E s \in Statuses : HealStatus(s)
        BY <2>6, HealAccounts
    <2>7. CASE UNCHANGED vars
        <3>1. /\ UNCHANGED tapVars
              /\ UNCHANGED <<gen, oldest, latest, conn, frames, closed, entry, leaked,
                             cursor, drops, cursorGen, owed, stale>>
            BY <2>7 DEF vars, feedVars, daemonVars, streamVars, clientVars
        <3>2. TypeOK' /\ HasTarget'
            BY <3>1 DEF CopyInv, TypeOK, FeedTypeOK, HasTarget, tapVars
        <3>3. \A c \in Clients, p \in Parts : Accounted(c, p)'
            BY <3>1 DEF CopyInv, Accounted, Unreported, OwedAbout, Returning, SnapshotComes,
                        tapVars
        <3>. QED BY <3>2, <3>3
    <2>. QED BY <2>1, <2>2, <2>3, <2>4, <2>5, <2>6, <2>7
             DEF Next, WriterStep, QuietWrite, LosesWord
<1>. QED BY <1>1, <1>2 DEF CopyInv

(* On an open stream what is owed comes, and so does the snapshot that a   *)
(* client without a cursor of this run is sent.                            *)
LEMMA CopyInvMeans == CopyInv => TypeOK /\ CopyFollowsStore
<1>. SUFFICES ASSUME CopyInv, NEW c \in Clients, NEW p \in Parts,
                     Live(c), ~stale[c], p \notin hidden[c]
              PROVE  UpToDate(c, p)
    BY DEF CopyInv, CopyFollowsStore
<1>1. Accounted(c, p) /\ NothingSkipped
    BY FeedInvMeans DEF CopyInv
<1>2. CASE copy[c][p] = store[p] \/ Unreported(p)
    BY <1>2 DEF UpToDate
<1>3. CASE Returning(c)
    BY <1>3 DEF Returning, Live, UpToDate
<1>4. CASE OwedAbout(c, p)
    <2>1. PICK e \in owed[c] : about[e[2]] = p
        BY <1>4 DEF OwedAbout
    <2>2. SnapshotComes(c) \/ e \in Coming(c)
        BY <1>1 DEF NothingSkipped
    <2>. QED BY <2>1, <2>2 DEF UpToDate
<1>. QED BY <1>1, <1>2, <1>3, <1>4 DEF Accounted

LEMMA CopyInvAlways == Spec => []CopyInv
BY CopyInvInit, CopyInvNext, PTL DEF Spec

(* A client whose stream is open has what the store says, or word of the   *)
(* change is on its way, through every eviction, cut replay, disconnection *)
(* and restart.  The exceptions are those of CopyFollowsStore: changes for *)
(* which the tap makes no event, until the part is reported or read again, *)
(* and a cursor of an earlier run that was accepted.                       *)
THEOREM CopyFollows == Spec => []CopyFollowsStore
BY CopyInvAlways, CopyInvMeans, PTL
=============================================================================
