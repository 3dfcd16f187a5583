----------------------------- MODULE CacheProofs -----------------------------
(***************************************************************************)
(* Proofs about DemuxCache for every file, any number of streams and of    *)
(* ranges, any limits, and however often the player seeks, flushes, and    *)
(* enables or disables streams.                                            *)
(*                                                                         *)
(* Three parties have a position in a stream: the player (the last packet  *)
(* that it got), the queue in the current range (where the reader's head   *)
(* is and where it ends) and the demuxer (the next packet that it reads).  *)
(* What the player gets goes forward because the first is before the       *)
(* second and the second before the third.  The invariant says so, and it  *)
(* says when it need not hold: while a stream is refreshing, the demuxer   *)
(* reads again what the queue has, and while a seek is requested nothing   *)
(* is known of what it reads next.  Joining two ranges, resuming one and   *)
(* enabling a stream all rely on the queue remembering where it ends       *)
(* (last_dts) after its packets were pruned.                               *)
(*                                                                         *)
(* Subtitles are not covered: they are not read in full next to audio and  *)
(* video (ds->eager), and a range whose subtitle queue is empty takes the  *)
(* position away from the one that it is joined with.  Where the indices   *)
(* into a queue point (PointersValid) is covered for every stream.         *)
(***************************************************************************)
EXTENDS DemuxCache, CacheRangesProofs

(* What the player got; what the demuxer adds next: the packet that        *)
(* fill_buffer() returned while the lock was released, if there is one.    *)
Lasts == [s \in Streams |-> reader[s].last]
Upcoming == IF thread.pc = "add" THEN thread.at ELSE pos

(* The inductive invariant.                                                *)
IInv ==
  /\ thread \in [pc : {"work", "add", "filled", "eof"}, at : 0 .. Len(File)]
  /\ pos \in 1 .. Len(File) + 1
  /\ reader \in [Streams -> [first : Nat, last : Nat, goal : Int]]
  /\ thread.pc = "add" => thread.at > 0 /\ pos = thread.at + 1
  /\ LastFit(Lasts)
  /\ Fit(in, Lasts, Upcoming)

-----------------------------------------------------------------------------
(* Nothing but the reader differs.                                         *)
Moved(d, head, d1) ==
  /\ d1 \in DemuxStreams /\ d1.selected = d.selected /\ d1.eager = d.eager
  /\ d1.refreshing = d.refreshing /\ d1.reader_head = head

MoveReader(d, head, t) ==
  [d EXCEPT !.reader_head = head, !.fw_bytes = d.fw_bytes - 1, !.base_ts = t]

(* A demux_stream with the reader's head elsewhere.                        *)
LEMMA ReaderMoved ==
  ASSUME NEW d \in DemuxStreams, NEW head \in Nat, NEW t \in Int, NEW d1,
         d1 = MoveReader(d, head, t)
  PROVE  Moved(d, head, d1)
<1> DEFINE b == d.fw_bytes - 1
<1>1. b \in Int
  BY DEF DemuxStreams
<1>2. d1 = [d EXCEPT !.reader_head = head, !.fw_bytes = b, !.base_ts = t]
  BY DEF MoveReader
<1>. HIDE DEF b
<1>. QED BY <1>1, <1>2 DEF DemuxStreams, Moved

(* The player gets the packet at the reader's head, which is a later one   *)
(* of the file than the last one that it got.                              *)
LEMMA PacketDequeued ==
  ASSUME NEW x, NEW last, NEW next \in Int, LastFit(last), Fit(x, last, next),
         NEW s \in Streams, NEW q, q = Queue(x, s), NEW d, d = x.ds[s],
         d.reader_head # 0, NEW at, at = q.packets[d.reader_head].at,
         NEW last2, last2[s] = at, \A i \in Streams \ {s} : last2[i] = last[i],
         NEW y, y = DequeuePacket(x, s)
  PROVE  /\ Fit(y, last2, next) /\ LastFit(last2)
         /\ Media(s) => at \in last[s] .. Len(File)
<1> DEFINE h == d.reader_head
           m == Len(q.packets)
           head == IF h = m THEN 0 ELSE h + 1
           t == Time(q.packets[h])
           d1 == [d EXCEPT !.reader_head = head, !.fw_bytes = @ - 1, !.base_ts = t]
           z == [x EXCEPT !.ds[s] = d1, !.fw_bytes = @ - 1]
<1>1. /\ Shape(x) /\ DOMAIN x = Fields /\ RangesFit(x.ranges, x.ds)
      /\ DsFit(x.ds) /\ x.ds \in [Streams -> DemuxStreams]
  BY DEF Fit, Shape, DsFit
<1>2. /\ q \in Queues /\ d \in DemuxStreams /\ QueueFit(q, s, d.selected)
  BY <1>1, QueueInRange, DsTypes
<1>18. q \in Queues
  BY <1>2
<1>19. d \in DemuxStreams
  BY <1>2
<1>3. StreamFit(q, d, s, Len(x.ranges) = 1, x.seeking, last[s], next)
  BY DEF Fit, StreamsFit, Queue, Current
<1>4. y = PruneOldPackets(z)
  BY DEF DequeuePacket
<1> DEFINE on == d.selected
<1>16. /\ DOMAIN z = Fields /\ z.ranges = x.ranges /\ z.seeking = x.seeking
       /\ z.ds = [x.ds EXCEPT ![s] = d1]
  <2>. HIDE DEF d1
  <2>. QED BY <1>1 DEF Fields
<1>17. at = q.packets[h].at /\ on \in BOOLEAN
  BY <1>2 DEF DemuxStreams
<1>. HIDE DEF z
<1>5. m \in Nat /\ h \in Nat /\ h <= m /\ h # 0
  <2>1. m \in Nat
    BY <1>18, QueueTypes
  <2>2. h \in Nat
    BY <1>19 DEF DemuxStreams
  <2>3. h <= m
    BY <1>3 DEF StreamFit
  <2>. QED BY <2>1, <2>2, <2>3
<1>. HIDE DEF m, h
<1>6. head \in Nat /\ h \in 1 .. m /\ head <= m
  BY <1>5
<1>7. at \in DOMAIN File /\ at \in Nat /\ t \in Int /\ at = q.packets[h].at
  <2>1. h \in 1 .. Len(q.packets)
    BY <1>6 DEF m
  <2>. HIDE DEF h
  <2>. QED BY <1>17, <1>18, <2>1, QueueTypes DEF t
<1>. HIDE DEF head, t
<1>9. /\ d1 \in DemuxStreams /\ d1.selected = d.selected /\ d1.eager = d.eager
      /\ d1.refreshing = d.refreshing /\ d1.reader_head = head
  <2>1. head \in Nat /\ t \in Int
    BY <1>6, <1>7
  <2>2. d1 = MoveReader(d, head, t)
    BY <1>19 DEF DemuxStreams, MoveReader
  <2>. HIDE DEF d1
  <2>3. Moved(d, head, d1)
    BY <1>19, <2>1, <2>2, ReaderMoved
  <2>. QED BY <2>3 DEF Moved
<1>. HIDE DEF d1
<1>10. /\ DOMAIN q.packets = 1 .. m /\ q.packets # <<>>
  <2>1. Len(q.packets) # 0
    BY <1>5 DEF m
  <2>. QED BY <1>18, <2>1, QueueTypes DEF m
<1>11. ASSUME Media(s) PROVE HeadFit(q, head, at, Len(x.ranges) = 1)
  <2>1. InFileOrder(q, s)
    BY <1>2, <1>11 DEF QueueFit
  <2>2. ASSUME head # 0 PROVE q.packets[head].at > at
    <3>1. head \in 1 .. m /\ h < head
      BY <1>5, <1>6, <2>2 DEF head
    <3>2. q.packets[h].at < q.packets[head].at
      BY <1>6, <1>10, <2>1, <3>1 DEF InFileOrder
    <3>3. q.packets[head].at \in Nat
      <4>1. head \in 1 .. Len(q.packets)
        BY <3>1 DEF m
      <4>. QED BY <1>18, <4>1, QueueTypes
    <3>. QED BY <1>7, <3>2, <3>3
  <2>3. ASSUME head = 0 PROVE File[at].time <= q.last_dts
    <3>1. h = m
      BY <1>5, <2>3 DEF head
    <3>2. q.last_dts = File[at].time
      BY <1>7, <1>10, <2>1, <3>1 DEF InFileOrder, Time, Last, m
    <3>3. File[at].time \in Int
      BY <1>7, FileFacts
    <3>. QED BY <3>2, <3>3, SMTT(40)
  <2>. QED BY <1>10, <2>2, <2>3 DEF HeadFit
<1>12. StreamFit(q, d1, s, Len(x.ranges) = 1, x.seeking, at, next)
  BY <1>3, <1>6, <1>9, <1>11 DEF StreamFit, AheadFit, m
<1>13. Fit(z, last2, next)
  <2>1. \A i \in Streams : Queue(z, i) = Queue(x, i)
    BY <1>16 DEF Queue, Current
  <2>2. /\ RangesFit(z.ranges, x.ds) /\ (Len(x.ranges) = 1 => Len(z.ranges) = 1)
        /\ next <= next
        /\ d1.selected = x.ds[s].selected /\ d1.eager = x.ds[s].eager
        /\ \A i \in Streams \ {s} : Queue(z, i) = Queue(x, i)
    BY <1>1, <1>9, <1>16, <1>17, <2>1
  <2>3. StreamFit(Queue(z, s), d1, s, Len(z.ranges) = 1, x.seeking, last2[s], next)
    BY <1>12, <1>16, <1>17, <2>1
  <2>4. x.ds[s] = d /\ d1 \in DemuxStreams
    BY <1>9
  <2>5. Fit(x, last, next) /\ next \in Int
    OBVIOUS
  <2>. QED BY <1>16, <2>2, <2>3, <2>4, <2>5, OneStream
<1>14. LastFit(last2)
  <2>1. ASSUME Media(s) PROVE File[at].stream = s
    <3>1. InFileOrder(q, s)
      BY <1>2, <2>1 DEF QueueFit
    <3>2. h \in DOMAIN q.packets
      BY <1>6, <1>10
    <3>. QED BY <1>7, <3>1, <3>2 DEF InFileOrder
  <2>2. at \in 0 .. Len(File)
    BY <1>7, FileFacts
  <2>. QED BY <2>1, <2>2 DEF LastFit
<1>15. ASSUME Media(s) PROVE at \in last[s] .. Len(File)
  <2>1. last[s] # 0 => at > last[s]
    BY <1>3, <1>5, <1>7, <1>15 DEF StreamFit, HeadFit, h
  <2>2. last[s] \in 0 .. Len(File)
    BY <1>15 DEF LastFit
  <2>. QED BY <1>7, <2>1, <2>2, FileFacts
<1>. QED BY <1>4, <1>13, <1>14, <1>15, OldPacketsPruned

-----------------------------------------------------------------------------
(* The streams of S have nothing that the player reads next.               *)
Cleared(x, S, y) ==
  /\ DOMAIN y = Fields /\ y.ranges = x.ranges /\ y.seeking = x.seeking
  /\ y.ds \in [Streams -> DemuxStreams]
  /\ \A s \in Streams :
       /\ y.ds[s].selected = x.ds[s].selected /\ y.ds[s].eager = x.ds[s].eager
       /\ y.ds[s].refreshing = x.ds[s].refreshing
       /\ y.ds[s].reader_head = IF s \in S THEN 0 ELSE x.ds[s].reader_head

(* ds_clear_reader_state() of the streams S ...                            *)
LEMMA ReaderCleared ==
  ASSUME NEW x, DOMAIN x = Fields, x.ds \in [Streams -> DemuxStreams],
         NEW S, NEW y, y = ClearReader(x, S)
  PROVE  Cleared(x, S, y)
<1> DEFINE D(d) == [d EXCEPT !.reader_head = 0, !.base_ts = NoPts, !.fw_bytes = 0,
                             !.eof = FALSE, !.skip_to_keyframe = FALSE]
           ds == [s \in Streams |-> IF s \notin S THEN x.ds[s] ELSE D(x.ds[s])]
<1>1. DOMAIN y = Fields /\ y.ranges = x.ranges /\ y.seeking = x.seeking /\ y.ds = ds
  BY DEF ClearReader, Fields
<1>2. ASSUME NEW d \in DemuxStreams
      PROVE  /\ D(d) \in DemuxStreams /\ D(d).selected = d.selected
             /\ D(d).eager = d.eager /\ D(d).refreshing = d.refreshing
             /\ D(d).reader_head = 0
  <2>1. NoPts \in Int /\ 0 \in Nat /\ 0 \in Int
    BY DEF NoPts
  <2>2. D(d) \in DemuxStreams
    BY <2>1, Zenon DEF DemuxStreams
  <2>3. /\ D(d).selected = d.selected /\ D(d).eager = d.eager
        /\ D(d).refreshing = d.refreshing
    BY DEF DemuxStreams
  <2>4. D(d).reader_head = 0
    BY DEF DemuxStreams
  <2>. QED BY <2>2, <2>3, <2>4
<1>. HIDE DEF D
<1>3. /\ ds \in [Streams -> DemuxStreams]
      /\ \A s \in Streams : ds[s] = IF s \notin S THEN x.ds[s] ELSE D(x.ds[s])
  BY <1>2
<1>. HIDE DEF ds
<1>. QED BY <1>1, <1>2, <1>3 DEF Cleared

(* ... keeps the shape of the cache.                                       *)
LEMMA ClearedShape ==
  ASSUME NEW x, Shape(x), NEW S, NEW y, Cleared(x, S, y)
  PROVE  Shape(y)
BY DEF Cleared, Shape, DsFit, RangesFit, RangeFit

(* Nothing was read of the streams and there is nothing to go on from.     *)
NothingRead(last) == \A s \in Streams : last[s] = 0

(* Every packet is later than NOPTS.                                       *)
LEMMA NoDts ==
  ASSUME NEW next, NEW s PROVE Beyond(next, s, NoPts)
BY FileFacts DEF Beyond, NoPts

(* A cache fits that the player has read nothing from, and whose queues do *)
(* not say where the demuxer has been.                                     *)
LEMMA FreshFit ==
  ASSUME NEW x, Shape(x), NEW last, NothingRead(last), NEW next,
         \A s \in Streams : /\ x.ds[s].reader_head <= Len(Queue(x, s).packets)
                            /\ Queue(x, s).last_dts = NoPts
  PROVE  Fit(x, last, next)
<1>1. ASSUME NEW s \in Streams
      PROVE  StreamFit(Queue(x, s), x.ds[s], s, Len(x.ranges) = 1,
                       x.seeking, last[s], next)
  BY NoDts DEF StreamFit, HeadFit, AheadFit, NothingRead
<1>. QED BY <1>1 DEF Fit, StreamsFit, Queue, Current

(* demux_flush() leaves such a cache.                                      *)
LEMMA Flushed ==
  ASSUME NEW x, Shape(x), NEW last, NothingRead(last), NEW next,
         NEW y, y = Flush(x)
  PROVE  Fit(y, last, next)
<1> DEFINE x1 == ClearReader(x, Streams)
           x2 == ClearRanges(x1, DOMAIN x1.ranges)
<1>1. y = FreeEmptyRanges(x2)
  BY Zenon DEF Flush
<1>2. Cleared(x, Streams, x1)
  BY ReaderCleared DEF Shape, DsFit
<1>. HIDE DEF x1
<1>3. Shape(x1)
  BY <1>2, ClearedShape
<1>4. /\ DOMAIN x1 = Fields /\ DsFit(x1.ds) /\ RangesFit(x1.ranges, x1.ds)
      /\ Len(x1.ranges) \in 1 .. Len(x1.ranges) /\ DOMAIN x1.ranges = 1 .. Len(x1.ranges)
  BY <1>3, RangesTypes DEF Shape
<1>5. /\ DOMAIN x2 = Fields /\ x2.ds = x1.ds /\ x2.seeking = x1.seeking
      /\ RangesFit(x2.ranges, x1.ds) /\ Len(x2.ranges) = Len(x1.ranges)
      /\ \A n \in 1 .. Len(x1.ranges) : x2.ranges[n] = EmptyRange
  BY <1>4, RangesCleared
<1>. HIDE DEF x2
<1>6. Shape(x2) /\ x2.ranges[Len(x2.ranges)] = EmptyRange
  BY <1>3, <1>4, <1>5 DEF Shape
<1>7. ASSUME NEW s \in Streams
      PROVE  /\ x2.ds[s].reader_head <= Len(Queue(x2, s).packets)
             /\ Queue(x2, s).last_dts = NoPts
  <2>1. Queue(x2, s) = EmptyQueue
    BY <1>6 DEF Queue, Current, EmptyRange
  <2>2. EmptyQueue.packets = <<>> /\ EmptyQueue.last_dts = NoPts
    BY DEF EmptyQueue
  <2>3. x2.ds[s].reader_head = 0
    BY <1>2, <1>5 DEF Cleared
  <2>4. Len(<<>>) = 0
    OBVIOUS
  <2>. QED BY <2>1, <2>2, <2>3, <2>4
<1>8. Fit(x2, last, next)
  BY <1>6, <1>7, FreshFit
<1>. QED BY <1>1, <1>6, <1>8, FreedTrimmed, TrimmedFits

(* find_seek_target() finds a packet of the queue or none.                 *)
LEMMA TargetFound ==
  ASSUME NEW q \in Queues, NEW pts, NEW flags
  PROVE  FindSeekTarget(q, pts, flags) \in 0 .. Len(q.packets)
<1> DEFINE Pts(p) == q.packets[p].kf_seek_pts
           start == Max({1} \cup {p \in ToSet(q.index) : Pts(p) <= pts})
           kf    == {p \in start .. Len(q.packets) :
                       Keyframe(q.packets[p]) /\ Pts(p) # NoPts}
           back  == {p \in kf : Pts(p) <= pts}
           ahead == {p \in kf : Pts(p) >= pts}
           FirstOf(P) == IF P = {} THEN 0 ELSE Min(P)
           m == Len(q.packets)
<1>1. FindSeekTarget(q, pts, flags) =
        IF "FORWARD" \in flags THEN FirstOf(ahead)
        ELSE IF back # {} THEN Max(back) ELSE FirstOf(kf)
  BY Zenon DEF FindSeekTarget
<1>2. m \in Nat
  BY QueueTypes
<1>3. start \in Int /\ start >= 1
  <2> DEFINE T == {p \in ToSet(q.index) : Pts(p) <= pts}
             n == Len(q.index)
  <2>1. n \in Nat /\ DOMAIN q.index = 1 .. n /\ \A i \in 1 .. n : q.index[i] \in Int
    BY QueueTypes
  <2>2. \A p \in T : p \in ToSet(q.index)
    OBVIOUS
  <2>. HIDE DEF T, n
  <2>3. \A p \in T : \E i \in 1 .. n : p = q.index[i]
    BY <2>1, <2>2 DEF ToSet
  <2>4. Bounded(T)
    <3> DEFINE f == q.index
               S == 1 .. n
    <3>1. S \in SUBSET (1 .. n) /\ \A p \in T : \E i \in S : p = f[i]
      BY <2>3
    <3>2. \A i \in 1 .. n : f[i] \in Int
      BY <2>1
    <3>. HIDE DEF f, S
    <3>. QED BY <2>1, <3>1, <3>2, BoundedImage
  <2>5. Bounded({1} \cup T)
    BY <2>4, BoundedAdd
  <2>6. start = Max({1} \cup T)
    BY DEF T
  <2> DEFINE U == {1} \cup T
  <2>7. 1 \in U /\ U # {} /\ start = Max(U) /\ Bounded(U)
    BY <2>5, <2>6
  <2>. HIDE DEF U, start
  <2>8. start \in U /\ \A t \in U : start >= t
    <3>1. PICK b \in Nat : \A t \in U : -b <= t /\ t <= b
      BY <2>7 DEF Bounded
    <3>2. U \in SUBSET Int
      BY <2>7 DEF Bounded
    <3>. QED BY <2>7, <3>1, <3>2, Extremes
  <2>. QED BY <2>7, <2>8 DEF Bounded
<1>. HIDE DEF start, m
<1>4. kf \subseteq 1 .. m /\ back \subseteq kf /\ ahead \subseteq kf
  BY <1>2, <1>3 DEF m
<1>. HIDE DEF kf, back, ahead
<1>5. ASSUME NEW P \in SUBSET (1 .. m) PROVE FirstOf(P) \in 0 .. m
  <2>1. CASE P # {}
    <3>1. Min(P) \in P
      BY <2>1, LeastNumber
    <3>2. FirstOf(P) = Min(P)
      BY <2>1
    <3>3. Min(P) \in 1 .. m
      BY <3>1
    <3>. HIDE DEF FirstOf
    <3>. QED BY <1>2, <3>2, <3>3
  <2>. QED BY <1>2, <2>1
<1>6. ASSUME back # {} PROVE Max(back) \in 0 .. m
  <2>1. back \in SUBSET Int /\ \A t \in back : -m <= t /\ t <= m
    BY <1>2, <1>4
  <2>2. Max(back) \in back
    BY <1>2, <1>6, <2>1, Extremes
  <2>3. Max(back) \in 1 .. m
    BY <1>4, <2>2
  <2>. QED BY <1>2, <2>3
<1>7. FirstOf(ahead) \in 0 .. m /\ FirstOf(kf) \in 0 .. m
  BY <1>4, <1>5
<1>. HIDE DEF FirstOf
<1>. QED BY <1>1, <1>6, <1>7 DEF m

-----------------------------------------------------------------------------
(* Ranges fit streams as long as the same of them are selected.            *)
LEMMA RangesSelected ==
  ASSUME NEW R, NEW ds, RangesFit(R, ds), NEW ds2,
         \A s \in Streams : ds2[s].selected = ds[s].selected
  PROVE  RangesFit(R, ds2)
BY DEF RangesFit, RangeFit

(* From its old position to nowhere: what a seek leaves to the player.     *)
LEMMA ClearedFit ==
  ASSUME NEW x, NEW last, NEW next, Fit(x, last, next), NEW S,
         NEW y, Cleared(x, S, y), NEW last2, NothingRead(last2)
  PROVE  Fit(y, last2, next)
<1>1. Shape(x) /\ Shape(y)
  BY ClearedShape DEF Fit
<1>2. ASSUME NEW s \in Streams
      PROVE  StreamFit(Queue(y, s), y.ds[s], s, Len(y.ranges) = 1,
                       y.seeking, last2[s], next)
  <2>1. StreamFit(Queue(x, s), x.ds[s], s, Len(x.ranges) = 1,
                  x.seeking, last[s], next)
    BY DEF Fit, StreamsFit, Queue, Current
  <2>2. Queue(y, s) = Queue(x, s) /\ y.seeking = x.seeking
        /\ y.ds[s].selected = x.ds[s].selected
        /\ y.ds[s].refreshing = x.ds[s].refreshing
        /\ y.ds[s].reader_head \in {0, x.ds[s].reader_head}
    BY DEF Cleared, Queue, Current
  <2>3. y.ds[s].reader_head <= Len(Queue(y, s).packets)
    <3> DEFINE n == Len(Queue(x, s).packets)
               h == x.ds[s].reader_head
    <3>1. n \in Nat
      BY <1>1, QueueInRange, QueueTypes
    <3>2. h <= n /\ h \in Nat
      BY <1>1, <2>1, DsTypes DEF StreamFit, Shape
    <3>. HIDE DEF n, h
    <3>3. y.ds[s].reader_head <= n
      BY <2>2, <3>1, <3>2 DEF h
    <3>. QED BY <2>2, <3>3 DEF n
  <2>4. ASSUME Media(s) PROVE AheadFit(Queue(y, s), y.ds[s], s, y.seeking, next)
    BY <2>1, <2>2, <2>4 DEF StreamFit, AheadFit
  <2>. QED BY <2>3, <2>4 DEF StreamFit, HeadFit, NothingRead
<1>. QED BY <1>1, <1>2 DEF Fit, StreamsFit, Queue, Current

(* The ranges from number m to number n.                                   *)
PartOf(R, m, n, t) ==
  /\ t \in Seq(Ranges) /\ Len(t) = n - m + 1
  /\ \A i \in 1 .. n - m + 1 : t[i] = R[m + i - 1]

(* A part of the ranges is one.                                            *)
LEMMA RangesPart ==
  ASSUME NEW R, NEW m \in Int, NEW n \in Int, m <= n + 1,
         \A i \in m .. n : R[i] \in Ranges, NEW t, t = SubSeq(R, m, n)
  PROVE  PartOf(R, m, n, t)
<1>1. /\ t \in Seq(Ranges) /\ Len(t) = IF m <= n THEN n - m + 1 ELSE 0
      /\ \A i \in 1 .. n - m + 1 : t[i] = R[m + i - 1]
  BY SubSeqProperties
<1>2. Len(t) = n - m + 1
  BY <1>1
<1>. QED BY <1>1, <1>2 DEF PartOf

(* try_seek_cache() makes range n the last of the ranges.                  *)
LEMMA RangeMoved ==
  ASSUME NEW R, NEW ds, RangesFit(R, ds), NEW n \in 1 .. Len(R), n # Len(R),
         NEW T, T = Append(RemoveAt(R, n), R[n])
  PROVE  RangesFit(T, ds) /\ Len(T) # 1 /\ T[Len(T)] = R[n]
<1> DEFINE m == Len(R)
           a == SubSeq(R, 1, n - 1)
           b == SubSeq(R, n + 1, m)
           ab == a \o b
<1>1. /\ m \in Nat \ {0}
      /\ \A i \in 1 .. m : R[i] \in Ranges /\ RangeFit(R[i], ds)
  BY RangesTypes
<1>2. n \in 1 .. m /\ n < m
  BY <1>1
<1>. HIDE DEF m
<1>3. /\ a \in Seq(Ranges) /\ Len(a) = n - 1
      /\ \A i \in 1 .. n - 1 : a[i] = R[i]
  <2>1. 1 \in Int /\ n - 1 \in Int /\ \A i \in 1 .. n - 1 : R[i] \in Ranges
    BY <1>1, <1>2
  <2>5. a = SubSeq(R, 1, n - 1) /\ 1 <= n - 1 + 1
    BY <1>2
  <2>. HIDE DEF a
  <2>6. PartOf(R, 1, n - 1, a)
    BY <2>1, <2>5, RangesPart
  <2>2. /\ a \in Seq(Ranges) /\ Len(a) = n - 1 - 1 + 1
        /\ \A i \in 1 .. n - 1 - 1 + 1 : a[i] = R[1 + i - 1]
    BY <2>6 DEF PartOf
  <2>3. Len(a) = n - 1
    BY <1>2, <2>2
  <2>4. \A i \in 1 .. n - 1 : a[i] = R[i]
    <3>1. \A i \in 1 .. n - 1 : i \in 1 .. n - 1 - 1 + 1 /\ 1 + i - 1 = i
      BY <1>2
    <3>. QED BY <2>2, <3>1
  <2>. QED BY <2>2, <2>3, <2>4
<1>4. /\ b \in Seq(Ranges) /\ Len(b) = m - n
      /\ \A i \in 1 .. m - n : b[i] = R[n + i]
  <2>1. n + 1 \in Int /\ m \in Int /\ \A i \in n + 1 .. m : R[i] \in Ranges
    BY <1>1, <1>2
  <2>5. b = SubSeq(R, n + 1, m) /\ n + 1 <= m + 1
    BY <1>1, <1>2
  <2>. HIDE DEF b
  <2>6. PartOf(R, n + 1, m, b)
    BY <2>1, <2>5, RangesPart
  <2>2. /\ b \in Seq(Ranges) /\ Len(b) = m - (n + 1) + 1
        /\ \A i \in 1 .. m - (n + 1) + 1 : b[i] = R[n + 1 + i - 1]
    BY <2>6 DEF PartOf
  <2>3. Len(b) = m - n
    BY <1>1, <1>2, <2>2
  <2>4. \A i \in 1 .. m - n : b[i] = R[n + i]
    <3>1. \A i \in 1 .. m - n : i \in 1 .. m - (n + 1) + 1 /\ n + 1 + i - 1 = n + i
      BY <1>1, <1>2
    <3>. QED BY <2>2, <3>1
  <2>. QED BY <2>2, <2>3, <2>4
<1>. HIDE DEF a, b
<1>5. /\ ab \in Seq(Ranges) /\ Len(ab) = Len(a) + Len(b)
      /\ \A i \in 1 .. Len(a) + Len(b) :
           ab[i] = IF i <= Len(a) THEN a[i] ELSE b[i - Len(a)]
  BY <1>3, <1>4, ConcatProperties
<1>6. Len(ab) = m - 1 /\ m - 1 \in Nat \ {0}
  BY <1>1, <1>2, <1>3, <1>4, <1>5
<1>7. \A i \in 1 .. m - 1 : RangeFit(ab[i], ds)
  <2>. SUFFICES ASSUME NEW i \in 1 .. m - 1 PROVE RangeFit(ab[i], ds)
    OBVIOUS
  <2>1. i \in 1 .. Len(a) + Len(b)
    BY <1>5, <1>6
  <2>2. CASE i <= n - 1
    <3>1. ab[i] = R[i] /\ i \in 1 .. m
      BY <1>1, <1>2, <1>3, <1>5, <2>1, <2>2
    <3>. QED BY <1>1, <3>1
  <2>3. CASE i > n - 1
    <3>1. i - (n - 1) \in 1 .. m - n
      BY <1>1, <1>2, <2>3
    <3>2. ab[i] = b[i - (n - 1)]
      BY <1>2, <1>3, <1>5, <2>1, <2>3
    <3>3. ab[i] = R[n + (i - (n - 1))]
      BY <1>4, <3>1, <3>2
    <3>4. n + (i - (n - 1)) \in 1 .. m
      BY <1>1, <1>2, <3>1
    <3>. QED BY <1>1, <3>3, <3>4
  <2>4. i <= n - 1 \/ i > n - 1
    <3>1. i \in Int /\ n - 1 \in Int
      BY <1>2
    <3>. QED BY <3>1
  <2>. QED BY <2>2, <2>3, <2>4
<1>8. T = Append(ab, R[n])
  BY DEF RemoveAt, a, b, m
<1>. HIDE DEF ab
<1>9. R[n] \in Ranges /\ RangeFit(R[n], ds)
  BY <1>1, <1>2
<1>10. /\ T \in Seq(Ranges) /\ Len(T) = m /\ T[m] = R[n]
       /\ \A i \in 1 .. m - 1 : T[i] = ab[i]
  <2>1. /\ T \in Seq(Ranges) /\ Len(T) = Len(ab) + 1 /\ T[Len(ab) + 1] = R[n]
        /\ \A i \in 1 .. Len(ab) : T[i] = ab[i]
    BY <1>5, <1>8, <1>9, AppendProperties
  <2>2. Len(ab) + 1 = m
    BY <1>1, <1>6
  <2>. QED BY <1>6, <2>1, <2>2
<1>11. T # <<>> /\ DOMAIN T = 1 .. m
  BY <1>1, <1>10, EmptySeq, LenProperties
<1>12. ASSUME NEW i \in 1 .. m PROVE RangeFit(T[i], ds)
  <2>1. CASE i = m
    BY <1>9, <1>10, <2>1
  <2>2. CASE i # m
    <3>1. i \in 1 .. m - 1
      BY <1>1, <2>2
    <3>. QED BY <1>7, <1>10, <3>1
  <2>. QED BY <2>1, <2>2
<1>13. RangesFit(T, ds)
  BY <1>10, <1>11, <1>12 DEF RangesFit
<1>14. m # 1
  BY <1>1, <1>2
<1>. QED BY <1>10, <1>13, <1>14

(* Another range was made the current one.                                 *)
SwitchedTo(x, y) ==
  /\ Shape(y) /\ y.seeking = x.seeking
  /\ y.ranges[Len(y.ranges)] = x.ranges[Len(x.ranges)]
  /\ \A s \in Streams : /\ y.ds[s].selected = x.ds[s].selected
                        /\ y.ds[s].reader_head = x.ds[s].reader_head

(* switch_current_range(): the new range is what it was; the old one lost  *)
(* packets before its prune target, or all of them.                        *)
LEMMA Switched ==
  ASSUME NEW x, Shape(x), Len(x.ranges) # 1, NEW y, y = SwitchCurrentRange(x)
  PROVE  SwitchedTo(x, y)
<1> DEFINE R    == x.ranges
           old  == Current(x) - 1
           c    == Len(R)
           qs   == [s \in Streams |-> RemoveHead(R[old].queues[s],
                                        R[old].queues[s].next_prune_target)]
           x1   == [x EXCEPT !.ranges[old].queues = qs,
                             !.total_bytes = @ - Total([s \in Streams |->
                               R[old].queues[s].next_prune_target])]
           x2   == IF \E s \in Streams : x.ds[s].selected /\ ~x.ds[s].correct
                   THEN ClearRanges(x1, {old}) ELSE x1
           D(d) == [d EXCEPT !.refreshing = FALSE, !.eof = FALSE]
           x3   == [x2 EXCEPT !.ds = [s \in Streams |-> D(@[s])]]
           t    == [R[old] EXCEPT !.queues = qs]
<1>1. y = FreeEmptyRanges(x3)
  BY Zenon DEF SwitchCurrentRange
<1>2. /\ DOMAIN x = Fields /\ RangesFit(R, x.ds) /\ DsFit(x.ds)
      /\ x.ds \in [Streams -> DemuxStreams] /\ x.seeking \in BOOLEAN
  BY DEF Shape, DsFit
<1>3. /\ c \in Nat \ {0} /\ old = c - 1 /\ old \in 1 .. c
      /\ R[old] \in Ranges
      /\ \A s \in Streams : /\ R[old].queues[s] \in Queues
                            /\ QueueFit(R[old].queues[s], s, x.ds[s].selected)
  <2>1. c \in Nat \ {0} /\ c # 1 /\ old = c - 1
    BY <1>2, RangesTypes DEF Current
  <2>. HIDE DEF c, old
  <2>2. old \in 1 .. c
    BY <2>1
  <2>. QED BY <1>2, <2>1, <2>2, RangesTypes DEF c
<1>. HIDE DEF old, c
<1>4. ASSUME NEW s \in Streams
      PROVE  qs[s] \in Queues /\ QueueFit(qs[s], s, x.ds[s].selected)
  <2>1. R[old].queues[s].next_prune_target \in Nat /\ x.ds[s].selected \in BOOLEAN
    BY <1>2, <1>3, DsTypes DEF Queues, QueueRecords
  <2>2. qs[s] = RemoveHead(R[old].queues[s], R[old].queues[s].next_prune_target)
    OBVIOUS
  <2>. HIDE DEF qs
  <2>3. QueueFit(qs[s], s, x.ds[s].selected)
    BY <1>3, <2>1, <2>2, HeadRemovedFits
  <2>. QED BY <2>3 DEF QueueFit
<1>5. qs \in [Streams -> Queues]
  <2>1. qs = [s \in Streams |-> qs[s]]
    OBVIOUS
  <2>. HIDE DEF qs
  <2>. QED BY <1>4, <2>1
<1>6. /\ DOMAIN x1 = Fields /\ x1.ds = x.ds /\ x1.seeking = x.seeking
      /\ x1.ranges = [R EXCEPT ![old] = t]
  <2>. HIDE DEF qs
  <2>. QED BY <1>2 DEF Fields
<1>. HIDE DEF qs, x1
<1>7. RangeFit(t, x.ds)
  <2>1. t \in Ranges /\ t.queues = qs
    BY <1>3, <1>5 DEF Ranges
  <2>. QED BY <1>4, <2>1 DEF RangeFit
<1>. HIDE DEF t
<1>8. RangeOnly(R, x1.ranges, x.ds, old, t)
  <2>1. old \in 1 .. Len(R)
    BY <1>3 DEF c
  <2>. HIDE DEF R
  <2>. QED BY <1>2, <1>6, <1>7, <2>1, RangeWritten
<1>9. RangesFit(x1.ranges, x.ds) /\ Len(x1.ranges) = c /\ x1.ranges[c] = R[c]
  <2>1. c \in 1 .. c /\ c # old
    BY <1>3
  <2>. QED BY <1>8, <2>1 DEF RangeOnly, c
<1>10. /\ DOMAIN x2 = Fields /\ x2.ds = x.ds /\ x2.seeking = x.seeking
       /\ RangesFit(x2.ranges, x.ds) /\ Len(x2.ranges) = c /\ x2.ranges[c] = R[c]
  <2>1. CASE x2 = x1
    BY <1>6, <1>9, <2>1
  <2>2. CASE x2 = ClearRanges(x1, {old})
    <3>1. /\ DOMAIN x2 = Fields /\ x2.ds = x1.ds /\ x2.seeking = x1.seeking
          /\ RangesFit(x2.ranges, x.ds) /\ Len(x2.ranges) = Len(x1.ranges)
          /\ \A n \in 1 .. Len(x1.ranges) :
               x2.ranges[n] = IF n \in {old} THEN EmptyRange ELSE x1.ranges[n]
      <4>. HIDE DEF x2
      <4>. QED BY <1>2, <1>6, <1>9, <2>2, RangesCleared
    <3>2. c \in 1 .. c /\ c # old
      BY <1>3
    <3>. HIDE DEF x2
    <3>. QED BY <1>6, <1>9, <3>1, <3>2
  <2>. QED BY <2>1, <2>2
<1>. HIDE DEF x2
<1> DEFINE ds == [s \in Streams |-> D(x2.ds[s])]
<1>11. DOMAIN x3 = Fields /\ x3.ds = ds /\ x3.seeking = x.seeking /\ x3.ranges = x2.ranges
  <2>. HIDE DEF D
  <2>. QED BY <1>10 DEF Fields
<1>12. ASSUME NEW d \in DemuxStreams
       PROVE  /\ D(d) \in DemuxStreams /\ D(d).selected = d.selected
              /\ D(d).eager = d.eager /\ D(d).reader_head = d.reader_head
  BY Zenon DEF DemuxStreams
<1>. HIDE DEF D
<1>13. /\ ds \in [Streams -> DemuxStreams]
       /\ \A s \in Streams : /\ ds[s].selected = x.ds[s].selected
                             /\ ds[s].eager = x.ds[s].eager
                             /\ ds[s].reader_head = x.ds[s].reader_head
  <2>1. \A s \in Streams : x2.ds[s] \in DemuxStreams /\ x2.ds[s] = x.ds[s]
    BY <1>2, <1>10
  <2>. QED BY <1>12, <2>1
<1>. HIDE DEF ds, x3
<1>14. DsFit(ds)
  BY <1>2, <1>13 DEF DsFit
<1>15. RangesFit(x3.ranges, ds)
  BY <1>10, <1>11, <1>13, RangesSelected
<1>16. /\ DOMAIN y = Fields /\ y.ds = x3.ds /\ y.seeking = x3.seeking
       /\ RangesFit(y.ranges, ds)
       /\ y.ranges[Len(y.ranges)] = x3.ranges[Len(x3.ranges)]
  BY <1>1, <1>11, <1>15, EmptyRangesFreed
<1>17. Shape(y) /\ y.seeking = x.seeking
  BY <1>2, <1>11, <1>14, <1>16 DEF Shape
<1>18. y.ranges[Len(y.ranges)] = x.ranges[Len(x.ranges)]
  BY <1>10, <1>11, <1>16 DEF c
<1>. QED BY <1>11, <1>13, <1>16, <1>17, <1>18 DEF SwitchedTo

-----------------------------------------------------------------------------
(* What a seek does to one stream: the reader's head is set.               *)
ReaderAt(d, head, ts, bytes) ==
  [d EXCEPT !.reader_head = head, !.skip_to_keyframe = (head = 0),
            !.base_ts = IF head = 0 THEN d.base_ts ELSE ts, !.fw_bytes = bytes]

(* Such a demux_stream is as before but for the reader.                    *)
LEMMA ReaderPlaced ==
  ASSUME NEW d \in DemuxStreams, NEW head \in Nat, NEW ts \in Int, NEW bytes \in Int,
         NEW d1, d1 = ReaderAt(d, head, ts, bytes)
  PROVE  Moved(d, head, d1)
<1> DEFINE skip == (head = 0)
           base == IF head = 0 THEN d.base_ts ELSE ts
<1>1. skip \in BOOLEAN
  BY Zenon
<1>2. base \in Int
  BY DEF DemuxStreams
<1>3. d1 = [d EXCEPT !.reader_head = head, !.skip_to_keyframe = skip,
                     !.base_ts = base, !.fw_bytes = bytes]
  BY Zenon DEF ReaderAt
<1>. HIDE DEF skip, base
<1>4. d1 \in DemuxStreams
  BY <1>1, <1>2, <1>3, Zenon DEF DemuxStreams
<1>5. /\ d1.selected = d.selected /\ d1.eager = d.eager
      /\ d1.refreshing = d.refreshing /\ d1.reader_head = head
  BY <1>3 DEF DemuxStreams
<1>. QED BY <1>4, <1>5 DEF Moved

(* The readers' heads are in the queues of range r.                        *)
Placed(x, r, y) ==
  /\ DOMAIN y = Fields /\ y.seeking = x.seeking
  /\ y.ds \in [Streams -> DemuxStreams]
  /\ \A s \in Streams : /\ y.ds[s].selected = x.ds[s].selected
                        /\ y.ds[s].eager = x.ds[s].eager
                        /\ y.ds[s].refreshing = x.ds[s].refreshing
                        /\ y.ds[s].reader_head <= Len(r.queues[s].packets)

(* The demux_streams with the heads that the seek found.                   *)
ReadersAt(x, r, head, fw) ==
  [s \in Streams |-> [x.ds[s] EXCEPT
     !.reader_head = head[s], !.skip_to_keyframe = (head[s] = 0),
     !.base_ts = IF head[s] = 0 THEN @ ELSE Time(r.queues[s].packets[head[s]]),
     !.fw_bytes = fw[s]]]

(* find_seek_target() of all streams gives the readers' heads.             *)
LEMMA HeadsPlaced ==
  ASSUME NEW x, Shape(x), NEW r \in Ranges, NEW pts, NEW flags,
         NEW head, head = [s \in Streams |-> FindSeekTarget(r.queues[s], pts, flags)],
         NEW fw, fw = [s \in Streams |-> Forward(r.queues[s], head[s])],
         NEW y, DOMAIN y = Fields, y.seeking = x.seeking,
         y.ds = ReadersAt(x, r, head, fw)
  PROVE  Placed(x, r, y)
<1> DEFINE Ts(s) == IF head[s] = 0 THEN 0 ELSE Time(r.queues[s].packets[head[s]])
           D(s)  == ReaderAt(x.ds[s], head[s], Ts(s), fw[s])
<1>1. ASSUME NEW s \in Streams
      PROVE  /\ head[s] \in Nat /\ head[s] <= Len(r.queues[s].packets)
             /\ Ts(s) \in Int /\ fw[s] \in Int
  <2> DEFINE q == r.queues[s]
             h == head[s]
             n == Len(q.packets)
  <2>1. q \in Queues
    BY DEF Ranges
  <2>2. n \in Nat /\ \A i \in 1 .. n : Time(q.packets[i]) \in Nat
    BY <2>1, QueueTypes
  <2>3. h \in 0 .. n
    <3>1. FindSeekTarget(q, pts, flags) \in 0 .. n
      <4>. HIDE DEF q
      <4>. QED BY <2>1, TargetFound
    <3>. QED BY <3>1
  <2>4. fw[s] = Forward(q, h)
    OBVIOUS
  <2>5. Ts(s) = IF h = 0 THEN 0 ELSE Time(q.packets[h])
    OBVIOUS
  <2>. HIDE DEF h
  <2>6. fw[s] \in Int
    <3>1. fw[s] = IF h = 0 THEN 0 ELSE n - h + 1
      BY <2>4 DEF Forward
    <3>. HIDE DEF n, q
    <3>. QED BY <2>2, <2>3, <3>1
  <2>7. Ts(s) \in Int
    <3>1. CASE h = 0
      BY <2>5, <3>1
    <3>2. CASE h # 0
      <4>1. h \in 1 .. n
        BY <2>2, <2>3, <3>2
      <4>. HIDE DEF n, q, Ts
      <4>. QED BY <2>2, <2>5, <3>2, <4>1
    <3>. QED BY <3>1, <3>2
  <2>8. h \in Nat /\ h <= n
    BY <2>2, <2>3
  <2>. QED BY <2>6, <2>7, <2>8 DEF h
<1>2. \A s \in Streams : y.ds[s] = D(s)
  BY Zenon DEF ReaderAt, ReadersAt
<1>3. DOMAIN y.ds = Streams /\ y.ds = [s \in Streams |-> y.ds[s]]
  BY Zenon DEF ReadersAt
<1>. HIDE DEF Ts
<1>4. ASSUME NEW s \in Streams
      PROVE  Moved(x.ds[s], head[s], y.ds[s])
  <2>1. x.ds[s] \in DemuxStreams
    BY DsTypes DEF Shape
  <2>. QED BY <1>1, <1>2, <2>1, ReaderPlaced, SMTT(40)
<1>5. y.ds \in [Streams -> DemuxStreams]
  BY <1>3, <1>4, Zenon DEF Moved
<1>. QED BY <1>1, <1>4, <1>5 DEF Moved, Placed

(* Nothing of the streams is taken over from the position before a seek.   *)
LEMMA RefreshingFit ==
  ASSUME NEW x, Shape(x), NEW last, NothingRead(last), NEW next,
         \A s \in Streams : /\ x.ds[s].reader_head <= Len(Queue(x, s).packets)
                            /\ x.ds[s].refreshing = x.ds[s].selected
  PROVE  Fit(x, last, next)
<1>1. ASSUME NEW s \in Streams
      PROVE  StreamFit(Queue(x, s), x.ds[s], s, Len(x.ranges) = 1,
                       x.seeking, last[s], next)
  BY DEF StreamFit, HeadFit, AheadFit, NothingRead
<1>. QED BY <1>1 DEF Fit, StreamsFit, Queue, Current

(* try_seek_cache(): the seek into a range of the cache.  If it is not the *)
(* current one, all selected streams skip what it has.                     *)
LEMMA SoughtInRange ==
  ASSUME NEW x, NEW last, NothingRead(last), NEW next, Fit(x, last, next),
         NEW n \in 1 .. Len(x.ranges), NEW pts, NEW flags,
         NEW y, y = SeekInRange(x, n, pts, flags)
  PROVE  Fit(y, last, next)
<1> DEFINE r    == x.ranges[n]
           to   == VideoTarget(x, r, pts, flags)
           head == [s \in Streams |-> FindSeekTarget(r.queues[s], to.pts, to.flags)]
           fw   == [s \in Streams |-> Forward(r.queues[s], head[s])]
           x1   == [x EXCEPT
             !.ds = [s \in Streams |-> [x.ds[s] EXCEPT
                  !.reader_head = head[s], !.skip_to_keyframe = (head[s] = 0),
                  !.base_ts = IF head[s] = 0 THEN @
                              ELSE Time(r.queues[s].packets[head[s]]),
                  !.fw_bytes = fw[s]]],
             !.fw_bytes = @ + Total(fw)]
           x2   == [x1 EXCEPT !.ranges = Append(RemoveAt(@, n), r)]
           x3   == SwitchCurrentRange(x2)
           x4   == [x3 EXCEPT !.ds = [s \in Streams |->
                      [@[s] EXCEPT !.refreshing = x.ds[s].selected]]]
<1>1. y = IF n = Current(x) THEN x1
          ELSE QueueSeek(x4, r.seek_end - Second, {"HR"})
  BY Zenon DEF SeekInRange
<1>2. /\ Shape(x) /\ DOMAIN x = Fields /\ RangesFit(x.ranges, x.ds) /\ DsFit(x.ds)
      /\ x.seeking \in BOOLEAN
  BY DEF Fit, Shape
<1>3. r \in Ranges /\ Len(x.ranges) \in Nat \ {0}
  BY <1>2, RangesTypes
<1> DEFINE pts2 == to.pts
           flags2 == to.flags
<1>4. head = [s \in Streams |-> FindSeekTarget(r.queues[s], pts2, flags2)]
  BY Zenon
<1>. HIDE DEF to, pts2, flags2
<1> DEFINE ds  == ReadersAt(x, r, head, fw)
           fw2 == x.fw_bytes + Total(fw)
<1>5. x1 = [x EXCEPT !.ds = ds, !.fw_bytes = fw2]
  BY Zenon DEF ReadersAt
<1>6. fw = [s \in Streams |-> Forward(r.queues[s], head[s])]
  OBVIOUS
<1>7. /\ x2 = [x1 EXCEPT !.ranges = Append(RemoveAt(x1.ranges, n), r)]
      /\ x3 = SwitchCurrentRange(x2)
      /\ x4 = [x3 EXCEPT !.ds = [s \in Streams |->
                 [x3.ds[s] EXCEPT !.refreshing = x.ds[s].selected]]]
  BY Zenon
<1>. HIDE DEF x1, x2, x3, x4, fw2, ds, fw, head
<1>8. /\ DOMAIN x1 = Fields /\ x1.ds = ds /\ x1.ranges = x.ranges
      /\ x1.seeking = x.seeking
  BY <1>2, <1>5 DEF Fields
<1>9. x1.ds = ReadersAt(x, r, head, fw)
  BY <1>8 DEF ds
<1>10. Placed(x, r, x1)
  BY <1>2, <1>3, <1>4, <1>6, <1>8, <1>9, HeadsPlaced
<1>11. DsFit(x1.ds) /\ \A s \in Streams : x1.ds[s].selected = x.ds[s].selected
  BY <1>2, <1>10 DEF Placed, DsFit
<1>12. CASE n = Current(x)
  <2>1. y = x1
    BY <1>1, <1>12
  <2>2. RangesFit(x1.ranges, x1.ds)
    BY <1>2, <1>8, <1>11, RangesSelected
  <2>3. Shape(x1)
    BY <1>2, <1>8, <1>11, <2>2 DEF Shape
  <2>4. ASSUME NEW s \in Streams
        PROVE  StreamFit(Queue(x1, s), x1.ds[s], s, Len(x1.ranges) = 1,
                         x1.seeking, last[s], next)
    <3>1. StreamFit(Queue(x, s), x.ds[s], s, Len(x.ranges) = 1,
                    x.seeking, last[s], next)
      BY DEF Fit, StreamsFit, Queue, Current
    <3>2. Queue(x1, s) = r.queues[s] /\ Queue(x, s) = r.queues[s]
      BY <1>8, <1>12 DEF Queue, Current, r
    <3>3. Media(s) => AheadFit(r.queues[s], x1.ds[s], s, x1.seeking, next)
      BY <1>8, <1>10, <3>1, <3>2 DEF Placed, StreamFit, AheadFit
    <3>4. x1.ds[s].reader_head <= Len(r.queues[s].packets)
      BY <1>10 DEF Placed
    <3>. QED BY <3>2, <3>3, <3>4 DEF StreamFit, HeadFit, NothingRead
  <2>. QED BY <2>1, <2>3, <2>4 DEF Fit, StreamsFit, Queue, Current
<1>13. CASE n # Current(x)
  <2> DEFINE T == Append(RemoveAt(x.ranges, n), r)
  <2>1. RangesFit(T, x.ds) /\ Len(T) # 1 /\ T[Len(T)] = r
    <3>1. n # Len(x.ranges) /\ T = Append(RemoveAt(x.ranges, n), x.ranges[n])
      BY <1>13 DEF Current, r
    <3>. HIDE DEF T, r
    <3>2. RangesFit(T, x.ds) /\ Len(T) # 1 /\ T[Len(T)] = x.ranges[n]
      BY <1>2, <3>1, RangeMoved
    <3>. QED BY <3>2 DEF r
  <2>. HIDE DEF T
  <2>2. /\ DOMAIN x2 = Fields /\ x2.ds = x1.ds /\ x2.ranges = T
        /\ x2.seeking = x.seeking
    <3>1. x2 = [x1 EXCEPT !.ranges = T]
      BY <1>7, <1>8 DEF T
    <3>. QED BY <1>8, <3>1 DEF Fields
  <2>3. Shape(x2)
    <3>1. RangesFit(x2.ranges, x2.ds)
      BY <1>11, <2>1, <2>2, RangesSelected
    <3>. QED BY <1>2, <1>11, <2>2, <3>1 DEF Shape
  <2>4. SwitchedTo(x2, x3)
    BY <1>7, <2>1, <2>2, <2>3, Switched
  <2> DEFINE ds4 == [s \in Streams |-> [x3.ds[s] EXCEPT !.refreshing = x.ds[s].selected]]
  <2>5. DOMAIN x3 = Fields /\ DsFit(x3.ds) /\ RangesFit(x3.ranges, x3.ds)
        /\ x3.seeking \in BOOLEAN
    BY <2>4 DEF SwitchedTo, Shape
  <2>6. /\ ds4 \in [Streams -> DemuxStreams]
        /\ \A s \in Streams : /\ ds4[s].selected = x3.ds[s].selected
                              /\ ds4[s].eager = x3.ds[s].eager
                              /\ ds4[s].refreshing = x.ds[s].selected
                              /\ ds4[s].reader_head = x3.ds[s].reader_head
    <3>1. ASSUME NEW s \in Streams
          PROVE  ds4[s] \in DemuxStreams
      <4>1. x3.ds[s] \in DemuxStreams /\ x.ds[s].selected \in BOOLEAN
        BY <1>2, <2>5, DsTypes
      <4>. QED BY <4>1, Zenon DEF DemuxStreams
    <3>2. ASSUME NEW s \in Streams
          PROVE  /\ ds4[s].selected = x3.ds[s].selected
                 /\ ds4[s].eager = x3.ds[s].eager
                 /\ ds4[s].refreshing = x.ds[s].selected
                 /\ ds4[s].reader_head = x3.ds[s].reader_head
      <4>1. x3.ds[s] \in DemuxStreams
        BY <2>5, DsTypes
      <4>. QED BY <4>1 DEF DemuxStreams
    <3>3. ds4 = [s \in Streams |-> ds4[s]]
      BY Zenon
    <3>. HIDE DEF ds4
    <3>. QED BY <3>1, <3>2, <3>3, Zenon
  <2>7. x4 = [x3 EXCEPT !.ds = ds4]
    BY <1>7
  <2>. HIDE DEF ds4
  <2>8. /\ DOMAIN x4 = Fields /\ x4.ds = ds4 /\ x4.ranges = x3.ranges
        /\ x4.seeking = x3.seeking
    BY <2>5, <2>7 DEF Fields
  <2>9. Shape(x4)
    <3>1. RangesFit(x4.ranges, x4.ds)
      BY <2>5, <2>6, <2>8, RangesSelected
    <3>2. DsFit(ds4)
      BY <2>5, <2>6 DEF DsFit
    <3>. QED BY <2>5, <2>8, <3>1, <3>2 DEF Shape
  <2>10. ASSUME NEW s \in Streams
         PROVE  /\ x4.ds[s].reader_head <= Len(Queue(x4, s).packets)
                /\ x4.ds[s].refreshing = x4.ds[s].selected
    <3>1. Queue(x4, s) = r.queues[s]
      BY <2>1, <2>2, <2>4, <2>8 DEF SwitchedTo, Queue, Current
    <3>2. x4.ds[s].reader_head = x1.ds[s].reader_head
      BY <2>2, <2>4, <2>6, <2>8 DEF SwitchedTo
    <3>3. x1.ds[s].reader_head <= Len(r.queues[s].packets)
      BY <1>10 DEF Placed
    <3>4. x4.ds[s].selected = x.ds[s].selected
      BY <1>11, <2>2, <2>4, <2>6, <2>8 DEF SwitchedTo
    <3>. QED BY <2>6, <2>8, <3>1, <3>2, <3>3, <3>4
  <2>11. Fit(x4, last, next)
    BY <2>9, <2>10, RefreshingFit
  <2>12. \A s \in Streams : ~(x4.ds[s].selected /\ ~x4.ds[s].refreshing)
    BY <2>10
  <2>13. y = QueueSeek(x4, r.seek_end - Second, {"HR"})
    BY <1>1, <1>13
  <2>. QED BY <2>11, <2>12, <2>13, SeekQueued
<1>. QED BY <1>12, <1>13

(* The current range is an empty one.                                      *)
Refreshed(x, y) ==
  /\ Shape(y) /\ y.ranges[Len(y.ranges)] = EmptyRange
  /\ \A s \in Streams : y.ds[s].reader_head = x.ds[s].reader_head

(* switch_to_fresh_cache_range() leaves such a range.                      *)
LEMMA RangeRefreshed ==
  ASSUME NEW x, Shape(x), NEW y, y = SwitchToFresh(x)
  PROVE  Refreshed(x, y)
<1>1. /\ DOMAIN x = Fields /\ DsFit(x.ds) /\ RangesFit(x.ranges, x.ds)
      /\ x.seeking \in BOOLEAN
  BY DEF Shape
<1> DEFINE m == Len(x.ranges)
<1>2. m \in Nat \ {0} /\ x.ranges \in Seq(Ranges)
      /\ \A n \in 1 .. m : RangeFit(x.ranges[n], x.ds)
  BY <1>1, RangesTypes
<1>3. CASE ~x.seekable_cache
  <2>1. y = ClearRanges(x, {m})
    BY <1>3 DEF SwitchToFresh, Current
  <2>2. /\ DOMAIN y = Fields /\ y.ds = x.ds /\ y.seeking = x.seeking
        /\ RangesFit(y.ranges, x.ds) /\ Len(y.ranges) = m
        /\ \A n \in 1 .. m : y.ranges[n] = IF n \in {m} THEN EmptyRange ELSE x.ranges[n]
    BY <1>1, <2>1, RangesCleared
  <2>. HIDE DEF m
  <2>3. m \in 1 .. m
    BY <1>2
  <2>4. y.ranges[m] = EmptyRange
    BY <2>2, <2>3
  <2>. QED BY <1>1, <2>2, <2>4 DEF Shape, Refreshed
<1>4. CASE x.seekable_cache
  <2> DEFINE T == Append(x.ranges, EmptyRange)
             z == [x EXCEPT !.ranges = T]
  <2>1. y = SwitchCurrentRange(z)
    BY <1>4, Zenon DEF SwitchToFresh
  <2>2. RangeFit(EmptyRange, x.ds) /\ EmptyRange \in Ranges
    BY <1>1, EmptyRangeFits DEF RangeFit
  <2>3. /\ T \in Seq(Ranges) /\ Len(T) = m + 1 /\ T[m + 1] = EmptyRange
        /\ \A i \in 1 .. m : T[i] = x.ranges[i]
    BY <1>2, <2>2, AppendProperties
  <2>. HIDE DEF T, m
  <2>4. T # <<>> /\ DOMAIN T = 1 .. m + 1
    BY <1>2, <2>3, EmptySeq, LenProperties
  <2>5. ASSUME NEW i \in 1 .. m + 1 PROVE RangeFit(T[i], x.ds)
    <3>1. CASE i = m + 1
      BY <2>2, <2>3, <3>1
    <3>2. CASE i # m + 1
      <4>1. i \in 1 .. m
        BY <1>2, <3>2
      <4>. QED BY <1>2, <2>3, <4>1
    <3>. QED BY <3>1, <3>2
  <2>6. RangesFit(T, x.ds)
    BY <2>3, <2>4, <2>5 DEF RangesFit
  <2>7. /\ DOMAIN z = Fields /\ z.ds = x.ds /\ z.ranges = T /\ z.seeking = x.seeking
    BY <1>1 DEF Fields
  <2>. HIDE DEF z
  <2>8. Shape(z) /\ Len(z.ranges) # 1 /\ z.ranges[Len(z.ranges)] = EmptyRange
    <3>1. m + 1 # 1
      BY <1>2
    <3>. QED BY <1>1, <2>3, <2>6, <2>7, <3>1 DEF Shape
  <2>9. SwitchedTo(z, y)
    BY <2>1, <2>8, Switched
  <2>. QED BY <2>7, <2>8, <2>9 DEF SwitchedTo, Refreshed
<1>. QED BY <1>3, <1>4

(* demux_seek(): the player goes elsewhere and forgets what it got.        *)
LEMMA Sought ==
  ASSUME NEW x, NEW last, NEW next, Fit(x, last, next), NEW pts, NEW flags,
         NEW last2, NothingRead(last2), NEW y, y = Seek(x, pts, flags)
  PROVE  Fit(y, last2, next)
<1> DEFINE c  == ClearReader(x, Streams)
           x1 == [c EXCEPT !.eof = FALSE, !.last_eof = FALSE, !.reading = FALSE]
           at == RangesAt(x1, pts)
           f  == SwitchToFresh(x1)
<1>1. y = IF x.seekable_cache /\ at # {} THEN SeekInRange(x1, Min(at), pts, flags)
          ELSE QueueSeek(f, pts, flags)
  BY Zenon DEF Seek
<1>2. Cleared(x, Streams, c)
  <2>1. DOMAIN x = Fields /\ x.ds \in [Streams -> DemuxStreams]
    BY DEF Fit, Shape, DsFit
  <2>. QED BY <2>1, ReaderCleared
<1>. HIDE DEF c
<1>3. Cleared(x, Streams, x1)
  <2>1. DOMAIN c = Fields
    BY <1>2 DEF Cleared
  <2>2. /\ DOMAIN x1 = Fields /\ x1.ds = c.ds /\ x1.ranges = c.ranges
        /\ x1.seeking = c.seeking
    BY <2>1 DEF Fields
  <2>. HIDE DEF x1
  <2>. QED BY <1>2, <2>2 DEF Cleared
<1>. HIDE DEF x1
<1>4. Fit(x1, last2, next)
  BY <1>3, ClearedFit
<1>5. Shape(x1)
  BY <1>4 DEF Fit
<1>6. CASE x.seekable_cache /\ at # {}
  <2> DEFINE m == Len(x1.ranges)
             n == Min(at)
  <2>1. m \in Nat /\ DOMAIN x1.ranges = 1 .. m
    <3>1. RangesFit(x1.ranges, x1.ds)
      BY <1>5 DEF Shape
    <3>. QED BY <3>1, RangesTypes
  <2>2. at \subseteq 1 .. m
    BY <2>1 DEF RangesAt
  <2>. HIDE DEF at
  <2>3. at \in SUBSET Nat /\ at # {}
    <3>1. 1 .. m \subseteq Nat
      BY <2>1
    <3>. HIDE DEF m
    <3>. QED BY <1>6, <2>2, <3>1
  <2>4. n \in 1 .. m
    <3>1. n \in at
      BY <2>3, LeastNumber
    <3>. QED BY <2>2, <3>1
  <2>5. y = SeekInRange(x1, n, pts, flags)
    BY <1>1, <1>6
  <2>. HIDE DEF n
  <2>. QED BY <1>4, <2>4, <2>5, SoughtInRange
<1>7. CASE ~(x.seekable_cache /\ at # {})
  <2>1. y = QueueSeek(f, pts, flags)
    BY <1>1, <1>7
  <2>2. Refreshed(x1, f)
    BY <1>5, RangeRefreshed
  <2>. HIDE DEF f
  <2>3. \A s \in Streams : Queue(f, s) = EmptyQueue /\ f.ds[s].reader_head = 0
    BY <1>3, <2>2 DEF Refreshed, Cleared, Queue, Current, EmptyRange
  <2>4. EmptyQueue.packets = <<>> /\ EmptyQueue.last_dts = NoPts /\ Len(<<>>) = 0
    BY DEF EmptyQueue
  <2>5. Fit(f, last2, next)
    <3>1. \A s \in Streams : /\ f.ds[s].reader_head <= Len(Queue(f, s).packets)
                             /\ Queue(f, s).last_dts = NoPts
      BY <2>3, <2>4
    <3>2. Shape(f)
      BY <2>2 DEF Refreshed
    <3>. QED BY <3>1, <3>2, FreshFit
  <2>. QED BY <2>1, <2>3, <2>4, <2>5, SeekQueued
<1>. QED BY <1>6, <1>7

-----------------------------------------------------------------------------
(* The selection of a stream changes, and the player has nothing of it.    *)
Flipped(x, s, y) ==
  /\ DOMAIN y = Fields /\ y.ranges = x.ranges /\ y.seeking = x.seeking
  /\ y.ds \in [Streams -> DemuxStreams]
  /\ y.ds[s].selected = ~x.ds[s].selected
  /\ y.ds[s].refreshing = FALSE /\ y.ds[s].reader_head = 0
  /\ \A i \in Streams \ {s} : /\ y.ds[i].selected = x.ds[i].selected
                              /\ y.ds[i].refreshing = x.ds[i].refreshing
                              /\ y.ds[i].reader_head = x.ds[i].reader_head

(* The first two assignments of demuxer_select_track().                    *)
SetSelected(x, s, on) == [x EXCEPT !.ds[s].selected = on]
SetNotRefreshing(x, s) == [x EXCEPT !.ds[s].refreshing = FALSE]

(* update_stream_selection_state() up to the change of the ranges.         *)
LEMMA SelectionFlipped ==
  ASSUME NEW x, Shape(x), NEW s \in Streams, NEW x0,
         x0 = SetSelected(x, s, ~x.ds[s].selected),
         NEW y, y = ClearReader(SetNotRefreshing(x0, s), {s})
  PROVE  Flipped(x, s, y)
<1> DEFINE on == ~x.ds[s].selected
           d1 == [x.ds[s] EXCEPT !.selected = on]
           d2 == [d1 EXCEPT !.refreshing = FALSE]
           x1 == SetNotRefreshing(x0, s)
<1>1. /\ DOMAIN x = Fields /\ x.ds \in [Streams -> DemuxStreams]
      /\ x.ds[s] \in DemuxStreams
  BY DEF Shape, DsFit
<1>2. on \in BOOLEAN
  BY Zenon
<1>3. x0 = SetSelected(x, s, on)
  OBVIOUS
<1>4. on = ~x.ds[s].selected
  OBVIOUS
<1>. HIDE DEF on
<1>5. d1 \in DemuxStreams /\ d1.selected = on /\ d1.refreshing = x.ds[s].refreshing
  BY <1>1, <1>2 DEF DemuxStreams
<1>6. /\ DOMAIN x0 = Fields /\ x0.ranges = x.ranges /\ x0.seeking = x.seeking
      /\ x0.ds = [x.ds EXCEPT ![s] = d1]
  BY <1>1, <1>3 DEF SetSelected, Fields
<1>. HIDE DEF d1
<1>7. d2 \in DemuxStreams /\ d2.selected = on /\ d2.refreshing = FALSE
  BY <1>5 DEF DemuxStreams
<1>8. /\ DOMAIN x1 = Fields /\ x1.ranges = x.ranges /\ x1.seeking = x.seeking
      /\ x1.ds = [x0.ds EXCEPT ![s] = d2]
  BY <1>1, <1>6 DEF SetNotRefreshing, Fields
<1>. HIDE DEF d2
<1>9. /\ x1.ds \in [Streams -> DemuxStreams] /\ x1.ds[s] = d2
      /\ \A i \in Streams \ {s} : x1.ds[i] = x.ds[i]
  BY <1>1, <1>5, <1>6, <1>7, <1>8
<1>10. y = ClearReader(x1, {s})
  OBVIOUS
<1>. HIDE DEF x1
<1>11. Cleared(x1, {s}, y)
  BY <1>8, <1>9, <1>10, ReaderCleared
<1>12. /\ y.ds[s].selected = d2.selected /\ y.ds[s].refreshing = d2.refreshing
       /\ y.ds[s].reader_head = 0
  BY <1>9, <1>11 DEF Cleared
<1>13. \A i \in Streams \ {s} : /\ y.ds[i].selected = x.ds[i].selected
                                /\ y.ds[i].refreshing = x.ds[i].refreshing
                                /\ y.ds[i].reader_head = x.ds[i].reader_head
  <2>. SUFFICES ASSUME NEW i \in Streams \ {s}
                PROVE  /\ y.ds[i].selected = x.ds[i].selected
                       /\ y.ds[i].refreshing = x.ds[i].refreshing
                       /\ y.ds[i].reader_head = x.ds[i].reader_head
    OBVIOUS
  <2>1. i \in Streams /\ i \notin {s} /\ x1.ds[i] = x.ds[i]
    BY <1>9
  <2>2. /\ y.ds[i].selected = x1.ds[i].selected
        /\ y.ds[i].refreshing = x1.ds[i].refreshing
        /\ y.ds[i].reader_head = x1.ds[i].reader_head
    BY <1>11, <2>1 DEF Cleared
  <2>. QED BY <2>1, <2>2
<1>14. /\ DOMAIN y = Fields /\ y.ranges = x.ranges /\ y.seeking = x.seeking
       /\ y.ds \in [Streams -> DemuxStreams]
  BY <1>8, <1>11 DEF Cleared
<1>15. y.ds[s].selected = ~x.ds[s].selected /\ y.ds[s].refreshing = FALSE
  BY <1>4, <1>7, <1>12, Zenon
<1>. QED BY <1>12, <1>13, <1>14, <1>15, Zenon DEF Flipped

(* A stream that is disabled is not kept in any range.                     *)
Gone(r, s, on) == IF on THEN r ELSE WithQueue(r, s, EmptyQueue)

(* A range without the queue of a stream that was disabled.                *)
LEMMA StreamGone ==
  ASSUME NEW r, NEW ds, RangeFit(r, ds), NEW s \in Streams,
         NEW ds2 \in [Streams -> DemuxStreams],
         ds2[s].selected = ~ds[s].selected,
         \A i \in Streams \ {s} : ds2[i].selected = ds[i].selected,
         NEW t, t = UpdateSeekRanges(ds2, Gone(r, s, ds2[s].selected))
  PROVE  /\ RangeFit(t, ds2)
         /\ \A i \in Streams \ {s} : t.queues[i] = r.queues[i]
         /\ Fresh(t.queues[s])
<1> DEFINE on == ds2[s].selected
           g == Gone(r, s, on)
<1>1. on \in BOOLEAN /\ r \in Ranges
  BY DEF DemuxStreams, RangeFit
<1>2. EmptyQueue \in Queues /\ Fresh(EmptyQueue)
  BY EmptyQueueType DEF Fresh, EmptyQueue
<1>3. /\ g \in Ranges
      /\ \A i \in Streams \ {s} : g.queues[i] = r.queues[i]
      /\ g.queues[s] = IF on THEN r.queues[s] ELSE EmptyQueue
  <2>1. CASE on
    BY <1>1, <2>1 DEF Gone
  <2>2. CASE ~on
    <3>1. g = WithQueue(r, s, EmptyQueue)
      BY <2>2 DEF Gone
    <3>2. /\ WithQueue(r, s, EmptyQueue) \in Ranges
          /\ \A i \in Streams \ {s} :
               WithQueue(r, s, EmptyQueue).queues[i] = r.queues[i]
          /\ WithQueue(r, s, EmptyQueue).queues[s] = EmptyQueue
      BY <1>1, <1>2 DEF WithQueue, Ranges
    <3>. QED BY <2>2, <3>1, <3>2
  <2>. QED BY <1>1, <2>1, <2>2
<1>4. t = UpdateSeekRanges(ds2, g)
  OBVIOUS
<1>. HIDE DEF g, on
<1>5. t \in Ranges /\ t.queues = g.queues
  BY <1>3, <1>4, SeekRangesUpdated
<1>6. ASSUME NEW i \in Streams \ {s} PROVE QueueFit(t.queues[i], i, ds2[i].selected)
  BY <1>3, <1>5 DEF RangeFit
<1>7. QueueFit(t.queues[s], s, on) /\ Fresh(t.queues[s])
  <2>1. CASE on
    <3>1. t.queues[s] = r.queues[s]
      BY <1>3, <1>5, <2>1
    <3>2. QueueFit(r.queues[s], s, FALSE)
      BY <2>1 DEF RangeFit, QueueFit, on
    <3>. QED BY <2>1, <3>1, <3>2 DEF QueueFit
  <2>2. CASE ~on
    <3>1. t.queues[s] = EmptyQueue
      BY <1>3, <1>5, <2>2
    <3>. QED BY <1>1, <1>2, <3>1, EmptyFits
  <2>. QED BY <1>1, <2>1, <2>2
<1>. QED BY <1>3, <1>5, <1>6, <1>7 DEF RangeFit, on

(* The eager streams are chosen anew: among them is every audio and video  *)
(* stream that is selected.                                                *)
LEMMA EagerFits ==
  ASSUME NEW ds \in [Streams -> DemuxStreams], NEW ds2, ds2 = Eager(ds)
  PROVE  /\ DsFit(ds2)
         /\ \A s \in Streams : /\ ds2[s].selected = ds[s].selected
                               /\ ds2[s].refreshing = ds[s].refreshing
                               /\ ds2[s].reader_head = ds[s].reader_head
<1> DEFINE av == \E s \in Streams : ds[s].selected /\ Type[s] # "sub"
           On(s) == ds[s].selected /\ ~(av /\ Type[s] = "sub")
           D(s) == [ds[s] EXCEPT !.eager = On(s)]
<1>1. ds2 = [s \in Streams |-> D(s)]
  BY Zenon DEF Eager
<1>2. ASSUME NEW s \in Streams
      PROVE  On(s) \in BOOLEAN /\ (Media(s) => On(s) = ds[s].selected)
  <2>1. ds[s].selected \in BOOLEAN
    BY DEF DemuxStreams
  <2>. HIDE DEF av
  <2>. QED BY <2>1 DEF Media
<1>. HIDE DEF On
<1>3. ASSUME NEW s \in Streams
      PROVE  /\ D(s) \in DemuxStreams /\ D(s).eager = On(s)
             /\ D(s).selected = ds[s].selected
             /\ D(s).refreshing = ds[s].refreshing
             /\ D(s).reader_head = ds[s].reader_head
  <2>1. ds[s] \in DemuxStreams /\ On(s) \in BOOLEAN
    BY <1>2
  <2>. QED BY <2>1 DEF DemuxStreams
<1>. HIDE DEF D
<1>4. ds2 \in [Streams -> DemuxStreams] /\ \A s \in Streams : ds2[s] = D(s)
  BY <1>1, <1>3
<1>5. \A s \in Streams : Media(s) => ds2[s].eager = ds2[s].selected
  BY <1>2, <1>3, <1>4
<1>. QED BY <1>3, <1>4, <1>5 DEF DsFit

(* update_stream_selection_state() after a stream was flipped.             *)
LEMMA SelectionUpdated ==
  ASSUME NEW x, NEW last, NEW next, Fit(x, last, next), NEW s \in Streams, NEW x0,
         x0 = SetSelected(x, s, ~x.ds[s].selected),
         NEW last2, last2[s] = 0, \A i \in Streams \ {s} : last2[i] = last[i],
         NEW y, y = UpdateSelection(x0, s)
  PROVE  /\ Fit(y, last2, next)
         /\ y.ds[s].selected = ~x.ds[s].selected
         /\ Fresh(Queue(y, s))
<1> DEFINE z  == ClearReader(SetNotRefreshing(x0, s), {s})
           on == x0.ds[s].selected
           gone(r) == IF on THEN r ELSE [r EXCEPT !.queues[s] = EmptyQueue]
           T  == [n \in DOMAIN z.ranges |-> UpdateSeekRanges(z.ds, gone(z.ranges[n]))]
           b  == z.total_bytes - Total([n \in DOMAIN x0.ranges |->
                   RangeBytes(x0.ranges[n]) - RangeBytes(gone(x0.ranges[n]))])
           z2 == [z EXCEPT !.ranges = T, !.total_bytes = b]
           z3 == FreeEmptyRanges(z2)
           e  == Eager(z3.ds)
           m  == Len(x.ranges)
<1>1. y = [z3 EXCEPT !.ds = e]
  BY Zenon DEF UpdateSelection, SetNotRefreshing
<1>2. /\ Shape(x) /\ DOMAIN x = Fields /\ x.ds \in [Streams -> DemuxStreams]
      /\ x.seeking \in BOOLEAN /\ RangesFit(x.ranges, x.ds)
  BY DEF Fit, Shape, DsFit
<1>3. Flipped(x, s, z)
  BY <1>2, SelectionFlipped
<1>4. on = z.ds[s].selected
  <2>1. on = ~x.ds[s].selected
    BY <1>2 DEF SetSelected, Fields, DemuxStreams
  <2>. QED BY <1>3, <2>1, Zenon DEF Flipped
<1>5. m \in Nat \ {0} /\ DOMAIN x.ranges = 1 .. m
      /\ \A n \in 1 .. m : RangeFit(x.ranges[n], x.ds)
  BY <1>2, RangesTypes
<1>6. T = [n \in 1 .. m |-> UpdateSeekRanges(z.ds, Gone(x.ranges[n], s, z.ds[s].selected))]
  <2>1. z.ranges = x.ranges
    BY <1>3 DEF Flipped
  <2>2. \A r : gone(r) = Gone(r, s, z.ds[s].selected)
    BY <1>4, Zenon DEF Gone, WithQueue
  <2>. HIDE DEF z, gone
  <2>. QED BY <1>5, <2>1, <2>2
<1>. HIDE DEF z, gone, on, b
<1>7. ASSUME NEW n \in 1 .. m
      PROVE  /\ RangeFit(T[n], z.ds)
             /\ \A i \in Streams \ {s} : T[n].queues[i] = x.ranges[n].queues[i]
             /\ Fresh(T[n].queues[s])
  <2>1. T[n] = UpdateSeekRanges(z.ds, Gone(x.ranges[n], s, z.ds[s].selected))
    BY <1>6
  <2>2. /\ z.ds \in [Streams -> DemuxStreams]
        /\ z.ds[s].selected = ~x.ds[s].selected
        /\ \A i \in Streams \ {s} : z.ds[i].selected = x.ds[i].selected
    BY <1>3, Zenon DEF Flipped
  <2>3. RangeFit(x.ranges[n], x.ds)
    BY <1>5
  <2>4. /\ z.ds[s].selected = ~x.ds[s].selected
        /\ \A i \in Streams \ {s} : z.ds[i].selected = x.ds[i].selected
    BY <2>2
  <2>5. z.ds \in [Streams -> DemuxStreams]
    BY <2>2
  <2> DEFINE t == T[n]
             r == x.ranges[n]
             ds == x.ds
             ds2 == z.ds
  <2>6. /\ t = UpdateSeekRanges(ds2, Gone(r, s, ds2[s].selected))
        /\ RangeFit(r, ds) /\ ds2 \in [Streams -> DemuxStreams]
        /\ ds2[s].selected = ~ds[s].selected
        /\ \A i \in Streams \ {s} : ds2[i].selected = ds[i].selected
    BY <2>1, <2>3, <2>4, <2>5, Zenon
  <2>. HIDE DEF t, r, ds, ds2
  <2>7. /\ RangeFit(t, ds2)
        /\ \A i \in Streams \ {s} : t.queues[i] = r.queues[i]
        /\ Fresh(t.queues[s])
    BY <2>6, StreamGone
  <2>. QED BY <2>7 DEF t, r, ds2
<1>8. T \in [1 .. m -> Ranges]
  <2>1. T = [n \in 1 .. m |-> T[n]]
    BY <1>6, Zenon
  <2>2. \A n \in 1 .. m : T[n] \in Ranges
    BY <1>7 DEF RangeFit
  <2>. HIDE DEF T
  <2>. QED BY <2>1, <2>2, Zenon
<1>9. /\ DOMAIN z2 = Fields /\ z2.ds = z.ds /\ z2.seeking = x.seeking /\ z2.ranges = T
  <2>1. DOMAIN z = Fields /\ z.seeking = x.seeking
    BY <1>3 DEF Flipped
  <2>. HIDE DEF T
  <2>. QED BY <2>1 DEF Fields
<1>. HIDE DEF T, z2
<1>10. T \in Seq(Ranges) /\ Len(T) = m /\ T # <<>> /\ DOMAIN T = 1 .. m
  <2>1. T \in Seq(Ranges) /\ Len(T) = m
    BY <1>5, <1>8, FunctionIsSeq
  <2>2. T # <<>> /\ DOMAIN T = 1 .. m
    BY <1>5, <2>1, EmptySeq, LenProperties
  <2>. QED BY <2>1, <2>2
<1>11. RangesFit(T, z.ds)
  BY <1>7, <1>10 DEF RangesFit
<1>12. /\ DOMAIN z3 = Fields /\ z3.ds = z.ds /\ z3.seeking = x.seeking
       /\ RangesFit(z3.ranges, z.ds)
       /\ z3.ranges[Len(z3.ranges)] = T[m]
       /\ m = 1 => Len(z3.ranges) = 1
  BY <1>9, <1>10, <1>11, EmptyRangesFreed, SMTT(40)
<1>. HIDE DEF z3, e
<1>13. /\ DsFit(e)
       /\ \A i \in Streams : /\ e[i].selected = z.ds[i].selected
                             /\ e[i].refreshing = z.ds[i].refreshing
                             /\ e[i].reader_head = z.ds[i].reader_head
  <2>1. z.ds \in [Streams -> DemuxStreams] /\ e = Eager(z.ds)
    BY <1>3, <1>12 DEF Flipped, e
  <2>. QED BY <2>1, EagerFits
<1>14. /\ DOMAIN y = Fields /\ y.ds = e /\ y.seeking = x.seeking /\ y.ranges = z3.ranges
  BY <1>1, <1>12 DEF Fields
<1>15. Shape(y)
  <2>1. RangesFit(y.ranges, e)
    BY <1>12, <1>13, <1>14, RangesSelected
  <2>. QED BY <1>2, <1>13, <1>14, <2>1 DEF Shape
<1>16. m \in 1 .. m
  BY <1>5
<1>17. /\ \A i \in Streams \ {s} : Queue(y, i) = Queue(x, i)
       /\ Fresh(Queue(y, s))
  <2>1. /\ \A i \in Streams \ {s} : T[m].queues[i] = x.ranges[m].queues[i]
        /\ Fresh(T[m].queues[s])
    BY <1>7, <1>16
  <2>2. y.ranges[Len(y.ranges)] = T[m]
    BY <1>12, <1>14
  <2>3. /\ \A i \in Streams : Queue(y, i) = T[m].queues[i]
        /\ \A i \in Streams : Queue(x, i) = x.ranges[m].queues[i]
    BY <2>2 DEF Queue, Current, m
  <2>. HIDE DEF m
  <2>4. s \in Streams
    OBVIOUS
  <2>. QED BY <2>1, <2>3, <2>4
<1>18. ASSUME NEW i \in Streams \ {s}
       PROVE  StreamFit(Queue(y, i), y.ds[i], i, Len(y.ranges) = 1,
                        y.seeking, last2[i], next)
  <2>1. StreamFit(Queue(x, i), x.ds[i], i, Len(x.ranges) = 1,
                  x.seeking, last[i], next)
    BY DEF Fit, StreamsFit, Queue, Current
  <2>2. /\ y.ds[i].selected = x.ds[i].selected
        /\ y.ds[i].refreshing = x.ds[i].refreshing
        /\ y.ds[i].reader_head = x.ds[i].reader_head
    <3>1. /\ z.ds[i].selected = x.ds[i].selected
          /\ z.ds[i].refreshing = x.ds[i].refreshing
          /\ z.ds[i].reader_head = x.ds[i].reader_head
      BY <1>3 DEF Flipped
    <3>. QED BY <1>13, <1>14, <3>1
  <2>3. ASSUME Media(i)
        PROVE  HeadFit(Queue(y, i), y.ds[i].reader_head, last2[i], Len(y.ranges) = 1)
    <3>1. HeadFit(Queue(x, i), x.ds[i].reader_head, last[i], Len(x.ranges) = 1)
      BY <2>1, <2>3 DEF StreamFit
    <3>2. Len(x.ranges) = 1 => Len(y.ranges) = 1
      BY <1>12, <1>14 DEF m
    <3>. QED BY <1>17, <2>2, <3>1, <3>2 DEF HeadFit
  <2>4. ASSUME Media(i) PROVE AheadFit(Queue(y, i), y.ds[i], i, y.seeking, next)
    <3>1. AheadFit(Queue(x, i), x.ds[i], i, x.seeking, next)
      BY <2>1, <2>4 DEF StreamFit
    <3>. QED BY <1>14, <1>17, <2>2, <3>1 DEF AheadFit
  <2>5. y.ds[i].reader_head <= Len(Queue(y, i).packets)
    BY <1>17, <2>1, <2>2 DEF StreamFit
  <2>. QED BY <2>3, <2>4, <2>5 DEF StreamFit
<1>19. y.ds[s].reader_head = 0 /\ y.ds[s].selected = ~x.ds[s].selected
  BY <1>3, <1>13, <1>14, Zenon DEF Flipped
<1>20. StreamFit(Queue(y, s), y.ds[s], s, Len(y.ranges) = 1,
                 y.seeking, last2[s], next)
  <2>1. Queue(y, s).packets = <<>> /\ Queue(y, s).last_dts = NoPts
    BY <1>17 DEF Fresh
  <2>2. Len(Queue(y, s).packets) = 0
    BY <2>1
  <2>. QED BY <1>19, <2>1, <2>2, NoDts DEF StreamFit, HeadFit, AheadFit
<1>21. Fit(y, last2, next)
  <2>1. \A i \in Streams : StreamFit(Queue(y, i), y.ds[i], i, Len(y.ranges) = 1,
                                     y.seeking, last2[i], next)
    BY <1>18, <1>20
  <2>. QED BY <1>15, <2>1 DEF Fit, StreamsFit, Queue, Current
<1>. QED BY <1>17, <1>19, <1>21

(* initiate_refresh_seek() after stream s was enabled.                     *)
LEMMA RefreshInitiated ==
  ASSUME NEW x, NEW last, NEW next, Fit(x, last, next), NEW s \in Streams,
         Fresh(Queue(x, s)), NEW ref, NEW y, y = InitiateRefreshSeek(x, s, ref)
  PROVE  Fit(y, last, next)
<1> DEFINE on     == {i \in Streams : x.ds[i].selected}
           start  == PtsMin({ref} \cup
                       {x.ds[i].base_ts : i \in {k \in on : Type[k] # "sub"}})
           normal == on \subseteq {s}
           ready  == \A i \in on : Queue(x, i).correct
           R(i)   == x.ds[i].refreshing \/ ( /\ x.ds[i].selected
                                             /\ Queue(x, i).last_dts # NoPts)
           D(i)   == [x.ds[i] EXCEPT !.refreshing = R(i)]
           ds     == [i \in Streams |-> D(i)]
           fresh  == [x EXCEPT !.ds = ds]
<1>1. y = IF start = NoPts \/ (~normal /\ ~ready) THEN x
          ELSE IF normal THEN QueueSeek(x, start, {"HR"})
          ELSE QueueSeek(fresh, start - Second, {"HR"})
  BY Zenon DEF InitiateRefreshSeek
<1>2. /\ Shape(x) /\ DOMAIN x = Fields /\ DsFit(x.ds) /\ RangesFit(x.ranges, x.ds)
      /\ x.seeking \in BOOLEAN
  BY DEF Fit, Shape
<1>. HIDE DEF start, ready
<1>3. CASE y = x
  BY <1>3
<1>4. CASE normal /\ y = QueueSeek(x, start, {"HR"})
  <2>1. Queue(x, s).last_dts = NoPts
    BY DEF Fresh
  <2>2. \A i \in Streams : x.ds[i].selected => i = s
    BY <1>4
  <2>. QED BY <1>4, <2>1, <2>2, SeekQueued
<1>5. CASE y = QueueSeek(fresh, start - Second, {"HR"})
  <2>1. ASSUME NEW i \in Streams
        PROVE  x.ds[i] \in DemuxStreams /\ R(i) \in BOOLEAN
    <3>1. x.ds[i] \in DemuxStreams
      BY <1>2, DsTypes
    <3>. QED BY <3>1 DEF DemuxStreams
  <2>2. \A i \in Streams : R(i) = (x.ds[i].refreshing \/ ( /\ x.ds[i].selected
                                             /\ Queue(x, i).last_dts # NoPts))
    OBVIOUS
  <2>. HIDE DEF R
  <2>3. ASSUME NEW i \in Streams
        PROVE  /\ D(i) \in DemuxStreams /\ D(i).refreshing = R(i)
               /\ D(i).selected = x.ds[i].selected
               /\ D(i).eager = x.ds[i].eager
               /\ D(i).reader_head = x.ds[i].reader_head
    BY <2>1 DEF DemuxStreams
  <2>. HIDE DEF D
  <2>4. /\ ds \in [Streams -> DemuxStreams]
        /\ \A i \in Streams : /\ ds[i].selected = x.ds[i].selected
                              /\ ds[i].eager = x.ds[i].eager
                              /\ ds[i].refreshing = R(i)
                              /\ ds[i].reader_head = x.ds[i].reader_head
    BY <2>3
  <2>. HIDE DEF ds
  <2>5. /\ DOMAIN fresh = Fields /\ fresh.ds = ds /\ fresh.ranges = x.ranges
        /\ fresh.seeking = x.seeking
    BY <1>2 DEF Fields
  <2>. HIDE DEF fresh
  <2>6. Shape(fresh)
    <3>1. DsFit(ds)
      BY <1>2, <2>4 DEF DsFit
    <3>2. RangesFit(x.ranges, ds)
      BY <1>2, <2>4, RangesSelected
    <3>. QED BY <1>2, <2>5, <3>1, <3>2 DEF Shape
  <2>7. ASSUME NEW i \in Streams
        PROVE  StreamFit(Queue(fresh, i), fresh.ds[i], i, Len(fresh.ranges) = 1,
                         fresh.seeking, last[i], next)
    <3>1. StreamFit(Queue(x, i), x.ds[i], i, Len(x.ranges) = 1,
                    x.seeking, last[i], next)
      BY DEF Fit, StreamsFit, Queue, Current
    <3>2. Queue(fresh, i) = Queue(x, i) /\ fresh.ds[i] = ds[i]
      BY <2>5 DEF Queue, Current
    <3>3. ASSUME Media(i) PROVE AheadFit(Queue(x, i), ds[i], i, x.seeking, next)
      <4>1. AheadFit(Queue(x, i), x.ds[i], i, x.seeking, next)
        BY <3>1, <3>3 DEF StreamFit
      <4>2. ~ds[i].refreshing => ~x.ds[i].refreshing
        BY <2>2, <2>4
      <4>. QED BY <2>4, <4>1, <4>2 DEF AheadFit
    <3>4. ds[i].reader_head = x.ds[i].reader_head
      BY <2>4
    <3>. QED BY <2>5, <3>1, <3>2, <3>3, <3>4 DEF StreamFit
  <2>8. Fit(fresh, last, next)
    BY <2>6, <2>7 DEF Fit, StreamsFit, Queue, Current
  <2>9. \A i \in Streams : fresh.ds[i].selected /\ ~fresh.ds[i].refreshing =>
                             Queue(fresh, i).last_dts = NoPts
    <3>. SUFFICES ASSUME NEW i \in Streams, fresh.ds[i].selected,
                         ~fresh.ds[i].refreshing
                  PROVE  Queue(x, i).last_dts = NoPts
      BY <2>5 DEF Queue, Current
    <3>1. ~R(i) /\ x.ds[i].selected
      BY <2>4, <2>5
    <3>. QED BY <2>2, <3>1
  <2>. QED BY <1>5, <2>8, <2>9, SeekQueued
<1>. QED BY <1>1, <1>3, <1>4, <1>5

(* demuxer_select_track(): the player has nothing of the stream.           *)
LEMMA TrackSelected ==
  ASSUME NEW x, NEW last, NEW next, Fit(x, last, next), NEW s \in Streams, NEW ref,
         NEW last2, last2[s] = 0, \A i \in Streams \ {s} : last2[i] = last[i],
         NEW y, y = SelectTrack(x, s, ref, ~x.ds[s].selected)
  PROVE  Fit(y, last2, next)
<1> DEFINE on == ~x.ds[s].selected
           x0 == SetSelected(x, s, on)
           x1 == UpdateSelection(x0, s)
           x2 == [x1 EXCEPT !.tracks_switched = TRUE]
<1>1. y = IF on /\ ~x.initial_state THEN InitiateRefreshSeek(x2, s, ref) ELSE x2
  BY Zenon DEF SelectTrack, SetSelected
<1>2. x0 = SetSelected(x, s, ~x.ds[s].selected)
  OBVIOUS
<1>. HIDE DEF x0
<1>3. x1 = UpdateSelection(x0, s)
  OBVIOUS
<1>. HIDE DEF x1
<1>4. Fit(x1, last2, next) /\ Fresh(Queue(x1, s))
  BY <1>2, <1>3, SelectionUpdated
<1>5. DOMAIN x1 = Fields /\ x1.ds \in [Streams -> DemuxStreams]
  BY <1>4 DEF Fit, Shape, DsFit
<1>6. /\ DOMAIN x2 = Fields /\ x2.ds = x1.ds /\ x2.ranges = x1.ranges
      /\ x2.seeking = x1.seeking
  BY <1>5 DEF Fields
<1>. HIDE DEF x2
<1>7. Fit(x2, last2, next)
  BY <1>4, <1>5, <1>6, OtherDs
<1>8. Fresh(Queue(x2, s))
  BY <1>4, <1>6 DEF Queue, Current
<1>9. CASE y = x2
  BY <1>7, <1>9
<1>10. CASE y = InitiateRefreshSeek(x2, s, ref)
  BY <1>7, <1>8, <1>10, RefreshInitiated
<1>. QED BY <1>1, <1>9, <1>10

-----------------------------------------------------------------------------
(* A seek of the demuxer ends at a packet of the file.                     *)
LEMMA LandingInFile ==
  ASSUME NEW pts, NEW flags, NEW to \in Landing(pts, flags)
  PROVE  to \in 1 .. Len(File) + 1
<1> DEFINE back  == {i \in Anchors : File[i].time <= pts}
           ahead == {i \in Anchors : File[i].time >= pts}
           n == Len(File)
<1>1. /\ \/ ahead # {} /\ to \in {Min(ahead)}
         \/ to \in {1} \/ to \in back
         \/ back # {} /\ to \in {Max(back)}
  BY Zenon DEF Landing
<1>2. n \in Nat /\ Anchors \subseteq 1 .. n
  BY FileFacts DEF Anchors
<1>3. back \in SUBSET (1 .. n) /\ ahead \in SUBSET (1 .. n)
  BY <1>2
<1>. HIDE DEF back, ahead, n
<1>4. ASSUME ahead # {} PROVE Min(ahead) \in ahead
  <2>1. 1 .. n \subseteq Nat
    BY <1>2
  <2>. QED BY <1>3, <1>4, <2>1, LeastNumber
<1>5. ASSUME back # {} PROVE Max(back) \in back
  <2>1. back \in SUBSET Int /\ \A t \in back : -n <= t /\ t <= n
    BY <1>2, <1>3
  <2>. QED BY <1>2, <1>5, <2>1, Extremes
<1>6. to = 1 \/ to \in 1 .. n
  BY <1>1, <1>3, <1>4, <1>5
<1>. QED BY <1>2, <1>6 DEF n

(* The program starts with an empty cache.                                 *)
LEMMA InitFits == Init => IInv
<1>. SUFFICES ASSUME Init PROVE IInv
  OBVIOUS
<1> DEFINE D(s) == [NoStream EXCEPT !.selected = s \in Selected]
           ds0 == [s \in Streams |-> D(s)]
<1>1. /\ DOMAIN in = Fields /\ in.ranges = <<EmptyRange>> /\ in.seeking = FALSE
      /\ in.ds = Eager(ds0)
  BY DEF Init, Fields
<1>2. /\ thread = [pc |-> "work", at |-> 0] /\ pos = 1
      /\ reader = [s \in Streams |-> NewReader(0)]
  BY DEF Init
<1>3. Len(File) \in Nat
  BY FileFacts
<1>4. ASSUME NEW s \in Streams
      PROVE  D(s) \in DemuxStreams /\ D(s).reader_head = 0
  <2>1. NoPts \in Int /\ 0 \in Nat /\ 0 \in Int
    BY DEF NoPts
  <2> DEFINE on == s \in Selected
  <2>2. on \in BOOLEAN
    OBVIOUS
  <2>3. NoStream \in DemuxStreams /\ NoStream.reader_head = 0
    BY <2>1 DEF NoStream, DemuxStreams
  <2>4. D(s) = [NoStream EXCEPT !.selected = on]
    OBVIOUS
  <2>. HIDE DEF on
  <2>. QED BY <2>2, <2>3, <2>4 DEF DemuxStreams
<1>. HIDE DEF D
<1>5. ds0 \in [Streams -> DemuxStreams]
  BY <1>4
<1>6. /\ DsFit(in.ds) /\ \A s \in Streams : in.ds[s].reader_head = 0
  <2>1. \A s \in Streams : ds0[s].reader_head = 0
    BY <1>4
  <2>. HIDE DEF ds0
  <2>2. DsFit(in.ds) /\ \A s \in Streams : in.ds[s].reader_head = ds0[s].reader_head
    BY <1>1, <1>5, EagerFits
  <2>. QED BY <2>1, <2>2
<1>7. RangeFit(EmptyRange, in.ds) /\ EmptyRange \in Ranges
  BY <1>6, EmptyRangeFits DEF RangeFit
<1> DEFINE R == <<EmptyRange>>
<1>8. R \in Seq(Ranges) /\ R # <<>> /\ Len(R) = 1 /\ R[1] = EmptyRange /\ DOMAIN R = {1}
  BY <1>7
<1>. HIDE DEF R
<1>9. RangesFit(in.ranges, in.ds) /\ in.ranges[Len(in.ranges)] = EmptyRange
  BY <1>1, <1>7, <1>8 DEF RangesFit, R
<1>10. Shape(in)
  BY <1>1, <1>6, <1>9 DEF Shape
<1>11. ASSUME NEW s \in Streams
       PROVE  /\ in.ds[s].reader_head <= Len(Queue(in, s).packets)
              /\ Queue(in, s).last_dts = NoPts
  <2>1. Queue(in, s) = EmptyQueue
    BY <1>9 DEF Queue, Current, EmptyRange
  <2>2. EmptyQueue.packets = <<>> /\ EmptyQueue.last_dts = NoPts /\ Len(<<>>) = 0
    BY DEF EmptyQueue
  <2>. QED BY <1>6, <2>1, <2>2
<1>12. NothingRead(Lasts) /\ LastFit(Lasts)
  <2>1. \A s \in Streams : Lasts[s] = 0
    BY <1>2 DEF Lasts, NewReader
  <2>. QED BY <1>3, <2>1 DEF NothingRead, LastFit
<1>13. Fit(in, Lasts, Upcoming)
  BY <1>10, <1>11, <1>12, FreshFit
<1>14. reader \in [Streams -> [first : Nat, last : Nat, goal : Int]]
  BY <1>2 DEF NewReader
<1>15. /\ thread \in [pc : {"work", "add", "filled", "eof"}, at : 0 .. Len(File)]
       /\ pos \in 1 .. Len(File) + 1 /\ thread.pc # "add"
  BY <1>2, <1>3
<1>. QED BY <1>12, <1>13, <1>14, <1>15 DEF IInv

-----------------------------------------------------------------------------
(* What a step does to one stream of the player.                           *)
Advanced(s) ==
  Media(s) => reader'[s].last \in {0} \cup (reader[s].last .. Len(File))

(* A step that gives the player nothing.                                   *)
LEMMA NothingNew ==
  ASSUME IInv, UNCHANGED reader
  PROVE  Lasts' = Lasts /\ \A s \in Streams : Advanced(s)
<1>1. \A s \in Streams : Media(s) => reader[s].last \in 0 .. Len(File)
  BY DEF IInv, LastFit, Lasts
<1>2. Len(File) \in Nat
  BY FileFacts
<1>. QED BY <1>1, <1>2 DEF Lasts, Advanced

(* Actions of the demuxer thread: the player gets nothing.                 *)
LEMMA SameStreams ==
  ASSUME NEW x, NEW last, NEW next, Fit(x, last, next),
         NEW y, DOMAIN y = Fields, y.ranges = x.ranges, y.seeking = x.seeking,
         y.ds = x.ds
  PROVE  Fit(y, last, next)
<1>1. x.ds \in [Streams -> DemuxStreams]
  BY DEF Fit, Shape, DsFit
<1>. QED BY <1>1, OtherDs

(* A step of the demuxer thread keeps the invariant.                       *)
LEMMA ThreadFits ==
  ASSUME IInv, ThreadStep
  PROVE  IInv' /\ \A s \in Streams : Advanced(s)
<1> DEFINE n == Len(File)
<1>1. /\ Fit(in, Lasts, Upcoming) /\ Shape(in) /\ DOMAIN in = Fields /\ LastFit(Lasts)
      /\ thread \in [pc : {"work", "add", "filled", "eof"}, at : 0 .. n]
      /\ pos \in 1 .. n + 1
      /\ in.ds \in [Streams -> DemuxStreams]
  BY DEF IInv, Fit, Shape, DsFit
<1>2. n \in Nat /\ DOMAIN File = 1 .. n
  BY FileFacts
<1>3. reader' = reader
  BY DEF ThreadStep, ExecuteTrackswitch, ExecuteSeek, Overflow, FillBuffer,
         DemuxAddPacket, ReadPacketEnd, player
<1>4. Lasts' = Lasts /\ \A s \in Streams : Advanced(s)
  BY <1>3, NothingNew
<1>. HIDE DEF n
<1>5. reader' \in [Streams -> [first : Nat, last : Nat, goal : Int]]
      /\ LastFit(Lasts')
  BY <1>1, <1>3, <1>4 DEF IInv
<1>6. CASE ExecuteTrackswitch
  <2>1. in' = [in EXCEPT !.tracks_switched = FALSE] /\ UNCHANGED <<thread, pos>>
    BY <1>6 DEF ExecuteTrackswitch
  <2>2. /\ DOMAIN in' = Fields /\ in'.ranges = in.ranges /\ in'.seeking = in.seeking
        /\ in'.ds = in.ds
    BY <1>1, <2>1 DEF Fields
  <2>3. Fit(in', Lasts, Upcoming)
    BY <1>1, <2>2, SameStreams
  <2>4. Upcoming' = Upcoming
    BY <2>1 DEF Upcoming
  <2>. QED BY <1>4, <1>5, <2>1, <2>3, <2>4 DEF IInv
<1>7. CASE ExecuteSeek
  <2>1. /\ in' = [in EXCEPT !.seeking = FALSE, !.initial_state = FALSE]
        /\ in.seeking = TRUE /\ thread.pc = "work" /\ UNCHANGED thread
        /\ pos' \in Landing(in.seek_pts, in.seek_flags)
    <3>1. in.seeking \in BOOLEAN
      BY <1>1 DEF Shape
    <3>. QED BY <1>7, <3>1 DEF ExecuteSeek
  <2>2. /\ DOMAIN in' = Fields /\ in'.ranges = in.ranges /\ in'.seeking = FALSE
        /\ in'.ds = in.ds
    BY <1>1, <2>1 DEF Fields
  <2>3. pos' \in 1 .. n + 1
    BY <2>1, LandingInFile DEF n
  <2>4. Shape(in')
    BY <1>1, <2>2 DEF Shape
  <2>5. ASSUME NEW s \in Streams
        PROVE  StreamFit(Queue(in', s), in'.ds[s], s, Len(in'.ranges) = 1,
                         in'.seeking, Lasts[s], pos')
    <3>1. StreamFit(Queue(in, s), in.ds[s], s, Len(in.ranges) = 1,
                    in.seeking, Lasts[s], Upcoming)
      BY <1>1 DEF Fit, StreamsFit, Queue, Current
    <3>2. Queue(in', s) = Queue(in, s)
      BY <2>2 DEF Queue, Current
    <3>3. ASSUME Media(s)
          PROVE  AheadFit(Queue(in, s), in.ds[s], s, in'.seeking, pos')
      BY <2>1, <2>2, <3>1, <3>3, NoDts DEF StreamFit, AheadFit
    <3>. QED BY <2>2, <3>1, <3>2, <3>3 DEF StreamFit
  <2>6. Fit(in', Lasts, pos')
    BY <2>4, <2>5 DEF Fit, StreamsFit, Queue, Current
  <2>7. Upcoming' = pos'
    BY <2>1 DEF Upcoming
  <2>8. thread' = thread /\ thread.pc # "add"
    BY <2>1
  <2>. QED BY <1>1, <1>4, <1>5, <2>3, <2>6, <2>7, <2>8 DEF IInv, n
<1>8. CASE Overflow
  <2> DEFINE ds == [s \in Streams |->
                      [in.ds[s] EXCEPT !.eof = @ \/ in.ds[s].reader_head = 0]]
  <2>1. in' = [in EXCEPT !.ds = ds] /\ UNCHANGED <<thread, pos>>
    <3>1. in' = [in EXCEPT !.ds = ds]
      BY <1>8, Zenon DEF Overflow
    <3>. QED BY <1>8, <3>1, Zenon DEF Overflow
  <2>2. ASSUME NEW s \in Streams
        PROVE  /\ ds[s] \in DemuxStreams
               /\ ds[s].selected = in.ds[s].selected
               /\ ds[s].eager = in.ds[s].eager
               /\ ds[s].refreshing = in.ds[s].refreshing
               /\ ds[s].reader_head = in.ds[s].reader_head
    <3> DEFINE eof == in.ds[s].eof \/ in.ds[s].reader_head = 0
    <3>1. in.ds[s] \in DemuxStreams /\ ds[s] = [in.ds[s] EXCEPT !.eof = eof]
      BY <1>1, Zenon
    <3>2. eof \in BOOLEAN
      BY Zenon
    <3>. HIDE DEF ds, eof
    <3>. QED BY <3>1, <3>2 DEF DemuxStreams
  <2>3. ds = [s \in Streams |-> ds[s]]
    BY Zenon
  <2>. HIDE DEF ds
  <2>4. ds \in [Streams -> DemuxStreams]
    BY <2>2, <2>3, Zenon
  <2>5. /\ DOMAIN in' = Fields /\ in'.ranges = in.ranges /\ in'.seeking = in.seeking
        /\ in'.ds = ds
    BY <1>1, <2>1 DEF Fields
  <2>6. Fit(in', Lasts, Upcoming)
    BY <1>1, <2>2, <2>4, <2>5, OtherDs
  <2>7. Upcoming' = Upcoming
    BY <2>1 DEF Upcoming
  <2>. QED BY <1>4, <1>5, <2>1, <2>6, <2>7 DEF IInv
<1>9. CASE FillBuffer
  <2>1. in' = [in EXCEPT !.initial_state = FALSE] /\ thread.pc = "work"
    BY <1>9 DEF FillBuffer, MayRead
  <2>2. /\ DOMAIN in' = Fields /\ in'.ranges = in.ranges /\ in'.seeking = in.seeking
        /\ in'.ds = in.ds
    BY <1>1, <2>1 DEF Fields
  <2>3. Upcoming = pos
    BY <2>1 DEF Upcoming
  <2>4. Fit(in', Lasts, pos)
    BY <1>1, <2>2, <2>3, SameStreams
  <2>5. CASE pos <= n
    <3>1. thread' = [pc |-> "add", at |-> pos] /\ pos' = pos + 1
      BY <1>9, <2>5 DEF FillBuffer, n
    <3>2. /\ pos \in 1 .. n /\ pos \in 0 .. n /\ pos' \in 1 .. n + 1 /\ pos > 0
      BY <1>1, <1>2, <2>5, <3>1
    <3>3. thread'.pc = "add" /\ thread'.at = pos
          /\ thread' \in [pc : {"work", "add", "filled", "eof"}, at : 0 .. n]
      BY <3>1, <3>2
    <3>4. Upcoming' = pos
      BY <3>3 DEF Upcoming
    <3>. QED BY <1>4, <1>5, <2>4, <3>1, <3>2, <3>3, <3>4 DEF IInv, n
  <2>6. CASE ~(pos <= n)
    <3>1. thread' = [pc |-> "eof", at |-> 0] /\ pos' = pos
      BY <1>9, <2>6 DEF FillBuffer, n
    <3>2. thread' \in [pc : {"work", "add", "filled", "eof"}, at : 0 .. n]
          /\ thread'.pc # "add"
      BY <1>2, <3>1
    <3>3. Upcoming' = pos
      BY <3>1, <3>2 DEF Upcoming
    <3>. QED BY <1>1, <1>4, <1>5, <2>4, <3>1, <3>2, <3>3 DEF IInv, n
  <2>. QED BY <2>5, <2>6
<1>10. CASE DemuxAddPacket
  <2>1. /\ in' = AddPacket(in, thread.at) /\ thread.pc = "add"
        /\ thread' = [pc |-> "filled", at |-> 0] /\ pos' = pos
    BY <1>10 DEF DemuxAddPacket
  <2>2. thread.at > 0 /\ pos = thread.at + 1 /\ thread.at \in 0 .. n
    BY <1>1, <2>1 DEF IInv
  <2>3. thread.at \in DOMAIN File
    BY <1>2, <2>2
  <2>4. Upcoming = thread.at
    BY <2>1 DEF Upcoming
  <2> DEFINE at == thread.at
  <2>5. /\ at \in DOMAIN File /\ Fit(in, Lasts, at) /\ in' = AddPacket(in, at)
        /\ pos = at + 1
    BY <1>1, <2>1, <2>2, <2>3, <2>4
  <2>. HIDE DEF at
  <2>6. Fit(in', Lasts, at + 1)
    BY <1>1, <2>5, PacketAdded
  <2>7. thread' \in [pc : {"work", "add", "filled", "eof"}, at : 0 .. n]
        /\ thread'.pc # "add"
    BY <1>2, <2>1
  <2>8. Upcoming' = pos
    BY <2>1, <2>7 DEF Upcoming
  <2>. QED BY <1>1, <1>4, <1>5, <2>1, <2>5, <2>6, <2>7, <2>8 DEF IInv, n
<1>11. CASE ReadPacketEnd
  <2>1. /\ in' = FillBufferReturned(in, thread.pc = "eof")
        /\ thread.pc \in {"filled", "eof"}
        /\ thread' = [pc |-> "work", at |-> 0] /\ pos' = pos
    BY <1>11, Zenon DEF ReadPacketEnd
  <2>2. Upcoming = pos
    BY <2>1 DEF Upcoming
  <2> DEFINE eof == thread.pc = "eof"
  <2>3. in' = FillBufferReturned(in, eof) /\ Fit(in, Lasts, pos)
    BY <1>1, <2>1, <2>2, Zenon
  <2>. HIDE DEF eof
  <2>4. Fit(in', Lasts, pos)
    BY <1>1, <2>3, BufferFilled
  <2>5. thread' \in [pc : {"work", "add", "filled", "eof"}, at : 0 .. n]
        /\ thread'.pc # "add"
    BY <1>2, <2>1
  <2>6. Upcoming' = pos
    BY <2>1, <2>5 DEF Upcoming
  <2>. QED BY <1>1, <1>4, <1>5, <2>1, <2>4, <2>5, <2>6 DEF IInv, n
<1>. QED BY <1>4, <1>6, <1>7, <1>8, <1>9, <1>10, <1>11 DEF ThreadStep

(* What stays when the player does something.                              *)
LEMMA PlayerFits ==
  ASSUME IInv, UNCHANGED <<thread, pos>>,
         reader' \in [Streams -> [first : Nat, last : Nat, goal : Int]],
         LastFit(Lasts'), Fit(in', Lasts', Upcoming)
  PROVE  IInv'
<1>1. Upcoming' = Upcoming
  BY DEF Upcoming
<1>. QED BY <1>1 DEF IInv

(* demux_read_packet() and its variants: what the player gets is at the    *)
(* reader's head, and that is after what it got before.                    *)
LEMMA ReadFits ==
  ASSUME IInv, NEW s \in Streams, ReadPacket(s)
  PROVE  IInv' /\ \A i \in Streams : Advanced(i)
<1> DEFINE h == in.ds[s].reader_head
           q == Queue(in, s)
           at == q.packets[h].at
           read == IF h = 0 THEN in ELSE DequeuePacket(in, s)
<1>1. /\ Fit(in, Lasts, Upcoming) /\ Shape(in) /\ LastFit(Lasts)
      /\ reader \in [Streams -> [first : Nat, last : Nat, goal : Int]]
  BY DEF IInv, Fit
<1>2. /\ in' = read \/ in' = [read EXCEPT !.reading = TRUE, !.eof = FALSE]
      /\ UNCHANGED <<thread, pos>>
      /\ reader' = IF h = 0 THEN reader
                   ELSE [reader EXCEPT ![s].last = at,
                                       ![s].first = IF @ = 0 THEN at ELSE @]
  BY DEF ReadPacket
<1>3. Upcoming \in Int
  BY FileFacts DEF IInv, Upcoming
<1>4. CASE h = 0
  <2>1. reader' = reader /\ Fit(read, Lasts, Upcoming)
    BY <1>1, <1>2, <1>4
  <2>2. Lasts' = Lasts /\ \A i \in Streams : Advanced(i)
    BY <2>1, NothingNew
  <2>3. Fit(in', Lasts, Upcoming)
    <3>1. CASE in' = read
      BY <2>1, <3>1
    <3>2. CASE in' = [read EXCEPT !.reading = TRUE, !.eof = FALSE]
      <4>1. DOMAIN read = Fields
        BY <2>1 DEF Fit, Shape
      <4>. HIDE DEF read
      <4>2. /\ DOMAIN in' = Fields /\ in'.ranges = read.ranges
            /\ in'.seeking = read.seeking /\ in'.ds = read.ds
        BY <3>2, <4>1 DEF Fields
      <4>. QED BY <2>1, <4>2, SameStreams
    <3>. QED BY <1>2, <3>1, <3>2
  <2>. QED BY <1>1, <1>2, <2>1, <2>2, <2>3, PlayerFits
<1>5. CASE h # 0
  <2>1. /\ q \in Queues /\ h \in Nat /\ h <= Len(q.packets)
        /\ Len(q.packets) \in Nat
    <3>1. q \in Queues /\ in.ds[s] \in DemuxStreams
      BY <1>1, QueueInRange, DsTypes DEF Shape
    <3>2. h \in Nat
      BY <3>1 DEF DemuxStreams
    <3>3. h <= Len(q.packets)
      BY <1>1 DEF Fit, StreamsFit, StreamFit, Queue, Current
    <3>4. Len(q.packets) \in Nat
      <4>. HIDE DEF q
      <4>. QED BY <3>1, QueueTypes
    <3>. QED BY <3>1, <3>2, <3>3, <3>4
  <2>2. at \in Nat
    <3>. HIDE DEF q, h
    <3>1. h \in 1 .. Len(q.packets)
      BY <1>5, <2>1
    <3>. QED BY <2>1, <3>1, QueueTypes
  <2>3. /\ in.ds[s].reader_head # 0 /\ read = DequeuePacket(in, s)
        /\ q = Queue(in, s) /\ at = q.packets[in.ds[s].reader_head].at
    BY <1>5
  <2>4. reader' = [reader EXCEPT ![s].last = at,
                                 ![s].first = IF @ = 0 THEN at ELSE @]
    BY <1>2, <1>5
  <2>. HIDE DEF read, q, at, h
  <2>5. /\ reader' \in [Streams -> [first : Nat, last : Nat, goal : Int]]
        /\ reader'[s].last = at
        /\ \A i \in Streams \ {s} : reader'[i] = reader[i]
    BY <1>1, <2>2, <2>4
  <2>6. Lasts'[s] = at /\ \A i \in Streams \ {s} : Lasts'[i] = Lasts[i]
    BY <2>5 DEF Lasts
  <2>7. /\ Fit(read, Lasts', Upcoming) /\ LastFit(Lasts')
        /\ Media(s) => at \in Lasts[s] .. Len(File)
    <3> DEFINE d == in.ds[s]
               last2 == Lasts'
    <3>1. d = in.ds[s] /\ d.reader_head # 0 /\ at = q.packets[d.reader_head].at
          /\ last2[s] = at /\ \A i \in Streams \ {s} : last2[i] = Lasts[i]
      BY <2>3, <2>6
    <3>. HIDE DEF d, last2
    <3>2. /\ Fit(read, last2, Upcoming) /\ LastFit(last2)
          /\ Media(s) => at \in Lasts[s] .. Len(File)
      <4>1. LastFit(Lasts) /\ Fit(in, Lasts, Upcoming)
        BY <1>1
      <4>2. q = Queue(in, s) /\ read = DequeuePacket(in, s)
        BY <2>3
      <4>. QED BY <1>3, <3>1, <4>1, <4>2, PacketDequeued
    <3>. QED BY <3>2 DEF last2
  <2>8. Fit(in', Lasts', Upcoming)
    <3>1. CASE in' = read
      BY <2>7, <3>1
    <3>2. CASE in' = [read EXCEPT !.reading = TRUE, !.eof = FALSE]
      <4>1. DOMAIN read = Fields
        BY <2>7 DEF Fit, Shape
      <4>2. /\ DOMAIN in' = Fields /\ in'.ranges = read.ranges
            /\ in'.seeking = read.seeking /\ in'.ds = read.ds
        BY <3>2, <4>1 DEF Fields
      <4>. QED BY <2>7, <4>2, SameStreams
    <3>. QED BY <1>2, <3>1, <3>2 DEF read, h, q
  <2>9. IInv'
    BY <1>2, <2>5, <2>7, <2>8, PlayerFits
  <2>10. ASSUME NEW i \in Streams PROVE Advanced(i)
    <3>1. CASE i = s
      BY <2>5, <2>7, <3>1 DEF Advanced, Lasts
    <3>2. CASE i # s
      <4>1. reader'[i] = reader[i]
        BY <2>5, <3>2
      <4>2. Media(i) => reader[i].last \in 0 .. Len(File)
        BY <1>1 DEF LastFit, Lasts
      <4>3. Len(File) \in Nat
        BY FileFacts
      <4>. QED BY <4>1, <4>2, <4>3 DEF Advanced
    <3>. QED BY <3>1, <3>2
  <2>. QED BY <2>9, <2>10
<1>. QED BY <1>4, <1>5

(* The player gives up its position in every stream.                       *)
LEMMA PositionGivenUp ==
  ASSUME NEW goal \in Int, reader' = [s \in Streams |-> NewReader(goal)]
  PROVE  /\ reader' \in [Streams -> [first : Nat, last : Nat, goal : Int]]
         /\ NothingRead(Lasts') /\ LastFit(Lasts')
         /\ \A s \in Streams : Advanced(s)
<1>1. ASSUME NEW s \in Streams
      PROVE  /\ reader'[s] \in [first : Nat, last : Nat, goal : Int]
             /\ reader'[s].last = 0
  BY DEF NewReader
<1>2. reader' \in [Streams -> [first : Nat, last : Nat, goal : Int]]
  BY <1>1
<1>3. \A s \in Streams : Lasts'[s] = 0
  BY <1>1 DEF Lasts
<1>4. Len(File) \in Nat
  BY FileFacts
<1>. QED BY <1>1, <1>2, <1>3, <1>4 DEF NothingRead, LastFit, Advanced

(* demux_seek() keeps the invariant.                                       *)
LEMMA SeekFits ==
  ASSUME IInv, NEW pts \in SeekTimes, NEW flags \in SeekFlags, DemuxSeek(pts, flags)
  PROVE  IInv' /\ \A s \in Streams : Advanced(s)
<1> DEFINE goal == IF "FORWARD" \in flags THEN NoPts ELSE pts
<1>1. goal \in Int
  BY DemuxAssumption DEF NoPts
<1>2. /\ in' = Seek(in, pts, flags) /\ UNCHANGED <<thread, pos>>
      /\ reader' = [s \in Streams |-> NewReader(goal)]
  BY DEF DemuxSeek
<1>. HIDE DEF goal
<1>3. /\ reader' \in [Streams -> [first : Nat, last : Nat, goal : Int]]
      /\ NothingRead(Lasts') /\ LastFit(Lasts')
      /\ \A s \in Streams : Advanced(s)
  BY <1>1, <1>2, PositionGivenUp
<1>4. Fit(in', Lasts', Upcoming)
  <2>1. Fit(in, Lasts, Upcoming)
    BY DEF IInv
  <2> DEFINE last2 == Lasts'
             y == in'
  <2>2. NothingRead(last2) /\ y = Seek(in, pts, flags)
    BY <1>2, <1>3
  <2>. HIDE DEF last2, y
  <2>3. Fit(y, last2, Upcoming)
    BY <2>1, <2>2, Sought
  <2>. QED BY <2>3 DEF last2, y
<1>. QED BY <1>2, <1>3, <1>4, PlayerFits

(* demux_flush() keeps the invariant.                                      *)
LEMMA FlushFits ==
  ASSUME IInv, DemuxFlush
  PROVE  IInv' /\ \A s \in Streams : Advanced(s)
<1>1. /\ in' = Flush(in) /\ UNCHANGED <<thread, pos>>
      /\ reader' = [s \in Streams |-> NewReader(NoPts)]
  BY DEF DemuxFlush
<1>2. NoPts \in Int
  BY DEF NoPts
<1>3. /\ reader' \in [Streams -> [first : Nat, last : Nat, goal : Int]]
      /\ NothingRead(Lasts') /\ LastFit(Lasts')
      /\ \A s \in Streams : Advanced(s)
  BY <1>1, <1>2, PositionGivenUp
<1>4. Fit(in', Lasts', Upcoming)
  <2>1. Shape(in)
    BY DEF IInv, Fit
  <2> DEFINE last2 == Lasts'
             y == in'
  <2>2. NothingRead(last2) /\ y = Flush(in)
    BY <1>1, <1>3
  <2>. HIDE DEF last2, y
  <2>3. Fit(y, last2, Upcoming)
    BY <2>1, <2>2, Flushed
  <2>. QED BY <2>3 DEF last2, y
<1>. QED BY <1>1, <1>3, <1>4, PlayerFits

(* demuxer_select_track() keeps the invariant.                             *)
LEMMA SelectFits ==
  ASSUME IInv, NEW s \in Streams, NEW ref, DemuxerSelectTrack(s, ref)
  PROVE  IInv' /\ \A i \in Streams : Advanced(i)
<1>1. /\ in' = SelectTrack(in, s, ref, ~in.ds[s].selected)
      /\ UNCHANGED <<thread, pos>>
      /\ reader' = [reader EXCEPT ![s] = NewReader(NoPts)]
  BY DEF DemuxerSelectTrack
<1>2. /\ reader \in [Streams -> [first : Nat, last : Nat, goal : Int]]
      /\ LastFit(Lasts) /\ Fit(in, Lasts, Upcoming)
  BY DEF IInv
<1>3. /\ NewReader(NoPts) \in [first : Nat, last : Nat, goal : Int]
      /\ NewReader(NoPts).last = 0
  <2>1. NoPts \in Int
    BY DEF NoPts
  <2>. QED BY <2>1 DEF NewReader
<1>4. /\ reader' \in [Streams -> [first : Nat, last : Nat, goal : Int]]
      /\ reader'[s].last = 0 /\ \A i \in Streams \ {s} : reader'[i] = reader[i]
  BY <1>1, <1>2, <1>3
<1>5. Lasts'[s] = 0 /\ \A i \in Streams \ {s} : Lasts'[i] = Lasts[i]
  BY <1>4 DEF Lasts
<1>6. Len(File) \in Nat
  BY FileFacts
<1>7. LastFit(Lasts')
  <2> DEFINE last == Lasts
             last2 == Lasts'
  <2>1. LastFit(last) /\ last2[s] = 0 /\ \A i \in Streams \ {s} : last2[i] = last[i]
    BY <1>2, <1>5
  <2>. HIDE DEF last, last2
  <2>2. 0 \in 0 .. Len(File)
    BY <1>6
  <2>3. LastFit(last2)
    BY <2>1, <2>2 DEF LastFit
  <2>. QED BY <2>3 DEF last2
<1>8. Fit(in', Lasts', Upcoming)
  <2> DEFINE last2 == Lasts'
             y == in'
  <2>1. /\ last2[s] = 0 /\ \A i \in Streams \ {s} : last2[i] = Lasts[i]
        /\ y = SelectTrack(in, s, ref, ~in.ds[s].selected)
    BY <1>1, <1>5
  <2>. HIDE DEF last2, y
  <2>2. Fit(y, last2, Upcoming)
    BY <1>2, <2>1, TrackSelected, Zenon
  <2>. QED BY <2>2 DEF last2, y
<1>9. ASSUME NEW i \in Streams PROVE Advanced(i)
  <2>1. CASE i = s
    BY <1>4, <2>1 DEF Advanced
  <2>2. CASE i # s
    <3>1. reader'[i] = reader[i]
      BY <1>4, <2>2
    <3>2. Media(i) => reader[i].last \in 0 .. Len(File)
      BY <1>2 DEF LastFit, Lasts
    <3>. QED BY <1>6, <3>1, <3>2 DEF Advanced
  <2>. QED BY <2>1, <2>2
<1>. QED BY <1>1, <1>4, <1>7, <1>8, <1>9, PlayerFits

(* Every step keeps it, and none takes the player back.                    *)
LEMMA StepFits ==
  ASSUME IInv, [Next]_vars
  PROVE  IInv' /\ \A s \in Streams : Advanced(s)
<1>1. CASE ThreadStep
  BY <1>1, ThreadFits
<1>2. ASSUME NEW s \in Streams, ReadPacket(s)
      PROVE  IInv' /\ \A i \in Streams : Advanced(i)
  BY <1>2, ReadFits
<1>3. ASSUME NEW pts \in SeekTimes, NEW flags \in SeekFlags, DemuxSeek(pts, flags)
      PROVE  IInv' /\ \A s \in Streams : Advanced(s)
  BY <1>3, SeekFits
<1>4. ASSUME NEW s \in Streams, NEW ref \in CurrentTimes, DemuxerSelectTrack(s, ref)
      PROVE  IInv' /\ \A i \in Streams : Advanced(i)
  BY <1>4, SelectFits
<1>5. CASE DemuxFlush
  BY <1>5, FlushFits
<1>6. CASE UNCHANGED vars
  <2>1. in' = in /\ reader' = reader /\ UNCHANGED <<thread, pos>>
    BY <1>6 DEF vars, player
  <2>2. Lasts' = Lasts /\ \A s \in Streams : Advanced(s)
    BY <2>1, NothingNew
  <2>3. /\ reader' \in [Streams -> [first : Nat, last : Nat, goal : Int]]
        /\ LastFit(Lasts') /\ Fit(in', Lasts', Upcoming)
    BY <2>1, <2>2 DEF IInv
  <2>. QED BY <2>1, <2>2, <2>3, PlayerFits
<1>. QED BY <1>1, <1>2, <1>3, <1>4, <1>5, <1>6 DEF Next

(* A packet that the player gets is after what it got before.              *)
LEMMA DeliveryAdvances ==
  ASSUME IInv, NEW s \in Streams, Media(s), Delivered(s)
  PROVE  reader'[s].last > reader[s].last
<1> DEFINE d == in.ds[s]
           q == Queue(in, s)
           at == q.packets[d.reader_head].at
<1>1. /\ Fit(in, Lasts, Upcoming) /\ Shape(in) /\ LastFit(Lasts)
      /\ reader \in [Streams -> [first : Nat, last : Nat, goal : Int]]
  BY DEF IInv, Fit
<1>2. q \in Queues /\ d \in DemuxStreams
  BY <1>1, QueueInRange, DsTypes DEF Fit, Shape
<1>3. StreamFit(q, d, s, Len(in.ranges) = 1, in.seeking, Lasts[s], Upcoming)
  BY <1>1 DEF Fit, StreamsFit, Queue, Current
<1>4. d.reader_head # 0
  BY DEF Delivered
<1>5. reader' = [reader EXCEPT ![s].last = at,
                               ![s].first = IF @ = 0 THEN at ELSE @]
  BY <1>4 DEF Delivered, ReadPacket
<1>6. Lasts[s] = reader[s].last /\ reader[s].last \in Nat
  BY <1>1 DEF Lasts
<1>. HIDE DEF q, d
<1>7. d.reader_head \in 1 .. Len(q.packets)
  <2>1. d.reader_head \in Nat /\ Len(q.packets) \in Nat
    BY <1>2, QueueTypes DEF DemuxStreams
  <2>. QED BY <1>3, <1>4, <2>1 DEF StreamFit
<1>8. at \in 1 .. Len(File)
  BY <1>2, <1>7, QueueTypes, FileFacts
<1>9. reader[s].last # 0 => at > reader[s].last
  BY <1>3, <1>4, <1>6 DEF StreamFit, HeadFit
<1>10. reader'[s].last = at
  BY <1>1, <1>5
<1>. HIDE DEF at
<1>. QED BY <1>6, <1>8, <1>9, <1>10, FileFacts

(* No step takes the player back, nor gives it the same packet again.      *)
LEMMA StepAdvances ==
  ASSUME IInv, [Next]_vars, NEW s \in Streams, Media(s)
  PROVE  /\ Delivered(s) => reader'[s].last > reader[s].last
         /\ reader'[s].last = 0 \/ reader'[s].last >= reader[s].last
<1>1. reader'[s].last \in {0} \cup (reader[s].last .. Len(File))
  BY StepFits DEF Advanced
<1>2. reader[s].last \in Nat /\ Len(File) \in Nat
  BY FileFacts DEF IInv
<1>3. reader'[s].last = 0 \/ reader'[s].last >= reader[s].last
  BY <1>1, <1>2
<1>. QED BY <1>3, DeliveryAdvances

-----------------------------------------------------------------------------
(* The queues of audio and video streams hold packets of their stream in   *)
(* file order in every cached range, the reader's head is in its queue,    *)
(* and what comes next is later in the file than what the player got.      *)
THEOREM Invariance == Spec => []IInv
<1>1. Init => IInv
  BY InitFits
<1>2. IInv /\ [Next]_vars => IInv'
  BY StepFits
<1>. QED BY <1>1, <1>2, PTL DEF Spec

(* Each packet of an audio or video stream that reaches the player is      *)
(* after all of the stream that it got since it last gave up its position *)
(* there, for every file, every setup and any other streams: whatever is   *)
(* pruned, joined or read again (dequeue_packet()).                        *)
THEOREM MediaAdvances ==
  Spec => [][\A s \in Streams : Media(s) =>
               /\ Delivered(s) => reader'[s].last > reader[s].last
               /\ reader'[s].last = 0 \/ reader'[s].last >= reader[s].last]_vars
<1>1. IInv /\ [Next]_vars =>
        \A s \in Streams : Media(s) =>
          /\ Delivered(s) => reader'[s].last > reader[s].last
          /\ reader'[s].last = 0 \/ reader'[s].last >= reader[s].last
  BY StepAdvances
<1>. QED BY <1>1, Invariance, PTL DEF Spec

(* ReadsAdvance of a file without subtitles, which may be read lazily and  *)
(* are not covered by it (demux.c:1015 forgets where they are).            *)
THEOREM AdvancesWithoutSubtitles ==
  ASSUME \A s \in Streams : Type[s] # "sub"
  PROVE  Spec => ReadsAdvance
<1>1. IInv /\ [Next]_vars =>
        \A s \in Streams :
          /\ Delivered(s) => reader'[s].last > reader[s].last
          /\ reader'[s].last = 0 \/ reader'[s].last >= reader[s].last
  BY StepAdvances DEF Media
<1>. QED BY <1>1, Invariance, PTL DEF Spec, ReadsAdvance

(* check_queue_consistency() finds nothing to complain about in a queue    *)
(* that fits.                                                              *)
LEMMA FitIsOK ==
  ASSUME NEW s, NEW on, NEW q, QueueFit(q, s, on), Media(s)
  PROVE  QueueOK(q)
<1> DEFINE P == 0 .. Len(q.packets)
           Pts(p) == q.packets[p].kf_seek_pts
<1>1. q \in Queues /\ InFileOrder(q, s) /\ Dated(q)
  BY DEF QueueFit, InFileOrder
<1>2. /\ Len(q.packets) \in Nat /\ DOMAIN q.packets = P \ {0}
      /\ \A i \in P \ {0} : /\ q.packets[i].at \in DOMAIN File
                            /\ File[q.packets[i].at].stream = s
                            /\ Pts(i) \in {NoPts, File[q.packets[i].at].time}
  <2>1. Len(q.packets) \in Nat /\ DOMAIN q.packets = P \ {0}
    BY <1>1, QueueTypes
  <2>. QED BY <1>1, <2>1, QueueTypes DEF InFileOrder, Dated, Time
<1>3. /\ q.next_prune_target \in P /\ q.keyframe_latest \in P
      /\ q.keyframe_latest # 0 => Keyframe(q.packets[q.keyframe_latest])
  BY <1>1, <1>2 DEF Queues, QueueRecords, PointersIn
<1>4. ASSUME NEW i \in DOMAIN q.index
      PROVE  /\ q.index[i] \in P \ {0} /\ Pts(q.index[i]) # NoPts
             /\ i > 1 => q.index[i - 1] < q.index[i]
  <2>1. IndexIn(q) /\ DOMAIN q.index = 1 .. Len(q.index) /\ Len(q.index) \in Nat
    BY <1>1, QueueTypes DEF Queues
  <2>2. i > 1 => i - 1 \in DOMAIN q.index /\ i - 1 < i
    BY <2>1
  <2>. QED BY <1>2, <2>1, <2>2 DEF IndexIn
<1>5. ASSUME NEW i \in P \ {0}, NEW j \in P \ {0}, Pts(i) # NoPts, Pts(j) # NoPts, i < j
      PROVE  Pts(i) < Pts(j)
  <2>1. /\ Pts(i) = File[q.packets[i].at].time /\ Pts(j) = File[q.packets[j].at].time
        /\ q.packets[i].at < q.packets[j].at
    BY <1>1, <1>2, <1>5 DEF InFileOrder
  <2>. HIDE DEF P, Pts
  <2>. QED BY <1>2, <2>1, FileFacts
<1>. QED BY <1>3, <1>4, <1>5 DEF QueueOK

(* check_queue_consistency() holds of every queue of audio and video in    *)
(* every cached range: the prune target, the latest keyframe and the index *)
(* are packets of the queue, and the times that seeks go by increase.  The *)
(* code has this under #if 0 (demux.c:299) for being too expensive.        *)
THEOREM QueuesConsistent ==
  Spec => [](\A n \in DOMAIN in.ranges, s \in Streams :
               Media(s) => QueueOK(in.ranges[n].queues[s]))
<1>1. IInv => \A n \in DOMAIN in.ranges, s \in Streams :
                Media(s) => QueueOK(in.ranges[n].queues[s])
  <2>. SUFFICES ASSUME IInv, NEW n \in DOMAIN in.ranges, NEW s \in Streams, Media(s)
                PROVE  QueueOK(in.ranges[n].queues[s])
    OBVIOUS
  <2>1. RangesFit(in.ranges, in.ds)
    BY DEF IInv, Fit, Shape
  <2>2. n \in 1 .. Len(in.ranges)
    BY <2>1, RangesTypes
  <2>3. QueueFit(in.ranges[n].queues[s], s, in.ds[s].selected)
    BY <2>1, <2>2 DEF RangesFit, RangeFit
  <2>. QED BY <2>3, FitIsOK
<1>. QED BY <1>1, Invariance, PTL

(* What points into a packet list stays inside of it, in every cached      *)
(* range and for every kind of stream: the prune target, the latest        *)
(* keyframe (a keyframe indeed), the entries of the index in their order   *)
(* (check_queue_consistency(), but for the order of the times), and the    *)
(* reader's head in the current range.  Pruning, joining, clearing and     *)
(* reducing the index all free or move packets under these pointers.       *)
THEOREM PointersValid ==
  Spec => [](/\ \A n \in DOMAIN in.ranges, s \in Streams :
                  LET q == in.ranges[n].queues[s] IN PointersIn(q) /\ IndexIn(q)
             /\ \A s \in Streams : in.ds[s].reader_head <= Len(Queue(in, s).packets))
<1>1. IInv => /\ \A n \in DOMAIN in.ranges, s \in Streams :
                   LET q == in.ranges[n].queues[s] IN PointersIn(q) /\ IndexIn(q)
              /\ \A s \in Streams : in.ds[s].reader_head <= Len(Queue(in, s).packets)
  <2>. SUFFICES ASSUME IInv
                PROVE  /\ \A n \in DOMAIN in.ranges, s \in Streams :
                            LET q == in.ranges[n].queues[s] IN PointersIn(q) /\ IndexIn(q)
                       /\ \A s \in Streams :
                            in.ds[s].reader_head <= Len(Queue(in, s).packets)
    OBVIOUS
  <2>1. /\ RangesFit(in.ranges, in.ds)
        /\ StreamsFit(in.ranges, in.ds, in.seeking, Lasts, Upcoming)
    BY DEF IInv, Fit, Shape
  <2>2. \A n \in DOMAIN in.ranges, s \in Streams : in.ranges[n].queues[s] \in Queues
    BY <2>1, RangesTypes
  <2>. QED BY <2>1, <2>2 DEF Queues, StreamsFit, StreamFit, Queue, Current
<1>. QED BY <1>1, Invariance, PTL
=============================================================================
