----------------------------- MODULE CacheRanges -----------------------------
(***************************************************************************)
(* demux/demux.c: the data structure behind the demuxer's packet cache,    *)
(* and the functions that change it while in->lock is held.  There is one  *)
(* queue of packets per stream and cached range.  Ranges are sorted by     *)
(* their last use, and the last one is the current range: the demuxer      *)
(* appends to its queues and the decoders read from them.                  *)
(*                                                                         *)
(* An operator of this module takes the state a C function finds and       *)
(* returns the state that it leaves.  "in" stands for struct               *)
(* demux_internal, in.ds[s] for the struct demux_stream of stream s.       *)
(* A pointer to a packet is the packet's position in its queue, 0 is NULL. *)
(* Times are in tenths of a second, and every packet has one byte, so that *)
(* fw_packs and fw_bytes of a stream are the same number.  The packets of  *)
(* a file have one timestamp each: it stands for pts, dts and file pos.    *)
(***************************************************************************)
EXTENDS Integers, Sequences, FiniteSets, SequencesExt, FiniteSetsExt

CONSTANTS NumStreams,    \* in->num_streams
          Type,          \* the sh->type of each stream
          File,          \* the packets of the file, in file order
          Setups,        \* the values of seekable_cache, max_bytes, max_bytes_bw
          MinSecs,       \* in->min_secs
          MaxSeekRanges, \* MAX_SEEK_RANGES
          MaxIndex       \* MAX_INDEX_ENTRIES

Streams == 1 .. NumStreams
Second  == 10
NoPts   == -1000         \* MP_NOPTS_VALUE: less than any time

ASSUME CacheAssumption ==
  /\ NumStreams \in Nat \ {0}
  /\ Type \in [Streams -> {"video", "audio", "sub"}]
  /\ File \in Seq([stream : Streams, time : Nat, keyframe : BOOLEAN])
  /\ Setups \subseteq [seekable_cache : BOOLEAN, max_bytes : Nat, max_bytes_bw : Nat]
  /\ MinSecs \in Nat
  /\ MaxSeekRanges \in Nat \ {0} /\ MaxIndex \in Nat \ {0}
  /\ \A i, j \in DOMAIN File :   \* correct_dts holds of the file itself
       i < j /\ File[i].stream = File[j].stream => File[i].time < File[j].time

(* MP_PTS_MAX and MP_PTS_MIN of several values: NOPTS counts as absent.    *)
PtsMax(T) == IF T \subseteq {NoPts} THEN NoPts ELSE Max(T \ {NoPts})
PtsMin(T) == IF T \subseteq {NoPts} THEN NoPts ELSE Min(T \ {NoPts})

-----------------------------------------------------------------------------
(* struct demux_packet: where it is in the file, and dp->kf_seek_pts.      *)
Packet(at) == [at |-> at, kf_seek_pts |-> NoPts]
Time(p)     == File[p.at].time
Keyframe(p) == File[p.at].keyframe

(* struct demux_queue as clear_queue() leaves it.                          *)
EmptyQueue ==
  [packets |-> <<>>, next_prune_target |-> 0,
   correct |-> TRUE, last_dts |-> NoPts, last_ts |-> NoPts,
   keyframe_latest |-> 0, keyframe_pts |-> NoPts, keyframe_end_pts |-> NoPts,
   seek_start |-> NoPts, seek_end |-> NoPts, last_pruned |-> NoPts,
   index |-> <<>>, index_distance |-> Second]

(* struct demux_cached_range with add_missing_streams().                   *)
EmptyRange == [queues |-> [s \in Streams |-> EmptyQueue],
               seek_start |-> NoPts, seek_end |-> NoPts]

Current(in)  == Len(in.ranges)
Queue(in, s) == in.ranges[Current(in)].queues[s]     \* ds->queue
SetQueue(in, s, q) == [in EXCEPT !.ranges[Current(in)].queues[s] = q]

QueueBytes(q) == Len(q.packets)
Total(f)      == LET sum[i \in 0 .. Len(f)] ==
                       IF i = 0 THEN 0 ELSE sum[i - 1] + f[i]
                 IN  sum[Len(f)]
RangeBytes(r) == Total([s \in Streams |-> QueueBytes(r.queues[s])])
BytesOf(ranges, R) ==
  Total([n \in DOMAIN ranges |-> IF n \in R THEN RangeBytes(ranges[n]) ELSE 0])
CacheBytes(ranges) == BytesOf(ranges, DOMAIN ranges)

(* The members of a set of numbers in their order.                         *)
InOrder(S) == CHOOSE t \in [1 .. Cardinality(S) -> S] :
                \A i, j \in DOMAIN t : i < j => t[i] < t[j]

(* recompute_buffers(): the packets from reader_head on.                   *)
Forward(q, head) == IF head = 0 THEN 0 ELSE Len(q.packets) - head + 1

-----------------------------------------------------------------------------
(* Mutant: A range starts where the first of its streams does, not the last. *)
Mut_UpdateSeekRanges(ds, r) ==
  [r EXCEPT !.seek_start = PtsMin({r.queues[s].seek_start : s \in {x \in Streams : ds[x].eager}}),
            !.seek_end = PtsMin({r.queues[s].seek_end : s \in {x \in Streams : ds[x].eager}})]

(* update_seek_ranges(): the times to which every eagerly read stream can  *)
(* seek.  A sparse stream only cuts off what was pruned from it.           *)
UpdateSeekRanges(ds, r) ==
  LET eager  == {s \in Streams : ds[s].selected /\ ds[s].eager}
      sparse == {s \in Streams : /\ ds[s].selected /\ ~ds[s].eager
                                 /\ r.queues[s].last_pruned # NoPts}
      none   == \E s \in eager : r.queues[s].seek_start >= r.queues[s].seek_end
      first  == IF none THEN NoPts
                ELSE PtsMax({r.queues[s].seek_start : s \in eager})
      end    == IF none THEN NoPts
                ELSE PtsMin({r.queues[s].seek_end : s \in eager})
      start  == PtsMax({first} \cup {r.queues[s].last_pruned + 1 : s \in sparse})
  IN  IF start >= end
      THEN [r EXCEPT !.seek_start = NoPts, !.seek_end = NoPts]
      ELSE [r EXCEPT !.seek_start = start, !.seek_end = end]

UpdateRange(in, n) ==
  [in EXCEPT !.ranges[n] = UpdateSeekRanges(in.ds, @)]

(* Mutant: The index keeps pointing to the packets that were removed.      *)
Mut_RemoveHead(q, n) ==
  LET Shift(p) == IF p <= n THEN 0 ELSE p - n IN
  [q EXCEPT !.packets = SubSeq(@, n + 1, Len(@)),
            !.next_prune_target = Shift(@),
            !.keyframe_latest = Shift(@)]

(* remove_head_packet(), n times.                                          *)
RemoveHead(q, n) ==
  LET Shift(p) == IF p <= n THEN 0 ELSE p - n
      gone == Cardinality({i \in DOMAIN q.index : q.index[i] <= n})
      kept == SubSeq(q.index, gone + 1, Len(q.index))
  IN [q EXCEPT !.packets = SubSeq(@, n + 1, Len(@)),
               !.next_prune_target = Shift(@),
               !.keyframe_latest = Shift(@),
               !.index = [i \in DOMAIN kept |-> kept[i] - n]]

(* free_empty_cached_ranges().  At most one range was added since it ran   *)
(* last, so at most one has to go for being too many: the shortest, and    *)
(* the more recently used of two.                                          *)
Length(r) == r.seek_end - r.seek_start

FreeEmptyRanges(in) ==
  LET range(n) == in.ranges[n]
      keep  == {n \in 1 .. Current(in) - 1 : range(n).seek_start # NoPts}
      worst == Max({n \in keep :
                      \A m \in keep : Length(range(n)) <= Length(range(m))})
      left  == IF Cardinality(keep) < MaxSeekRanges THEN keep ELSE keep \ {worst}
      order == InOrder(left)
      freed == (1 .. Current(in) - 1) \ left
  IN  [in EXCEPT
         !.ranges = Append([i \in DOMAIN order |-> range(order[i])], Last(@)),
         !.total_bytes = @ - BytesOf(in.ranges, freed)]

-----------------------------------------------------------------------------
(* add_index_entry() of the packet at position p of q.                     *)
AddIndexEntry(q, p) ==
  LET Pts(x) == q.packets[x].kf_seek_pts IN
  IF q.index # <<>> /\ Pts(p) < Pts(Last(q.index)) + q.index_distance THEN q
  ELSE IF Len(q.index) < MaxIndex THEN [q EXCEPT !.index = Append(@, p)]
  ELSE [q EXCEPT !.index = Append([i \in 1 .. MaxIndex \div 2 |-> @[2 * i - 1]], p),
                 !.index_distance = 2 * @]

(* Mutant: The packet that both ranges have is not dropped from one of them. *)
Mut_JoinPoint(ds, q1, q2) ==
  LET stop == {p \in DOMAIN q2.packets :
                 q1.packets # <<>> /\ Time(q2.packets[p]) >= Time(Last(q1.packets))}
  IN  IF q1.packets = <<>> THEN [ok |-> TRUE, rest |-> q2]
      ELSE IF stop = {} THEN [ok |-> FALSE, rest |-> q2]
      ELSE [ok |-> TRUE, rest |-> RemoveHead(q2, Min(stop) - 1)]

(* attempt_range_joining(), the part for one stream: which packets of the  *)
(* next range's queue remain when those that q1 has as well are dropped.   *)
JoinPoint(ds, q1, q2) ==
  LET end  == Last(q1.packets)
      stop == {p \in DOMAIN q2.packets :
                 p = q2.keyframe_latest \/ Time(q2.packets[p]) >= Time(end)}
      at   == Min(stop)
  IN  IF ~ds.correct THEN [ok |-> FALSE, rest |-> q2]
      ELSE IF q1.packets = <<>> THEN [ok |-> TRUE, rest |-> q2]
      ELSE IF stop = {} THEN [ok |-> ~ds.eager,
                              rest |-> RemoveHead(q2, Len(q2.packets))]
      ELSE IF at = q2.keyframe_latest THEN [ok |-> FALSE, rest |-> q2]
      ELSE IF Time(q2.packets[at]) = Time(end)
           THEN [ok |-> TRUE, rest |-> RemoveHead(q2, at)]
           ELSE [ok |-> ~ds.eager, rest |-> RemoveHead(q2, at - 1)]

(* The entries of an index, for packets that are n positions further on.   *)
AddIndex(q, index, n) ==
  LET added[i \in 0 .. Len(index)] ==
        IF i = 0 THEN q ELSE AddIndexEntry(added[i - 1], n + index[i])
  IN  added[Len(index)]

JoinQueues(q1, q2) ==
  LET n == Len(q1.packets) IN
  AddIndex([q1 EXCEPT
    !.packets = @ \o q2.packets,
    !.seek_end = q2.seek_end,
    !.correct = @ /\ q2.correct,
    !.last_dts = q2.last_dts, !.last_ts = q2.last_ts,
    !.keyframe_pts = q2.keyframe_pts,
    !.keyframe_end_pts = q2.keyframe_end_pts,
    !.keyframe_latest =
       IF q2.keyframe_latest = 0 THEN 0 ELSE n + q2.keyframe_latest],
    q2.index, n)

QueueSeek(in, pts, flags) ==
  [in EXCEPT !.seeking = TRUE, !.seek_pts = pts, !.seek_flags = flags]

AttemptRangeJoining(in) ==
  LET cur  == Last(in.ranges)
      Dist(n) == cur.seek_end - in.ranges[n].seek_start
      over == {n \in 1 .. Current(in) - 1 :
                 cur.seek_start <= in.ranges[n].seek_start /\ Dist(n) > 0}
      next == Min({n \in over : \A m \in over : Dist(n) <= Dist(m)})
      join == [s \in Streams |-> JoinPoint(in.ds[s], cur.queues[s],
                                           in.ranges[next].queues[s])]
      qs   == [s \in Streams |-> JoinQueues(cur.queues[s], join[s].rest)]
      fw   == [s \in Streams |-> Forward(qs[s], in.ds[s].reader_head)]
      moved == RangeBytes([cur EXCEPT !.queues = qs]) - RangeBytes(cur)
      joined == [in EXCEPT
        !.ranges[Current(in)].queues = qs,
        !.ranges[next] = EmptyRange,
        !.ds = [s \in Streams |-> [in.ds[s] EXCEPT
                  !.fw_bytes = fw[s], !.refreshing = in.ds[s].selected]],
        !.fw_bytes = Total(fw),
        !.total_bytes = @ - RangeBytes(in.ranges[next]) + moved]
      dropped == [in EXCEPT !.ranges[next] = EmptyRange,
                            !.total_bytes = @ - RangeBytes(in.ranges[next])]
  IN  IF over = {} THEN in
      ELSE IF \A s \in Streams : join[s].ok
      THEN FreeEmptyRanges(QueueSeek(UpdateRange(joined, Current(in)),
                             in.ranges[next].seek_end - Second, {"HR"}))
      ELSE FreeEmptyRanges(dropped)

(* adjust_seek_range_on_packet(): the packet at the tail of the queue, or  *)
(* the end of the file, closes the packets since the last keyframe.        *)
CloseKeyframe(in, s) ==
  LET q  == Queue(in, s)
      kf == q.keyframe_latest
      q1 == [q EXCEPT
               !.packets[kf].kf_seek_pts = q.keyframe_pts,
               !.seek_start = IF @ = NoPts THEN q.keyframe_pts ELSE @,
               !.seek_end = IF q.keyframe_end_pts # NoPts
                            THEN q.keyframe_end_pts ELSE @]
      q2 == IF q.keyframe_pts # NoPts THEN AddIndexEntry(q1, kf) ELSE q1
  IN  IF kf = 0 THEN in ELSE UpdateRange(SetQueue(in, s, q2), Current(in))

StartKeyframe(in, s, kf) ==
  SetQueue(in, s, [Queue(in, s) EXCEPT !.keyframe_latest = kf,
                     !.keyframe_pts = NoPts, !.keyframe_end_pts = NoPts])

AddTime(in, s, t) ==
  SetQueue(in, s, [Queue(in, s) EXCEPT
                     !.keyframe_pts = PtsMin({@, t}),
                     !.keyframe_end_pts = PtsMax({@, t})])

JoinIfLonger(old, in) ==
  IF Last(in.ranges).seek_end > Last(old.ranges).seek_end
  THEN AttemptRangeJoining(in) ELSE in

AdjustOnPacket(in, s) ==
  LET tail == Len(Queue(in, s).packets)
      dp   == Queue(in, s).packets[tail]
  IN  IF ~in.seekable_cache THEN in
      ELSE IF ~Keyframe(dp) THEN AddTime(in, s, Time(dp))
      ELSE LET closed == CloseKeyframe(in, s)
           IN  JoinIfLonger(in, AddTime(StartKeyframe(closed, s, tail), s, Time(dp)))

AdjustOnEof(in, s) ==
  IF ~in.seekable_cache THEN in
  ELSE JoinIfLonger(in, StartKeyframe(CloseKeyframe(in, s), s, 0))

-----------------------------------------------------------------------------
(* demux_add_packet() of packet number "at" of the file.                   *)
Append1(in, s, at) ==
  LET q    == Queue(in, s)
      t    == File[at].time
      d    == in.ds[s]
      ok   == q.correct /\ t > q.last_dts
      tail == Len(q.packets) + 1
      head == IF d.reader_head = 0 /\ (~d.skip_to_keyframe \/ File[at].keyframe)
              THEN tail ELSE d.reader_head
      fw   == IF head # 0 THEN 1 ELSE 0
      last == IF t > q.last_ts \/ t + 10 * Second < q.last_ts THEN t ELSE q.last_ts
  IN  [SetQueue(in, s, [q EXCEPT !.packets = Append(@, Packet(at)),
                                 !.correct = ok, !.last_dts = t,
                                 !.last_ts = last])
       EXCEPT !.ds[s] = [d EXCEPT
                !.correct = @ /\ ok, !.reader_head = head,
                !.skip_to_keyframe = @ /\ head # tail,
                !.fw_bytes = @ + fw, !.eof = FALSE,
                !.base_ts = IF @ = NoPts THEN last ELSE @],
              !.fw_bytes = @ + fw, !.total_bytes = @ + 1,
              !.eof = FALSE, !.last_eof = FALSE]

(* Mutant: A packet that was read before a seek was requested is not dropped. *)
Mut_AddPacket(in, at) ==
  LET s == File[at].stream
      d == in.ds[s]
  IN  IF ~d.selected THEN in
      ELSE IF d.refreshing
      THEN [in EXCEPT !.ds[s].refreshing =
              Queue(in, s).correct /\ File[at].time < Queue(in, s).last_dts]
      ELSE AdjustOnPacket(Append1(in, s, at), s)

AddPacket(in, at) ==
  LET s == File[at].stream
      d == in.ds[s]
      q == Queue(in, s)
  IN  IF ~d.selected \/ in.seeking THEN in
      ELSE IF d.refreshing
      THEN [in EXCEPT !.ds[s].refreshing = q.correct /\ File[at].time < q.last_dts]
      ELSE AdjustOnPacket(Append1(in, s, at), s)

(* The end of read_packet() after fill_buffer() returned.                  *)
CloseStream(in, s) ==
  [IF in.ds[s].eof THEN in ELSE AdjustOnEof(in, s) EXCEPT !.ds[s].eof = TRUE]

EndOfFile(in) ==
  LET closed[s \in 0 .. NumStreams] ==
        IF s = 0 THEN in ELSE CloseStream(closed[s - 1], s)
  IN  closed[NumStreams]

(* Mutant: An EOF that was hit before a seek was requested counts.         *)
Mut_FillBufferReturned(in, eof) ==
  [IF eof THEN EndOfFile(in) ELSE in EXCEPT !.eof = eof, !.last_eof = eof]

FillBufferReturned(in, eof) ==
  IF in.seeking THEN in
  ELSE [IF eof THEN EndOfFile(in) ELSE in EXCEPT !.eof = eof, !.last_eof = eof]

-----------------------------------------------------------------------------
(* prune_old_packets(): one round of its loop.  Ranges are pruned from the *)
(* least recently used one on, each from its earliest keyframe on.         *)
Prunable(in, s) ==
  LET q == in.ranges[1].queues[s] IN
  q.packets # <<>> /\ ~(Current(in) = 1 /\ in.ds[s].reader_head = 1)

PruneTarget(q) ==
  LET kf == {p \in 2 .. Len(q.packets) :
               Keyframe(q.packets[p]) /\ q.packets[p].kf_seek_pts # NoPts}
      q1 == [q EXCEPT !.last_pruned = IF q.seek_start # NoPts THEN q.seek_start
                                                              ELSE @]
  IN  IF kf = {} THEN [q1 EXCEPT !.seek_start = NoPts,
                                 !.next_prune_target = Len(q.packets)]
      ELSE [q1 EXCEPT !.seek_start = q.packets[Min(kf)].kf_seek_pts,
                      !.next_prune_target = Min(kf) - 1]

PruneRound(in) ==
  LET Head1(s)  == in.ranges[1].queues[s].packets[1]
      able      == {s \in Streams : Prunable(in, s)}
      always    == {s \in able : \/ ~in.seekable_cache
                                 \/ Head1(s).kf_seek_pts = NoPts
                                 \/ ~Keyframe(Head1(s))}
      early     == {s \in able : \A t \in able :
                      Head1(s).kf_seek_pts <= Head1(t).kf_seek_pts}
      s         == IF always # {} THEN Min(always) ELSE Min(early)
      q         == in.ranges[1].queues[s]
      seekable  == in.seekable_cache /\ q.next_prune_target = 0
      q1        == IF seekable THEN PruneTarget(q) ELSE q
      in1       == IF seekable
                   THEN UpdateRange([in EXCEPT !.ranges[1].queues[s] = q1], 1)
                   ELSE in
      reader    == IF Current(in) = 1 THEN in.ds[s].reader_head ELSE 0
      n         == Min(({q1.next_prune_target, reader - 1} \ {0, -1})
                         \cup {Len(q.packets)})
      in2       == [in1 EXCEPT !.ranges[1].queues[s] = RemoveHead(q1, n),
                               !.total_bytes = @ - n,
                               !.ds[s].reader_head = IF reader = 0 THEN @
                                                     ELSE @ - n]
  IN  IF able = {} THEN [in EXCEPT !.assert_failed = TRUE]
      ELSE IF Current(in) > 1 /\ in2.ranges[1].seek_start = NoPts
      THEN FreeEmptyRanges(in2) ELSE in2

PruneOldPackets(in) ==
  LET limit == IF in.seekable_cache THEN in.max_bytes_bw ELSE 0
      Round(x) == IF x.total_bytes - x.fw_bytes > limit /\ ~x.assert_failed
                  THEN PruneRound(x) ELSE x
      rounds == CacheBytes(in.ranges)    \* as each removes a packet
      pruned[i \in 0 .. rounds] == IF i = 0 THEN in ELSE Round(pruned[i - 1])
  IN  pruned[rounds]

(* dequeue_packet() of a stream that has a packet.                         *)
DequeuePacket(in, s) ==
  LET q  == Queue(in, s)
      d  == in.ds[s]
      h  == d.reader_head
  IN  PruneOldPackets(
        [in EXCEPT !.ds[s] = [d EXCEPT
                     !.reader_head = IF h = Len(q.packets) THEN 0 ELSE h + 1,
                     !.fw_bytes = @ - 1, !.base_ts = Time(q.packets[h])],
                   !.fw_bytes = @ - 1])

-----------------------------------------------------------------------------
(* ds_clear_reader_state() of the streams S.                               *)
ClearReader(in, S) ==
  [in EXCEPT
     !.fw_bytes = @ - Total([s \in Streams |->
                               IF s \in S THEN in.ds[s].fw_bytes ELSE 0]),
     !.ds = [s \in Streams |->
       IF s \notin S THEN in.ds[s]
       ELSE [in.ds[s] EXCEPT !.reader_head = 0, !.base_ts = NoPts,
                             !.fw_bytes = 0, !.eof = FALSE,
                             !.skip_to_keyframe = FALSE]]]

ClearRanges(in, R) ==
  [in EXCEPT !.ranges = [n \in DOMAIN @ |-> IF n \in R THEN EmptyRange ELSE @[n]],
             !.total_bytes = @ - BytesOf(in.ranges, R)]

(* demux_flush()                                                           *)
Flush(in) ==
  LET in1 == ClearReader(in, Streams)
  IN  FreeEmptyRanges(ClearRanges(in1, DOMAIN in1.ranges))

(* The eager streams: the selected ones, but no subtitles among others.    *)
Eager(ds) ==
  LET av == \E s \in Streams : ds[s].selected /\ Type[s] # "sub"
  IN  [s \in Streams |-> [ds[s] EXCEPT
         !.eager = ds[s].selected /\ ~(av /\ Type[s] = "sub")]]

(* update_stream_selection_state()                                         *)
UpdateSelection(in, s) ==
  LET in1 == ClearReader([in EXCEPT !.ds[s].refreshing = FALSE], {s})
      gone(r) == IF in.ds[s].selected THEN r
                 ELSE [r EXCEPT !.queues[s] = EmptyQueue]
      in2 == [in1 EXCEPT
        !.ranges = [n \in DOMAIN @ |-> UpdateSeekRanges(in1.ds, gone(@[n]))],
        !.total_bytes = @ - Total([n \in DOMAIN in.ranges |->
           RangeBytes(in.ranges[n]) - RangeBytes(gone(in.ranges[n]))])]
      in3 == FreeEmptyRanges(in2)
  IN  [in3 EXCEPT !.ds = Eager(@)]

(* Mutant: The other streams do not skip what they have already.           *)
Mut_InitiateRefreshSeek(in, stream, ref_pts) ==
  LET on    == {s \in Streams : in.ds[s].selected}
      start == PtsMin({ref_pts} \cup
                      {in.ds[s].base_ts : s \in {x \in on : Type[x] # "sub"}})
  IN  IF start = NoPts THEN in ELSE QueueSeek(in, start - Second, {"HR"})

(* initiate_refresh_seek(): bring the demuxer back to the time at which a  *)
(* newly selected stream is needed, without repeating the other streams.   *)
InitiateRefreshSeek(in, stream, ref_pts) ==
  LET on     == {s \in Streams : in.ds[s].selected}
      start  == PtsMin({ref_pts} \cup
                       {in.ds[s].base_ts : s \in {x \in on : Type[x] # "sub"}})
      normal == on \subseteq {stream}
      ready  == \A s \in on : Queue(in, s).correct
      fresh  == [in EXCEPT !.ds = [s \in Streams |-> [in.ds[s] EXCEPT
                   !.refreshing = @ \/ ( /\ in.ds[s].selected
                                         /\ Queue(in, s).last_dts # NoPts)]]]
  IN  IF start = NoPts \/ (~normal /\ ~ready) THEN in
      ELSE IF normal THEN QueueSeek(in, start, {"HR"})
      ELSE QueueSeek(fresh, start - Second, {"HR"})

(* demuxer_select_track() that changes the selection.                      *)
SelectTrack(in, s, ref_pts, selected) ==
  LET in1 == UpdateSelection([in EXCEPT !.ds[s].selected = selected], s)
      in2 == [in1 EXCEPT !.tracks_switched = TRUE]
  IN  IF selected /\ ~in.initial_state THEN InitiateRefreshSeek(in2, s, ref_pts)
      ELSE in2

-----------------------------------------------------------------------------
(* find_seek_target(): the last keyframe at or before pts, or the first    *)
(* one if there is none, or with SEEK_FORWARD the first at or after it.    *)
(* The kf_seek_pts of a queue increase (Accounted), so the order of  *)
(* the search does not matter.  The index tells where it starts.           *)
FindSeekTarget(q, pts, flags) ==
  LET Pts(p) == q.packets[p].kf_seek_pts
      start == Max({1} \cup {p \in ToSet(q.index) : Pts(p) <= pts})
      kf    == {p \in start .. Len(q.packets) :
                  Keyframe(q.packets[p]) /\ Pts(p) # NoPts}
      back  == {p \in kf : Pts(p) <= pts}
      ahead == {p \in kf : Pts(p) >= pts}
      FirstOf(P) == IF P = {} THEN 0 ELSE Min(P)
  IN  IF "FORWARD" \in flags THEN FirstOf(ahead)
      ELSE IF back # {} THEN Max(back) ELSE FirstOf(kf)

(* switch_current_range(): the rest of it, when the new range is the last  *)
(* of in.ranges and the old one the last but one.                          *)
SwitchCurrentRange(in) ==
  LET old  == Current(in) - 1
      qs   == [s \in Streams |->
                 RemoveHead(in.ranges[old].queues[s],
                            in.ranges[old].queues[s].next_prune_target)]
      in1  == [in EXCEPT
                 !.ranges[old].queues = qs,
                 !.total_bytes = @ - Total([s \in Streams |->
                    in.ranges[old].queues[s].next_prune_target])]
      in2  == IF \E s \in Streams : in.ds[s].selected /\ ~in.ds[s].correct
              THEN ClearRanges(in1, {old}) ELSE in1
  IN  FreeEmptyRanges([in2 EXCEPT !.ds = [s \in Streams |->
        [@[s] EXCEPT !.refreshing = FALSE, !.eof = FALSE]]])

(* try_seek_cache(): the ranges that contain pts, and the seek into the    *)
(* least recently used of them.                                            *)
RangesAt(in, pts) ==
  {n \in DOMAIN in.ranges : /\ in.ranges[n].seek_start # NoPts
                            /\ pts >= in.ranges[n].seek_start
                            /\ pts <= in.ranges[n].seek_end}

VideoTarget(in, r, pts, flags) ==
  LET videos == {s \in Streams : in.ds[s].selected /\ Type[s] = "video"}
      q      == r.queues[Min(videos)]
      target == FindSeekTarget(q, pts, flags)
  IN  IF "HR" \in flags \/ videos = {} THEN [pts |-> pts, flags |-> flags]
      ELSE IF target = 0 THEN [pts |-> pts, flags |-> flags]
      ELSE [pts |-> q.packets[target].kf_seek_pts, flags |-> flags \ {"FORWARD"}]

(* Mutant: The streams of a range that is resumed do not skip what they have. *)
Mut_SeekInRange(in, n, pts, flags) ==
  LET r    == in.ranges[n]
      to   == VideoTarget(in, r, pts, flags)
      head == [s \in Streams |-> FindSeekTarget(r.queues[s], to.pts, to.flags)]
      fw   == [s \in Streams |-> Forward(r.queues[s], head[s])]
      in1  == [in EXCEPT
        !.ds = [s \in Streams |-> [in.ds[s] EXCEPT
                  !.reader_head = head[s], !.skip_to_keyframe = (head[s] = 0),
                  !.fw_bytes = fw[s]]],
        !.fw_bytes = @ + Total(fw)]
  IN  IF n = Current(in) THEN in1
      ELSE QueueSeek(SwitchCurrentRange(
             [in1 EXCEPT !.ranges = Append(RemoveAt(@, n), r)]),
             r.seek_end - Second, {"HR"})

SeekInRange(in, n, pts, flags) ==
  LET r      == in.ranges[n]
      to     == VideoTarget(in, r, pts, flags)
      head   == [s \in Streams |-> FindSeekTarget(r.queues[s], to.pts, to.flags)]
      fw     == [s \in Streams |-> Forward(r.queues[s], head[s])]
      in1    == [in EXCEPT
        !.ds = [s \in Streams |-> [in.ds[s] EXCEPT
                  !.reader_head = head[s], !.skip_to_keyframe = (head[s] = 0),
                  !.base_ts = IF head[s] = 0 THEN @
                              ELSE Time(r.queues[s].packets[head[s]]),
                  !.fw_bytes = fw[s]]],
        !.fw_bytes = @ + Total(fw)]
      in2    == SwitchCurrentRange(
                  [in1 EXCEPT !.ranges = Append(RemoveAt(@, n), r)])
      in3    == [in2 EXCEPT !.ds = [s \in Streams |->
                  [@[s] EXCEPT !.refreshing = in.ds[s].selected]]]
  IN  IF n = Current(in) THEN in1
      ELSE QueueSeek(in3, r.seek_end - Second, {"HR"})

(* switch_to_fresh_cache_range()                                           *)
SwitchToFresh(in) ==
  IF ~in.seekable_cache THEN ClearRanges(in, {Current(in)})
  ELSE SwitchCurrentRange([in EXCEPT !.ranges = Append(@, EmptyRange)])

(* demux_seek() while the demuxer thread runs.                             *)
Seek(in, pts, flags) ==
  LET in1 == [ClearReader(in, Streams) EXCEPT !.eof = FALSE, !.last_eof = FALSE,
                                              !.reading = FALSE]
      at  == RangesAt(in1, pts)
  IN  IF in.seekable_cache /\ at # {} THEN SeekInRange(in1, Min(at), pts, flags)
      ELSE QueueSeek(SwitchToFresh(in1), pts, flags)
=============================================================================
