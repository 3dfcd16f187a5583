----------------------------- MODULE DemuxCache -----------------------------
(***************************************************************************)
(* demux/demux.c: the demuxer thread fills the packet cache while the      *)
(* player reads packets, seeks, and enables or disables streams.           *)
(*                                                                         *)
(* Everything that is done under in->lock between two releases of it is    *)
(* one step.  The demuxer thread releases the lock while fill_buffer()     *)
(* reads the file; the packet it found is added later, to a cache that may *)
(* have changed.  Waiting for each other on in->wakeup is left out: the    *)
(* thread looks for work whenever it can, as after a spurious wakeup.      *)
(*                                                                         *)
(* The file and the demuxer implementation that reads it are external:     *)
(* fill_buffer() returns the packets of File one after the other, and seek *)
(* goes to a keyframe of the video stream.                                 *)
(***************************************************************************)
EXTENDS CacheRanges

CONSTANTS Selected,    \* the streams that are selected before playback
          SeekTimes,   \* the times to which the player seeks
          SeekFlags,   \* the sets of flags that it passes
          Imprecise,   \* the demuxer may seek to earlier keyframes as well
          MaxSeeks,    \* bound: calls of demux_seek()
          MaxSelects   \* bound: calls of demuxer_select_track()

ASSUME DemuxAssumption ==
  /\ Selected \subseteq Streams
  /\ SeekTimes \subseteq Nat
  /\ SeekFlags \subseteq SUBSET {"HR", "FORWARD"}
  /\ Imprecise \in BOOLEAN
  /\ MaxSeeks \in Nat /\ MaxSelects \in Nat

VARIABLES
  in,      \* struct demux_internal
  thread,  \* the demuxer thread: where it is in thread_work()
  pos,     \* the position of the demuxer implementation in the file
  reader,  \* per stream: what the player got since it last changed position
  last_seek_pts, \* the player's time as long as it has not got anything
  seeks, selects

player == <<reader, last_seek_pts, seeks, selects>>
vars   == <<in, thread, pos, player>>

NoStream == [selected |-> FALSE, eager |-> FALSE, refreshing |-> FALSE,
             correct |-> TRUE, base_ts |-> NoPts, fw_bytes |-> 0,
             eof |-> FALSE, reader_head |-> 0, skip_to_keyframe |-> FALSE]

(* The first and the last packet, and the time the player asked for if the *)
(* packets have to start there.                                            *)
NewReader(goal) == [first |-> 0, last |-> 0, goal |-> goal]

Init ==
  /\ \E setup \in Setups :
       in = [ranges |-> <<EmptyRange>>,
                ds |-> Eager([s \in Streams |->
                                [NoStream EXCEPT !.selected = s \in Selected]]),
                total_bytes |-> 0, fw_bytes |-> 0, eof |-> FALSE, last_eof |-> FALSE,
                reading |-> FALSE, initial_state |-> TRUE, tracks_switched |-> TRUE,
                seeking |-> FALSE, seek_pts |-> NoPts, seek_flags |-> {},
                assert_failed |-> FALSE,
               seekable_cache |-> setup.seekable_cache,
               max_bytes |-> setup.max_bytes,
               max_bytes_bw |-> setup.max_bytes_bw]
  /\ thread = [pc |-> "work", at |-> 0]
  /\ pos = 1
  /\ reader = [s \in Streams |-> NewReader(0)]
  /\ last_seek_pts = NoPts /\ seeks = 0 /\ selects = 0

-----------------------------------------------------------------------------
(* The demuxer implementation.                                             *)
Anchors == IF \E s \in Streams : Type[s] = "video"
           THEN {i \in DOMAIN File : File[i].keyframe /\ Type[File[i].stream] = "video"}
           ELSE {i \in DOMAIN File : File[i].keyframe}

Landing(pts, flags) ==
  LET back  == {i \in Anchors : File[i].time <= pts}
      ahead == {i \in Anchors : File[i].time >= pts}
  IN  IF "FORWARD" \in flags /\ ahead # {} THEN {Min(ahead)}
      ELSE IF back = {} THEN {1}
      ELSE IF Imprecise THEN back ELSE {Max(back)}

-----------------------------------------------------------------------------
(* The demuxer thread.                                                     *)

ExecuteTrackswitch ==
  /\ thread.pc = "work" /\ in.tracks_switched
  /\ in' = [in EXCEPT !.tracks_switched = FALSE]
  /\ UNCHANGED <<thread, pos, player>>

ExecuteSeek ==
  /\ thread.pc = "work" /\ ~in.tracks_switched
  /\ in.seeking
  /\ in' = [in EXCEPT !.seeking = FALSE, !.initial_state = FALSE]
  /\ pos' \in Landing(in.seek_pts, in.seek_flags)
  /\ UNCHANGED <<thread, player>>

(* read_packet(): is there a reason to read?                               *)
ReadMore == \E s \in Streams : in.ds[s].eager /\ in.ds[s].reader_head = 0

PrefetchMore ==
  \E s \in Streams :
    LET d == in.ds[s]  last == Queue(in, s).last_ts IN
    \/ d.refreshing
    \/ /\ d.eager /\ last # NoPts /\ MinSecs > 0
       /\ d.base_ts # NoPts /\ last >= d.base_ts
       /\ last - d.base_ts < MinSecs

MayRead == /\ thread.pc = "work"
           /\ ~in.tracks_switched /\ ~in.seeking /\ ~in.eof /\ in.reading

(* Too much is queued already: who has nothing gets an EOF instead.        *)
Overflow ==
  /\ MayRead
  /\ in.fw_bytes >= in.max_bytes /\ ReadMore
  /\ in' = [in EXCEPT !.ds = [s \in Streams |->
              [in.ds[s] EXCEPT !.eof = @ \/ in.ds[s].reader_head = 0]]]
  /\ UNCHANGED <<thread, pos, player>>

(* The lock is released and fill_buffer() called.                          *)
FillBuffer ==
  /\ MayRead
  /\ in.fw_bytes < in.max_bytes
  /\ ReadMore \/ PrefetchMore
  /\ in' = [in EXCEPT !.initial_state = FALSE]
  /\ IF pos <= Len(File) THEN /\ thread' = [pc |-> "add", at |-> pos]
                              /\ pos' = pos + 1
                         ELSE /\ thread' = [pc |-> "eof", at |-> 0]
                              /\ UNCHANGED pos
  /\ UNCHANGED player

DemuxAddPacket ==
  /\ thread.pc = "add"
  /\ in' = AddPacket(in, thread.at)
  /\ thread' = [pc |-> "filled", at |-> 0]
  /\ UNCHANGED <<pos, player>>

ReadPacketEnd ==
  /\ thread.pc \in {"filled", "eof"}
  /\ in' = FillBufferReturned(in, thread.pc = "eof")
  /\ thread' = [pc |-> "work", at |-> 0]
  /\ UNCHANGED <<pos, player>>

-----------------------------------------------------------------------------
(* The player.                                                             *)

(* demux_read_packet_async()                                               *)
ReadPacket(s) ==
  /\ LET h == in.ds[s].reader_head
         read == IF h = 0 THEN in ELSE DequeuePacket(in, s)
     IN  /\ in' = IF in.ds[s].eager
                  THEN [read EXCEPT !.reading = TRUE, !.eof = FALSE] ELSE read
         /\ reader' = IF h = 0 THEN reader
                      ELSE LET at == Queue(in, s).packets[h].at IN
                           [reader EXCEPT ![s].last = at,
                              ![s].first = IF @ = 0 THEN at ELSE @]
  /\ UNCHANGED <<thread, pos, last_seek_pts, seeks, selects>>

DemuxSeek(pts, flags) ==
  /\ seeks < MaxSeeks /\ seeks' = seeks + 1
  /\ in' = Seek(in, pts, flags)
  /\ reader' = [s \in Streams |->
                  NewReader(IF "FORWARD" \in flags THEN NoPts ELSE pts)]
  /\ last_seek_pts' = pts
  /\ UNCHANGED <<thread, pos, selects>>

(* get_current_time() of the player: where the last seek went, or the time *)
(* of something that was decoded since then.                               *)
CurrentTimes ==
  LET got == {reader[s].first : s \in Streams} \cup {reader[s].last : s \in Streams}
  IN  IF got = {0} THEN {last_seek_pts}
      ELSE {last_seek_pts} \cup {File[i].time : i \in got \ {0}}

DemuxerSelectTrack(s, ref_pts) ==
  /\ selects < MaxSelects /\ selects' = selects + 1
  /\ in' = SelectTrack(in, s, ref_pts, ~in.ds[s].selected)
  /\ reader' = [reader EXCEPT ![s] = NewReader(NoPts)]
  /\ UNCHANGED <<thread, pos, last_seek_pts, seeks>>

DemuxFlush ==
  /\ seeks < MaxSeeks /\ seeks' = seeks + 1
  /\ in' = Flush(in)
  /\ reader' = [s \in Streams |-> NewReader(NoPts)]
  /\ UNCHANGED <<thread, pos, last_seek_pts, selects>>

-----------------------------------------------------------------------------
ThreadStep == \/ ExecuteTrackswitch \/ ExecuteSeek \/ Overflow \/ FillBuffer
              \/ DemuxAddPacket \/ ReadPacketEnd

Next == \/ ThreadStep
        \/ \E s \in Streams : ReadPacket(s)
        \/ \E pts \in SeekTimes, flags \in SeekFlags : DemuxSeek(pts, flags)
        \/ \E s \in Streams, ref \in CurrentTimes : DemuxerSelectTrack(s, ref)
        \/ DemuxFlush

Spec == Init /\ [][Next]_vars

-----------------------------------------------------------------------------
Times == {NoPts} \cup Nat

TypeOK ==
  /\ in.ranges # <<>>
  /\ Len(in.ranges) <= MaxSeekRanges
  /\ \A n \in DOMAIN in.ranges :
       /\ in.ranges[n].seek_start \in Times /\ in.ranges[n].seek_end \in Times
       /\ DOMAIN in.ranges[n].queues = Streams
  /\ in.ds \in [Streams -> [selected : BOOLEAN, eager : BOOLEAN,
                            refreshing : BOOLEAN, correct : BOOLEAN,
                            base_ts : Times, fw_bytes : Nat, eof : BOOLEAN,
                            reader_head : Nat, skip_to_keyframe : BOOLEAN]]
  /\ in.total_bytes \in Nat /\ in.fw_bytes \in Nat
  /\ thread \in [pc : {"work", "add", "filled", "eof"}, at : 0 .. Len(File)]
  /\ pos \in 1 .. Len(File) + 1

(* check_queue_consistency(), which the code has under #if 0 (demux.c:299) *)
(* for being too expensive.                                                *)
QueueOK(q) ==
  LET Pts(p) == q.packets[p].kf_seek_pts  P == 0 .. Len(q.packets) IN
  /\ q.next_prune_target \in P
  /\ q.keyframe_latest \in P
  /\ q.keyframe_latest # 0 => Keyframe(q.packets[q.keyframe_latest])
  /\ \A i \in DOMAIN q.index : /\ q.index[i] \in P \ {0}
                               /\ Pts(q.index[i]) # NoPts
                               /\ i > 1 => q.index[i - 1] < q.index[i]
  /\ \A i, j \in P \ {0} : Pts(i) # NoPts /\ Pts(j) # NoPts /\ i < j => Pts(i) < Pts(j)

Accounted ==
  /\ \A n \in DOMAIN in.ranges, s \in Streams : QueueOK(in.ranges[n].queues[s])
  /\ \A s \in Streams :
       /\ in.ds[s].reader_head \in 0 .. Len(Queue(in, s).packets)
       /\ in.ds[s].fw_bytes = Forward(Queue(in, s), in.ds[s].reader_head)
  /\ in.fw_bytes = Total([s \in Streams |-> in.ds[s].fw_bytes])
  /\ in.total_bytes = CacheBytes(in.ranges)

(* demux.c:1324 asserts that a cache that is too large has a packet that   *)
(* can be pruned.                                                          *)
PruneFindsPacket == ~in.assert_failed

Follows(i, j) == /\ i < j
                 /\ \A k \in i + 1 .. j - 1 : File[k].stream # File[j].stream

Continuous ==
  \A n \in DOMAIN in.ranges, s \in Streams :
    LET ps == in.ranges[n].queues[s].packets
    IN  \A i \in 1 .. Len(ps) - 1 : Follows(ps[i].at, ps[i + 1].at)

(* Whatever seeks, joins, pruning and refresh seeks led to it, a queue     *)
(* holds consecutive packets of its stream, none missing and none twice    *)
(* (demux.c:216 "A continuous list of cached packets"), what points into   *)
(* it points to what it should, and the sizes are those of the packets.    *)
CacheConsistent == TypeOK /\ Accounted /\ Continuous

(* What the player gets of a stream after a seek starts with a keyframe at *)
(* or before the time it asked for.                                        *)
SeekCovers ==
  \A s \in Streams :
    LET f == reader[s].first IN
    in.ds[s].eager /\ f # 0 /\ reader[s].goal # NoPts =>
      File[f].keyframe /\ File[f].time <= reader[s].goal

(* The player reads, and gets a packet.                                    *)
Delivered(s) == in.ds[s].reader_head # 0 /\ ReadPacket(s)

(* Between two seeks the player gets the packets of a stream in their      *)
(* order and without a gap.                                                *)
ReadsContinue ==
  [][\A s \in Streams :
       Delivered(s) /\ reader[s].last # 0 => Follows(reader[s].last, reader'[s].last)]_vars

(* Each packet that the player gets of a stream is after all that it got   *)
(* of it before, until it gives up its position (a seek, a flush, the      *)
(* selection of the track): it never gets a packet again.                  *)
ReadsAdvance ==
  [][\A s \in Streams :
       /\ Delivered(s) => reader'[s].last > reader[s].last
       /\ reader'[s].last = 0 \/ reader'[s].last >= reader[s].last]_vars

(* A stream is at its end only if the player got all of its packets from   *)
(* the time on that it asked for (demux.c:1558 "< 0: EOF was reached").     *)
EofIsEnd ==
  \A s \in Streams :
    LET r == reader[s] IN
    in.ds[s].eager /\ in.ds[s].eof /\ in.ds[s].reader_head = 0 =>
      \A i \in r.last + 1 .. Len(File) :
        File[i].stream = s =>
          r.last = 0 /\ (r.goal = NoPts \/ File[i].time < r.goal)

(* The same without seekable cache, where ranges are never joined: an EOF  *)
(* that the thread met before a seek does not count after it.              *)
EofIsEndWithoutCache == ~in.seekable_cache => EofIsEnd

(* A range that claims to contain a time has a keyframe at or before it in *)
(* every stream that is being read.                                        *)
RangesSeekable ==
  \A n \in DOMAIN in.ranges :
    LET r == in.ranges[n] IN
    r.seek_start # NoPts =>
      \A s \in Streams, pts \in SeekTimes :
        in.ds[s].eager /\ r.seek_start <= pts /\ pts <= r.seek_end =>
          LET p == FindSeekTarget(r.queues[s], pts, {}) IN
          p # 0 /\ r.queues[s].packets[p].kf_seek_pts <= pts
=============================================================================
