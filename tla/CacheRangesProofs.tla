-------------------------- MODULE CacheRangesProofs -------------------------
(***************************************************************************)
(* Lemmas about CacheRanges for every file, any number of streams and of   *)
(* ranges and any limits: what the demuxer does to the packet cache.       *)
(* Ranges are joined, packets are added and pruned, and a queue stays in   *)
(* file order, with the reader's head behind what the player got and the   *)
(* demuxer behind the end of the queue (Fit).                              *)
(*                                                                         *)
(* There is a lemma for each function of demux.c, after those about sets   *)
(* of numbers, queues and ranges that they rest on.                        *)
(***************************************************************************)
EXTENDS CacheRanges, SequenceTheorems, FiniteSetTheorems, TLAPS

(* What the variables hold.                                                *)
Packets == [at : DOMAIN File, kf_seek_pts : Int]
QueueRecords ==
  [packets : Seq(Packets), next_prune_target : Nat,
   correct : BOOLEAN, last_dts : Int, last_ts : Int,
   keyframe_latest : Nat, keyframe_pts : Int, keyframe_end_pts : Int,
   seek_start : Int, seek_end : Int, last_pruned : Int,
   index : Seq(Int), index_distance : Int]

(* What points into a queue: the prune target and the latest keyframe are  *)
(* packets of it, and the index has keyframes that were closed, in order.  *)
PointersIn(q) ==
  /\ q.next_prune_target <= Len(q.packets)
  /\ q.keyframe_latest <= Len(q.packets)
  /\ q.keyframe_latest # 0 => /\ Keyframe(q.packets[q.keyframe_latest])
                              /\ q.keyframe_pts # NoPts
IndexIn(q) ==
  /\ q.index_distance > 0
  /\ \A i \in DOMAIN q.index :
       /\ q.index[i] \in 1 .. Len(q.packets)
       /\ q.packets[q.index[i]].kf_seek_pts # NoPts
       /\ q.keyframe_latest # 0 => q.index[i] <= q.keyframe_latest
  /\ \A i, j \in DOMAIN q.index : i < j => q.index[i] < q.index[j]
Queues == {q \in QueueRecords : PointersIn(q) /\ IndexIn(q)}

Ranges  == [queues : [Streams -> Queues], seek_start : Int, seek_end : Int]
DemuxStreams ==
  [selected : BOOLEAN, eager : BOOLEAN, refreshing : BOOLEAN,
   correct : BOOLEAN, base_ts : Int, fw_bytes : Int, eof : BOOLEAN,
   reader_head : Nat, skip_to_keyframe : BOOLEAN]

(* An audio or video stream.  Whatever subtitles there are, these are read *)
(* in full: they are eager as long as they are selected.                   *)
Media(s) == Type[s] # "sub"

(* The time noted for a keyframe, once it is, is its own: the packets that *)
(* follow are later (adjust_seek_range_on_packet() takes the least one).   *)
Dated(q) ==
  /\ \A i \in DOMAIN q.packets :
       q.packets[i].kf_seek_pts \in {NoPts, Time(q.packets[i])}
  /\ q.keyframe_latest # 0 => q.keyframe_pts = Time(q.packets[q.keyframe_latest])

(* The packets of a queue are packets of its stream in the order of the    *)
(* file, and last_dts is the time of the last one.                         *)
InFileOrder(q, s) ==
  /\ q.correct /\ Dated(q)
  /\ \A i \in DOMAIN q.packets : File[q.packets[i].at].stream = s
  /\ \A i, j \in DOMAIN q.packets : i < j => q.packets[i].at < q.packets[j].at
  /\ q.packets # <<>> => q.last_dts = Time(Last(q.packets))

(* A queue that nothing was added to.                                      *)
Fresh(q) == q.packets = <<>> /\ q.last_dts = NoPts

(* A queue of a range: in file order, and empty if its stream is disabled  *)
(* (demux.c drops the packets of a disabled stream in all ranges).         *)
QueueFit(q, s, selected) ==
  /\ q \in Queues
  /\ Media(s) => InFileOrder(q, s)
  /\ ~selected => Fresh(q)
RangeFit(r, ds) ==
  /\ r \in Ranges
  /\ \A s \in Streams : QueueFit(r.queues[s], s, ds[s].selected)
RangesFit(ranges, ds) ==
  /\ ranges \in Seq(Ranges) /\ ranges # <<>>
  /\ \A n \in DOMAIN ranges : RangeFit(ranges[n], ds)

(* The reader's head is after the last packet that the player got; when it *)
(* waits for a packet, the queue ends where the player is, so that the     *)
(* next one is new.  A queue is empty then only if there is no other range *)
(* to resume.                                                              *)
HeadFit(q, head, last, alone) ==
  last # 0 => /\ head # 0 => q.packets[head].at > last
              /\ head = 0 => File[last].time <= q.last_dts
              /\ alone \/ q.packets # <<>>

(* No packet of the stream from "next" on was there before time dts.       *)
Beyond(next, s, dts) ==
  \A i \in DOMAIN File :
    i >= next /\ File[i].stream = s => File[i].time > dts

(* Where the demuxer is: what it reads next is after all that the queue    *)
(* has, unless the stream is refreshing and drops what it has.  With a     *)
(* seek to come nothing is known, so that the queue must not have          *)
(* anything.                                                               *)
AheadFit(q, d, s, seeking, next) ==
  d.selected /\ ~d.refreshing =>
    IF seeking THEN q.last_dts = NoPts ELSE Beyond(next, s, q.last_dts)

(* All that is said of one stream: its queue q in the current range, its   *)
(* state d, the last packet that the player got, the next one of the       *)
(* demuxer.                                                                *)
StreamFit(q, d, s, alone, seeking, last, next) ==
  /\ d.reader_head <= Len(q.packets)
  /\ Media(s) => /\ HeadFit(q, d.reader_head, last, alone)
                 /\ AheadFit(q, d, s, seeking, next)
StreamsFit(ranges, ds, seeking, last, next) ==
  \A s \in Streams :
    StreamFit(ranges[Len(ranges)].queues[s], ds[s], s, Len(ranges) = 1,
              seeking, last[s], next)

(* The fields of struct demux_internal that the model has.                 *)
Fields == {"ranges", "ds", "total_bytes", "fw_bytes", "eof", "last_eof",
           "reading", "initial_state", "tracks_switched", "seeking", "seek_pts",
           "seek_flags", "assert_failed", "seekable_cache", "max_bytes",
           "max_bytes_bw"}
DsFit(ds) == /\ ds \in [Streams -> DemuxStreams]
             /\ \A s \in Streams : Media(s) => ds[s].eager = ds[s].selected

(* The parts of the cache that do not depend on the player or on the file. *)
Shape(x) ==
  /\ DOMAIN x = Fields /\ x.seeking \in BOOLEAN
  /\ DsFit(x.ds)
  /\ RangesFit(x.ranges, x.ds)

(* The cache, for a player that got the packets "last" of each stream and  *)
(* a demuxer that goes on with packet "next".                              *)
Fit(x, last, next) ==
  Shape(x) /\ StreamsFit(x.ranges, x.ds, x.seeking, last, next)

(* The last packets that the player got: each is one of its stream.        *)
LastFit(last) ==
  \A s \in Streams : Media(s) =>
                     /\ last[s] \in 0 .. Len(File)
                     /\ last[s] # 0 => File[last[s]].stream = s

(* A set of natural numbers has a least element.                           *)
LEMMA LeastNumber ==
  ASSUME NEW T \in SUBSET Nat, T # {}
  PROVE  Min(T) \in T /\ \A y \in T : Min(T) <= y
<1> DEFINE R == OpToRel(<, Nat)
<1>1. \A y, x \in Nat : y < x => <<y, x>> \in R
  BY DEF OpToRel
<1>2. IsWellFoundedOn(R, Nat)
  BY NatLessThanWellFounded
<1>. HIDE DEF R
<1>3. PICK x \in T : \A y \in T : ~ (<<y, x>> \in R)
  BY <1>2, WFMin
<1>4. ASSUME NEW y \in T PROVE x <= y
  <2>1. x \in Nat /\ y \in Nat
    OBVIOUS
  <2>2. ~(y < x)
    BY <1>1, <1>3, <2>1, Zenon
  <2>. QED BY <2>1, <2>2
<1>5. \E z \in T : \A y \in T : z <= y
  BY <1>4
<1>. QED BY <1>5, Zenon DEF Min

(* The induction theorem of the library takes an operator, which cannot be *)
(* instantiated here; this is the one it rests on, for sets.               *)
LEMMA Induction ==
  ASSUME NEW P, 0 \in P, \A n \in Nat : n \in P => n + 1 \in P
  PROVE  Nat \subseteq P
<1>. SUFFICES ASSUME Nat \ P # {} PROVE FALSE
  OBVIOUS
<1> DEFINE x == Min(Nat \ P)
<1>1. x \in Nat \ P /\ \A y \in Nat \ P : x <= y
  BY LeastNumber
<1>. HIDE DEF x
<1>2. x - 1 \in Nat /\ x - 1 \in P
  BY <1>1
<1>. QED BY <1>1, <1>2


(* A function with a sequence's domain is one.                             *)
LEMMA FunctionIsSeq ==
  ASSUME NEW S, NEW n \in Nat, NEW f \in [1 .. n -> S]
  PROVE  f \in Seq(S) /\ Len(f) = n
<1>1. f \in Seq(S)
  BY SeqDef
<1>. QED BY <1>1, LenProperties

(* A finite number of numbers is bounded.                                  *)
LEMMA Bounds ==
  ASSUME NEW m \in Nat, NEW f, \A i \in 1 .. m : f[i] \in Int
  PROVE  \E b \in Nat : \A i \in 1 .. m : -b <= f[i] /\ f[i] <= b
<1> DEFINE P == {k \in Nat : k <= m => \E b \in Nat : \A i \in 1 .. k :
                                         -b <= f[i] /\ f[i] <= b}
<1>1. 0 \in P
  OBVIOUS
<1>2. ASSUME NEW k \in Nat, k \in P PROVE k + 1 \in P
  <2>. SUFFICES ASSUME k + 1 <= m
                PROVE  \E b \in Nat : \A i \in 1 .. k + 1 : -b <= f[i] /\ f[i] <= b
    OBVIOUS
  <2>1. PICK b \in Nat : \A i \in 1 .. k : -b <= f[i] /\ f[i] <= b
    BY <1>2
  <2> DEFINE v == f[k + 1]
  <2>2. v \in Int
    OBVIOUS
  <2> DEFINE c == IF v > b THEN v ELSE IF v < -b THEN -v ELSE b
  <2>3. c \in Nat /\ c >= b /\ -c <= v /\ v <= c
    BY <2>2
  <2>4. ASSUME NEW i \in 1 .. k + 1 PROVE -c <= f[i] /\ f[i] <= c
    <3>1. CASE i = k + 1
      BY <2>3, <3>1
    <3>2. CASE i \in 1 .. k
      <4>. HIDE DEF c
      <4>. QED BY <2>1, <2>3, <3>2
    <3>. QED BY <3>1, <3>2
  <2>. QED BY <2>3, <2>4
<1>3. m \in P
  <2>. HIDE DEF P
  <2>. QED BY <1>1, <1>2, Induction
<1>. QED BY <1>3

(* Sets between two numbers have a least and a greatest element.           *)
LEMMA Extremes ==
  ASSUME NEW T \in SUBSET Int, T # {}, NEW b \in Nat,
         \A t \in T : -b <= t /\ t <= b
  PROVE  /\ Max(T) \in T /\ \A t \in T : Max(T) >= t
         /\ Min(T) \in T /\ \A t \in T : Min(T) <= t
<1>1. \E x \in T : \A t \in T : x >= t
  <2> DEFINE U == {u \in Nat : b - u \in T}
  <2>1. PICK t \in T : TRUE
    OBVIOUS
  <2>2. b - t \in U
    BY <2>1
  <2>3. Min(U) \in U /\ \A u \in U : Min(U) <= u
    BY <2>2, LeastNumber
  <2> DEFINE x == b - Min(U)
  <2>4. x \in T
    BY <2>3
  <2>5. ASSUME NEW y \in T PROVE x >= y
    <3>1. b - y \in U
      OBVIOUS
    <3>2. Min(U) <= b - y /\ Min(U) \in Nat
      BY <2>3, <3>1
    <3>. QED BY <3>2
  <2>. QED BY <2>4, <2>5
<1>2. \E x \in T : \A t \in T : x <= t
  <2> DEFINE U == {u \in Nat : u - b \in T}
  <2>1. PICK t \in T : TRUE
    OBVIOUS
  <2>2. t + b \in U
    BY <2>1
  <2>3. Min(U) \in U /\ \A u \in U : Min(U) <= u
    BY <2>2, LeastNumber
  <2> DEFINE x == Min(U) - b
  <2>4. x \in T
    BY <2>3
  <2>5. ASSUME NEW y \in T PROVE x <= y
    <3>1. y + b \in U
      OBVIOUS
    <3>2. Min(U) <= y + b /\ Min(U) \in Nat
      BY <2>3, <3>1
    <3>. QED BY <3>2
  <2>. QED BY <2>4, <2>5
<1>3. Max(T) \in T /\ \A t \in T : Max(T) >= t
  BY <1>1, Zenon DEF Max
<1>4. Min(T) \in T /\ \A t \in T : Min(T) <= t
  BY <1>2, Zenon DEF Min
<1>. QED BY <1>3, <1>4

(* A set of numbers between two.                                           *)
Bounded(T) == T \subseteq Int /\ \E b \in Nat : \A t \in T : -b <= t /\ t <= b

(* MP_PTS_MAX and MP_PTS_MIN of such a set are times.                      *)
LEMMA BoundedPts ==
  ASSUME NEW T, Bounded(T)
  PROVE  PtsMax(T) \in Int /\ PtsMin(T) \in Int
<1>1. NoPts \in Int
  BY DEF NoPts
<1>2. CASE T \subseteq {NoPts}
  BY <1>1, <1>2 DEF PtsMax, PtsMin
<1>3. CASE ~(T \subseteq {NoPts})
  <2> DEFINE U == T \ {NoPts}
  <2>1. U \in SUBSET Int /\ U # {}
    BY <1>3 DEF Bounded
  <2>2. PICK b \in Nat : \A t \in U : -b <= t /\ t <= b
    BY DEF Bounded
  <2>3. Max(U) \in U /\ Min(U) \in U
    BY <2>1, <2>2, Extremes
  <2>4. PtsMax(T) = Max(U) /\ PtsMin(T) = Min(U)
    BY <1>3 DEF PtsMax, PtsMin
  <2>. QED BY <2>1, <2>3, <2>4
<1>. QED BY <1>2, <1>3

(* One number more.                                                        *)
LEMMA BoundedAdd ==
  ASSUME NEW T, Bounded(T), NEW v \in Int
  PROVE  Bounded({v} \cup T)
<1>1. PICK b \in Nat : \A t \in T : -b <= t /\ t <= b
  BY DEF Bounded
<1> DEFINE c == IF v > b THEN v ELSE IF v < -b THEN -v ELSE b
<1>2. c \in Nat /\ c >= b /\ -c <= v /\ v <= c
  OBVIOUS
<1>. HIDE DEF c
<1>3. \A t \in {v} \cup T : t \in Int /\ -c <= t /\ t <= c
  BY <1>1, <1>2 DEF Bounded
<1>. QED BY <1>2, <1>3 DEF Bounded

(* The values of f at some of the positions.                               *)
LEMMA BoundedImage ==
  ASSUME NEW m \in Nat, NEW f, \A i \in 1 .. m : f[i] \in Int,
         NEW S \in SUBSET (1 .. m), NEW T, \A t \in T : \E i \in S : t = f[i]
  PROVE  Bounded(T)
<1>1. PICK b \in Nat : \A i \in 1 .. m : -b <= f[i] /\ f[i] <= b
  BY Bounds
<1>2. \A t \in T : t \in Int /\ -b <= t /\ t <= b
  BY <1>1
<1>. QED BY <1>2 DEF Bounded

(* The position where f is least.                                          *)
LEMMA LeastValue ==
  ASSUME NEW m \in Nat, NEW f, \A i \in 1 .. m : f[i] \in Int,
         NEW S \in SUBSET (1 .. m), S # {}
  PROVE  \E n \in S : \A i \in S : f[n] <= f[i]
<1> DEFINE T == {f[i] : i \in S}
<1>1. T \in SUBSET Int /\ T # {}
  OBVIOUS
<1>2. PICK b \in Nat : \A i \in 1 .. m : -b <= f[i] /\ f[i] <= b
  BY Bounds
<1>3. \A t \in T : -b <= t /\ t <= b
  BY <1>2
<1>4. Min(T) \in T /\ \A t \in T : Min(T) <= t
  BY <1>1, <1>3, Extremes
<1>. QED BY <1>4

(* A sequence of numbers in their order.                                   *)
Increasing(s) == \A i, j \in DOMAIN s : i < j => s[i] < s[j]

(* There is such a list of every set of positions, by induction on their   *)
(* number.                                                                 *)
LEMMA Enumeration ==
  ASSUME NEW m \in Nat, NEW S \in SUBSET (1 .. m)
  PROVE  /\ Cardinality(S) \in Nat
         /\ InOrder(S) \in [1 .. Cardinality(S) -> S] /\ Increasing(InOrder(S))
<1> DEFINE P == {k \in Nat : \A A \in SUBSET (1 .. k) :
                   /\ IsFiniteSet(A) /\ Cardinality(A) \in Nat
                   /\ \E s \in [1 .. Cardinality(A) -> A] : Increasing(s)}
<1>1. 0 \in P
  <2>. SUFFICES ASSUME NEW A \in SUBSET (1 .. 0)
                PROVE  /\ IsFiniteSet(A) /\ Cardinality(A) \in Nat
                       /\ \E s \in [1 .. Cardinality(A) -> A] : Increasing(s)
    OBVIOUS
  <2>1. 1 .. 0 = {}
    OBVIOUS
  <2>2. A = {}
    BY <2>1
  <2>3. IsFiniteSet(A) /\ Cardinality(A) = 0
    BY <2>2, FS_EmptySet
  <2> DEFINE s == [i \in {} |-> 0]
  <2>4. s \in [1 .. Cardinality(A) -> A]
    BY <2>1, <2>3
  <2>5. Increasing(s)
    <3>1. DOMAIN s = {}
      OBVIOUS
    <3>2. \A i, j \in DOMAIN s : i < j => s[i] < s[j]
      BY <3>1
    <3>. HIDE DEF s
    <3>. QED BY <3>2 DEF Increasing
  <2>. HIDE DEF s
  <2>6. \E f \in [1 .. Cardinality(A) -> A] : Increasing(f)
    BY <2>4, <2>5
  <2>7. Cardinality(A) \in Nat
    BY <2>3
  <2>. QED BY <2>3, <2>6, <2>7
<1>2. ASSUME NEW k \in Nat, k \in P PROVE k + 1 \in P
  <2>. SUFFICES ASSUME NEW A \in SUBSET (1 .. k + 1)
                PROVE  /\ IsFiniteSet(A) /\ Cardinality(A) \in Nat
                       /\ \E s \in [1 .. Cardinality(A) -> A] : Increasing(s)
    OBVIOUS
  <2> DEFINE B == A \ {k + 1}
  <2>1. B \in SUBSET (1 .. k)
    OBVIOUS
  <2>2. /\ IsFiniteSet(B) /\ Cardinality(B) \in Nat
        /\ \E s \in [1 .. Cardinality(B) -> B] : Increasing(s)
    BY <1>2, <2>1
  <2>3. PICK s \in [1 .. Cardinality(B) -> B] : Increasing(s)
    BY <2>2
  <2>4. CASE k + 1 \notin A
    <3>1. A = B
      BY <2>4
    <3>. QED BY <2>2, <3>1
  <2>5. CASE k + 1 \in A
    <3> DEFINE n == Cardinality(B)
    <3>1. IsFiniteSet(A) /\ Cardinality(A) = n + 1 /\ n \in Nat
      <4>1. /\ IsFiniteSet(B \cup {k + 1})
            /\ Cardinality(B \cup {k + 1}) = Cardinality(B) + 1
        BY <2>2, FS_AddElement
      <4>2. A = B \cup {k + 1}
        BY <2>5
      <4>. QED BY <2>2, <4>1, <4>2
    <3>. HIDE DEF n
    <3> DEFINE t == [i \in 1 .. n + 1 |-> IF i = n + 1 THEN k + 1 ELSE s[i]]
    <3>2. s \in [1 .. n -> B] /\ \A i, j \in 1 .. n : i < j => s[i] < s[j]
      BY <2>3 DEF Increasing, n
    <3>. HIDE DEF B
    <3>3. B \subseteq A /\ \A x \in B : x < k + 1
      BY <2>1 DEF B
    <3>4. t \in [1 .. n + 1 -> A]
      <4>1. ASSUME NEW i \in 1 .. n + 1
            PROVE  (IF i = n + 1 THEN k + 1 ELSE s[i]) \in A
        <5>1. i # n + 1 => i \in 1 .. n
          BY <3>1
        <5>2. i # n + 1 => s[i] \in B
          BY <3>2, <5>1
        <5>. QED BY <2>5, <3>3, <5>2
      <4>. QED BY <4>1
    <3>5. ASSUME NEW i \in 1 .. n + 1, NEW j \in 1 .. n + 1, i < j
          PROVE  t[i] < t[j]
      <4>1. i \in 1 .. n /\ t[i] = s[i]
        BY <3>1, <3>5
      <4>2. CASE j = n + 1
        BY <3>2, <3>3, <4>1, <4>2
      <4>3. CASE j \in 1 .. n
        BY <3>1, <3>2, <3>5, <4>1, <4>3
      <4>. QED BY <3>1, <4>2, <4>3
    <3>6. Increasing(t)
      BY <3>5 DEF Increasing
    <3>. QED BY <3>1, <3>4, <3>6
  <2>. QED BY <2>4, <2>5
<1>3. m \in P
  <2>. HIDE DEF P
  <2>. QED BY <1>1, <1>2, Induction
<1>4. /\ Cardinality(S) \in Nat
      /\ \E s \in [1 .. Cardinality(S) -> S] : Increasing(s)
  BY <1>3
<1>. QED BY <1>4, Zenon DEF InOrder, Increasing


-----------------------------------------------------------------------------
(* What CacheAssumption says of the file, for the steps below: the packets *)
(* of a stream are in the order of their times.                            *)
LEMMA FileFacts ==
  /\ Len(File) \in Nat /\ DOMAIN File = 1 .. Len(File)
  /\ NumStreams \in Nat \ {0} /\ Streams = 1 .. NumStreams
  /\ \A i \in DOMAIN File : /\ File[i].stream \in Streams /\ File[i].time \in Nat
                            /\ File[i].keyframe \in BOOLEAN
  /\ \A i, j \in DOMAIN File :
       File[i].stream = File[j].stream =>
         (i < j <=> File[i].time < File[j].time)
<1>1. /\ Len(File) \in Nat /\ DOMAIN File = 1 .. Len(File)
      /\ \A i \in DOMAIN File :
           File[i] \in [stream : Streams, time : Nat, keyframe : BOOLEAN]
  <2> DEFINE P == [stream : Streams, time : Nat, keyframe : BOOLEAN]
  <2>1. File \in Seq(P)
    BY CacheAssumption
  <2>. HIDE DEF P
  <2>2. Len(File) \in Nat /\ DOMAIN File = 1 .. Len(File)
    BY <2>1, LenProperties
  <2>3. \A i \in DOMAIN File : File[i] \in P
    BY <2>1, <2>2, ElementOfSeq
  <2>. QED BY <2>2, <2>3 DEF P
<1>2. \A i \in DOMAIN File : /\ File[i].stream \in Streams /\ File[i].time \in Nat
                             /\ File[i].keyframe \in BOOLEAN
  BY <1>1
<1>3. ASSUME NEW i \in DOMAIN File, NEW j \in DOMAIN File,
             File[i].stream = File[j].stream
      PROVE  i < j <=> File[i].time < File[j].time
  <2>1. i < j => File[i].time < File[j].time
    BY <1>3, CacheAssumption
  <2>2. j < i => File[j].time < File[i].time
    BY <1>3, CacheAssumption
  <2>3. i \in Int /\ j \in Int /\ File[i].time \in Nat /\ File[j].time \in Nat
    BY <1>1, <1>2
  <2>4. i = j => File[i].time = File[j].time
    OBVIOUS
  <2>. QED BY <2>1, <2>2, <2>3, <2>4
<1>. QED BY <1>1, <1>2, <1>3, CacheAssumption DEF Streams

(* What a queue of packets is made of.                                     *)
LEMMA QueueTypes ==
  ASSUME NEW q \in Queues
  PROVE  /\ q.packets \in Seq(Packets) /\ Len(q.packets) \in Nat
         /\ DOMAIN q.packets = 1 .. Len(q.packets)
         /\ \A i \in 1 .. Len(q.packets) :
              /\ q.packets[i] \in Packets
              /\ q.packets[i].at \in DOMAIN File /\ q.packets[i].at \in Nat
              /\ Time(q.packets[i]) \in Nat
              /\ q.packets[i].kf_seek_pts \in Int
         /\ q.index \in Seq(Int) /\ Len(q.index) \in Nat
         /\ DOMAIN q.index = 1 .. Len(q.index)
         /\ \A i \in 1 .. Len(q.index) : q.index[i] \in Int
         /\ q.packets = <<>> <=> Len(q.packets) = 0
<1>1. q.packets \in Seq(Packets) /\ q.index \in Seq(Int)
  BY DEF Queues, QueueRecords
<1>2. /\ Len(q.packets) \in Nat /\ DOMAIN q.packets = 1 .. Len(q.packets)
      /\ Len(q.index) \in Nat /\ DOMAIN q.index = 1 .. Len(q.index)
  BY <1>1, LenProperties
<1>3. ASSUME NEW i \in 1 .. Len(q.packets)
      PROVE  /\ q.packets[i] \in Packets
             /\ q.packets[i].at \in DOMAIN File /\ q.packets[i].at \in Nat
             /\ Time(q.packets[i]) \in Nat
             /\ q.packets[i].kf_seek_pts \in Int
  <2>1. q.packets[i] \in Packets
    BY <1>1, ElementOfSeq
  <2>2. q.packets[i].at \in DOMAIN File /\ q.packets[i].kf_seek_pts \in Int
    BY <2>1 DEF Packets
  <2>. QED BY <2>1, <2>2, FileFacts DEF Time
<1>4. \A i \in 1 .. Len(q.index) : q.index[i] \in Int
  BY <1>1, ElementOfSeq
<1>5. q.packets = <<>> <=> Len(q.packets) = 0
  BY <1>1, EmptySeq
<1>. QED BY <1>1, <1>2, <1>3, <1>4, <1>5

(* Numbers in their order.                                                 *)
Ascending(m, f) == /\ \A i \in 1 .. m : f[i] \in Int
                   /\ \A i, j \in 1 .. m : i < j => f[i] < f[j]
Splits(k, m, f, n) == \A i \in 1 .. m : f[i] <= n <=> i <= k

(* Those that are not beyond n are the first of them.                      *)
LEMMA FirstEntries ==
  ASSUME NEW m \in Nat, NEW f, Ascending(m, f), NEW n \in Int
  PROVE  \E k \in 0 .. m : Splits(k, m, f, n)
<1> USE DEF Ascending, Splits
<1> DEFINE G == {i \in 1 .. m : f[i] <= n}
<1>1. CASE G = {}
  <2>1. \A i \in 1 .. m : ~(f[i] <= n) /\ ~(i <= 0)
    BY <1>1
  <2>. QED BY <2>1
<1>2. CASE G # {}
  <2> DEFINE k == Max(G)
  <2>1. G \in SUBSET Int /\ \A t \in G : -m <= t /\ t <= m
    OBVIOUS
  <2>2. k \in G /\ \A t \in G : k >= t
    BY <1>2, <2>1, Extremes
  <2>. HIDE DEF k
  <2>3. k \in 1 .. m /\ f[k] <= n
    BY <2>2
  <2>4. ASSUME NEW i \in 1 .. m PROVE f[i] <= n <=> i <= k
    <3>1. f[i] <= n => i <= k
      BY <2>2
    <3>2. i <= k => i = k \/ f[i] < f[k]
      BY <2>3
    <3>3. f[i] \in Int /\ f[k] \in Int
      BY <2>3
    <3>. QED BY <2>3, <3>1, <3>2, <3>3
  <2>5. k \in 0 .. m
    BY <2>3
  <2>. QED BY <2>4, <2>5
<1>. QED BY <1>1, <1>2

(* Less packets of a queue at its end or the same packets with other data. *)
LEMMA HeadRemoved ==
  ASSUME NEW q \in Queues, NEW n \in Nat, NEW r, r = RemoveHead(q, n)
  PROVE  /\ r \in Queues
         /\ Len(r.packets) = IF n < Len(q.packets) THEN Len(q.packets) - n ELSE 0
         /\ \A i \in 1 .. Len(r.packets) : r.packets[i] = q.packets[i + n]
         /\ r.last_dts = q.last_dts /\ r.correct = q.correct
         /\ r.keyframe_latest \in Nat /\ r.keyframe_pts = q.keyframe_pts
         /\ r.keyframe_latest # 0 =>
              /\ q.keyframe_latest # 0
              /\ r.packets[r.keyframe_latest] = q.packets[q.keyframe_latest]
<1> DEFINE G == {i \in DOMAIN q.index : q.index[i] <= n}
           gone == Cardinality(G)
           m == Len(q.index)
           l == Len(q.packets)
           kept == SubSeq(q.index, gone + 1, m)
           index == [i \in DOMAIN kept |-> kept[i] - n]
           packets == SubSeq(q.packets, n + 1, l)
           Shift(p) == IF p <= n THEN 0 ELSE p - n
           kf == q.keyframe_latest
<1>1. /\ l \in Nat /\ m \in Nat /\ DOMAIN q.index = 1 .. m
      /\ \A i \in 1 .. m : q.index[i] \in Int
      /\ \A i \in 1 .. l : q.packets[i] \in Packets
      /\ q.next_prune_target \in Nat /\ kf \in Nat
  BY QueueTypes DEF Queues, QueueRecords
<1>2. /\ \A i \in 1 .. m : /\ q.index[i] \in 1 .. l
                           /\ q.packets[q.index[i]].kf_seek_pts # NoPts
                           /\ kf # 0 => q.index[i] <= kf
      /\ \A i, j \in 1 .. m : i < j => q.index[i] < q.index[j]
  BY <1>1 DEF Queues, IndexIn
<1>3. gone \in 0 .. m /\ \A i \in 1 .. m : q.index[i] <= n <=> i <= gone
  <2> DEFINE f == q.index
  <2>1. G = {i \in 1 .. m : f[i] <= n}
    BY <1>1
  <2>2. Ascending(m, f)
    BY <1>1, <1>2 DEF Ascending
  <2>3. m \in Nat /\ n \in Int
    BY <1>1
  <2>. HIDE DEF G, m, f, index, packets, kept, gone, kf
  <2>4. PICK k \in 0 .. m : Splits(k, m, f, n)
    BY <2>2, <2>3, FirstEntries
  <2>5. G = 1 .. k
    BY <1>1, <2>1, <2>4 DEF Splits
  <2>6. Cardinality(1 .. k) = k
    BY <1>1, FS_Interval
  <2>7. gone = k
    BY <2>5, <2>6 DEF gone
  <2>. QED BY <2>4, <2>7 DEF f, Splits
<1>. HIDE DEF gone
<1>4. /\ kept \in Seq(Int) /\ Len(kept) = m - gone
      /\ \A i \in 1 .. m - gone : kept[i] = q.index[gone + i]
  <2>1. \A i \in gone + 1 .. m : q.index[i] \in Int
    BY <1>1, <1>3
  <2>2. /\ kept \in Seq(Int)
        /\ Len(kept) = IF gone + 1 <= m THEN m - (gone + 1) + 1 ELSE 0
        /\ \A i \in 1 .. m - (gone + 1) + 1 : kept[i] = q.index[(gone + 1) + i - 1]
    BY <1>1, <1>3, <2>1, SubSeqProperties
  <2>. HIDE DEF kept, m
  <2>3. Len(kept) = m - gone
    BY <1>1, <1>3, <2>2
  <2>4. \A i \in 1 .. m - gone : (gone + 1) + i - 1 = gone + i
    BY <1>1, <1>3
  <2>5. m - (gone + 1) + 1 = m - gone
    BY <1>1, <1>3
  <2>. QED BY <2>2, <2>3, <2>4, <2>5
<1>5. /\ index \in Seq(Int) /\ DOMAIN index = 1 .. m - gone
      /\ \A i \in 1 .. m - gone : /\ index[i] = q.index[gone + i] - n
                                  /\ gone + i \in 1 .. m /\ gone + i > gone
  <2>. HIDE DEF kept, m
  <2>1. DOMAIN kept = 1 .. m - gone /\ m - gone \in Nat
    BY <1>1, <1>3, <1>4, LenProperties
  <2>2. \A i \in 1 .. m - gone : gone + i \in 1 .. m /\ gone + i > gone
    BY <1>1, <1>3
  <2>3. index \in [1 .. m - gone -> Int]
    BY <1>1, <1>4, <2>1, <2>2
  <2>4. index \in Seq(Int)
    BY <2>1, <2>3, FunctionIsSeq
  <2>. QED BY <1>4, <2>1, <2>2, <2>4
<1>6. /\ packets \in Seq(Packets)
      /\ Len(packets) = IF n < l THEN l - n ELSE 0
      /\ \A i \in 1 .. Len(packets) : packets[i] = q.packets[i + n]
  <2>1. \A i \in n + 1 .. l : q.packets[i] \in Packets
    BY <1>1
  <2>2. /\ packets \in Seq(Packets)
        /\ Len(packets) = IF n + 1 <= l THEN l - (n + 1) + 1 ELSE 0
        /\ \A i \in 1 .. l - (n + 1) + 1 : packets[i] = q.packets[(n + 1) + i - 1]
    BY <1>1, <2>1, SubSeqProperties
  <2>. HIDE DEF packets, l
  <2>3. Len(packets) = IF n < l THEN l - n ELSE 0
    BY <1>1, <2>2
  <2>4. ASSUME NEW i \in 1 .. Len(packets) PROVE packets[i] = q.packets[i + n]
    <3>1. packets[i] = q.packets[(n + 1) + i - 1]
      BY <1>1, <2>2
    <3>2. i \in Int
      BY <1>1, <2>3
    <3>. QED BY <3>1, <3>2
  <2>. QED BY <2>2, <2>3, <2>4
<1>7. /\ Shift(q.next_prune_target) \in Nat /\ Shift(kf) \in Nat
      /\ Shift(kf) # 0 => kf > n /\ Shift(kf) = kf - n
  BY <1>1
<1>8. r = [q EXCEPT !.packets = packets,
                    !.next_prune_target = Shift(q.next_prune_target),
                    !.keyframe_latest = Shift(kf),
                    !.index = index]
  BY DEF RemoveHead, gone
<1>9. q.next_prune_target <= l /\ kf <= l
      /\ (kf # 0 => Keyframe(q.packets[kf]) /\ q.keyframe_pts # NoPts)
      /\ q.index_distance > 0
  BY DEF Queues, PointersIn, IndexIn
<1>10. Shift(q.next_prune_target) <= Len(packets) /\ Shift(kf) <= Len(packets)
  <2>1. Len(packets) = IF n < l THEN l - n ELSE 0
    BY <1>6
  <2>2. /\ q.next_prune_target \in Nat /\ kf \in Nat /\ l \in Nat
        /\ q.next_prune_target <= l /\ kf <= l
    BY <1>1, <1>9
  <2>. HIDE DEF packets, l, kf
  <2>. QED BY <2>1, <2>2
<1>. HIDE DEF packets, index, Shift, kf
<1>11. /\ r \in QueueRecords /\ r.packets = packets /\ r.index = index
       /\ r.next_prune_target = Shift(q.next_prune_target)
       /\ r.keyframe_latest = Shift(kf) /\ r.keyframe_pts = q.keyframe_pts
       /\ r.index_distance = q.index_distance
       /\ r.last_dts = q.last_dts /\ r.correct = q.correct
  BY <1>5, <1>6, <1>7, <1>8 DEF Queues, QueueRecords
<1>. HIDE DEF l, m
<1>16. ASSUME r.keyframe_latest # 0
       PROVE  r.packets[r.keyframe_latest] = q.packets[kf] /\ kf # 0
  <2>1. kf - n \in 1 .. Len(packets) /\ (kf - n) + n = kf /\ kf # 0
    BY <1>1, <1>7, <1>10, <1>11, <1>16
  <2>. QED BY <1>6, <1>7, <1>11, <1>16, <2>1
<1>12. PointersIn(r)
  BY <1>9, <1>10, <1>11, <1>16 DEF PointersIn
<1>13. ASSUME NEW i \in 1 .. m - gone
       PROVE  /\ index[i] \in 1 .. Len(packets)
              /\ packets[index[i]].kf_seek_pts # NoPts
              /\ Shift(kf) # 0 => index[i] <= Shift(kf)
  <2> DEFINE e == q.index[gone + i]
  <2>1. gone + i \in 1 .. m /\ gone + i > gone /\ index[i] = e - n /\ gone \in Nat
    BY <1>3, <1>5
  <2>2. e \in 1 .. l /\ q.packets[e].kf_seek_pts # NoPts /\ (kf # 0 => e <= kf)
    BY <1>2, <2>1
  <2>3. e > n
    BY <1>1, <1>3, <2>1
  <2>. HIDE DEF e
  <2>4. e - n \in 1 .. Len(packets) /\ (e - n) + n = e
    BY <1>1, <1>6, <2>2, <2>3
  <2>5. packets[e - n] = q.packets[e]
    BY <1>6, <2>4
  <2>6. Shift(kf) # 0 => e - n <= Shift(kf)
    BY <1>1, <1>7, <2>2
  <2>. QED BY <2>1, <2>2, <2>4, <2>5, <2>6
<1>14. ASSUME NEW i \in 1 .. m - gone, NEW j \in 1 .. m - gone, i < j
       PROVE  index[i] < index[j]
  <2>1. gone + i \in 1 .. m /\ gone + j \in 1 .. m /\ gone + i < gone + j
    BY <1>1, <1>3, <1>5, <1>14
  <2>2. q.index[gone + i] < q.index[gone + j]
    BY <1>2, <2>1
  <2>3. q.index[gone + i] \in Int /\ q.index[gone + j] \in Int
    BY <1>1, <2>1
  <2>. QED BY <1>5, <2>2, <2>3
<1>15. IndexIn(r)
  BY <1>5, <1>9, <1>11, <1>13, <1>14 DEF IndexIn
<1>. QED BY <1>6, <1>7, <1>11, <1>12, <1>15, <1>16 DEF Queues, l, kf

(* What is left after the first n packets fits as well.                    *)
LEMMA HeadRemovedFits ==
  ASSUME NEW s, NEW on \in BOOLEAN, NEW q, QueueFit(q, s, on), NEW n \in Nat
  PROVE  QueueFit(RemoveHead(q, n), s, on)
<1> DEFINE r == RemoveHead(q, n)
<1>1. q \in Queues
  BY DEF QueueFit
<1>2. /\ r \in Queues
      /\ Len(r.packets) = IF n < Len(q.packets) THEN Len(q.packets) - n ELSE 0
      /\ \A i \in 1 .. Len(r.packets) : r.packets[i] = q.packets[i + n]
      /\ r.last_dts = q.last_dts /\ r.correct = q.correct
      /\ r.keyframe_pts = q.keyframe_pts
      /\ r.keyframe_latest # 0 =>
           /\ q.keyframe_latest # 0
           /\ r.packets[r.keyframe_latest] = q.packets[q.keyframe_latest]
  BY <1>1, HeadRemoved
<1>. HIDE DEF r
<1>3. Len(q.packets) \in Nat /\ DOMAIN q.packets = 1 .. Len(q.packets)
  BY <1>1, QueueTypes
<1>4. DOMAIN r.packets = 1 .. Len(r.packets) /\ (r.packets = <<>> <=> Len(r.packets) = 0)
  BY <1>2, QueueTypes
<1>5. ASSUME Media(s) PROVE InFileOrder(r, s)
  <2>0. InFileOrder(q, s)
    BY <1>5 DEF QueueFit
  <2>1. r.correct
    BY <1>2, <2>0 DEF InFileOrder
  <2>2. ASSUME NEW i \in DOMAIN r.packets
        PROVE  i + n \in DOMAIN q.packets /\ r.packets[i] = q.packets[i + n] /\ i \in Int
    BY <1>2, <1>3, <1>4
  <2>3. \A i \in DOMAIN r.packets : File[r.packets[i].at].stream = s
    BY <2>0, <2>2 DEF InFileOrder
  <2>4. \A i, j \in DOMAIN r.packets : i < j => r.packets[i].at < r.packets[j].at
    BY <2>0, <2>2 DEF InFileOrder
  <2>5. r.packets # <<>> => r.last_dts = Time(Last(r.packets))
    <3>. SUFFICES ASSUME r.packets # <<>> PROVE r.last_dts = Time(Last(r.packets))
      OBVIOUS
    <3>1. Len(r.packets) \in DOMAIN r.packets /\ Len(r.packets) + n = Len(q.packets)
      BY <1>2, <1>3, <1>4
    <3>2. Last(r.packets) = Last(q.packets)
      BY <2>2, <3>1 DEF Last
    <3>3. q.packets # <<>>
      BY <1>1, <1>3, <3>1, <1>4, QueueTypes
    <3>. QED BY <1>2, <2>0, <3>2, <3>3 DEF InFileOrder
  <2>6. Dated(r)
    <3>1. Dated(q)
      BY <2>0 DEF InFileOrder
    <3>2. ASSUME NEW i \in DOMAIN r.packets
          PROVE  r.packets[i].kf_seek_pts \in {NoPts, Time(r.packets[i])}
      BY <2>2, <3>1 DEF Dated
    <3>3. r.keyframe_latest # 0 => r.keyframe_pts = Time(r.packets[r.keyframe_latest])
      BY <1>2, <3>1 DEF Dated
    <3>. QED BY <3>2, <3>3 DEF Dated
  <2>. QED BY <2>1, <2>3, <2>4, <2>5, <2>6 DEF InFileOrder
<1>6. ASSUME ~on PROVE Fresh(r)
  BY <1>1, <1>2, <1>3, <1>4, <1>6, QueueTypes DEF QueueFit, Fresh
<1>. QED BY <1>2, <1>5, <1>6 DEF QueueFit, r

(* The same packets, whatever else is noted of them.                       *)
Same(q, r) ==
  /\ Len(r.packets) = Len(q.packets)
  /\ \A i \in 1 .. Len(q.packets) : r.packets[i].at = q.packets[i].at
  /\ r.last_dts = q.last_dts

(* A queue fits if another one fits that has the same packets.             *)
LEMMA SameFits ==
  ASSUME NEW s, NEW on \in BOOLEAN, NEW q, QueueFit(q, s, on),
         NEW r \in Queues, Same(q, r), r.correct = q.correct,
         Media(s) => Dated(r)
  PROVE  QueueFit(r, s, on)
<1>1. q \in Queues
  BY DEF QueueFit
<1>2. /\ Len(q.packets) \in Nat /\ DOMAIN q.packets = 1 .. Len(q.packets)
      /\ DOMAIN r.packets = 1 .. Len(q.packets) /\ Len(r.packets) = Len(q.packets)
      /\ r.packets = <<>> <=> q.packets = <<>>
      /\ q.packets = <<>> <=> Len(q.packets) = 0
  BY <1>1, QueueTypes DEF Same
<1>3. ASSUME Media(s) PROVE InFileOrder(r, s)
  <2>1. InFileOrder(q, s)
    BY <1>3 DEF QueueFit
  <2>2. r.packets # <<>> => r.last_dts = Time(Last(r.packets))
    <3>. SUFFICES ASSUME r.packets # <<>> PROVE r.last_dts = Time(Last(r.packets))
      OBVIOUS
    <3>1. Len(q.packets) \in 1 .. Len(q.packets)
      BY <1>2
    <3>2. Last(r.packets).at = Last(q.packets).at
      BY <1>2, <3>1 DEF Last, Same
    <3>. QED BY <1>2, <2>1, <3>2 DEF InFileOrder, Same, Time
  <2>3. \A i \in DOMAIN r.packets : File[r.packets[i].at].stream = s
    BY <1>2, <2>1 DEF InFileOrder, Same
  <2>4. \A i, j \in DOMAIN r.packets : i < j => r.packets[i].at < r.packets[j].at
    BY <1>2, <2>1 DEF InFileOrder, Same
  <2>5. Dated(r)
    BY <1>3
  <2>. QED BY <2>1, <2>2, <2>3, <2>4, <2>5 DEF InFileOrder
<1>4. ASSUME ~on PROVE Fresh(r)
  BY <1>2, <1>4 DEF QueueFit, Fresh, Same
<1>. QED BY <1>3, <1>4 DEF QueueFit

(* clear_queue() leaves a queue ...                                        *)
LEMMA EmptyQueueType == EmptyQueue \in Queues
<1>1. <<>> \in Seq(Packets) /\ <<>> \in Seq(Int) /\ Len(<<>>) = 0 /\ DOMAIN <<>> = {}
  BY EmptySeq
<1>2. EmptyQueue \in QueueRecords
  BY <1>1 DEF EmptyQueue, QueueRecords, NoPts, Second
<1>3. PointersIn(EmptyQueue)
  BY <1>1 DEF EmptyQueue, PointersIn
<1>4. IndexIn(EmptyQueue)
  BY <1>1 DEF EmptyQueue, IndexIn, Second
<1>. QED BY <1>2, <1>3, <1>4 DEF Queues

(* ... that fits every stream, a disabled one too.                         *)
LEMMA EmptyFits ==
  ASSUME NEW s, NEW on \in BOOLEAN
  PROVE  QueueFit(EmptyQueue, s, on)
<1>2. EmptyQueue \in Queues
  BY EmptyQueueType
<1>3. EmptyQueue.packets = <<>> /\ EmptyQueue.last_dts = NoPts /\ EmptyQueue.correct
  BY DEF EmptyQueue
<1>4. DOMAIN EmptyQueue.packets = {}
  BY <1>3
<1>5. EmptyQueue.keyframe_latest = 0
  BY DEF EmptyQueue
<1>6. Dated(EmptyQueue)
  BY <1>4, <1>5 DEF Dated
<1>. QED BY <1>2, <1>3, <1>4, <1>6 DEF QueueFit, InFileOrder, Fresh
-----------------------------------------------------------------------------
(* Nothing but what is noted beside the packets differs.                   *)
Noted(q, r) == /\ r \in Queues /\ r.packets = q.packets
               /\ r.last_dts = q.last_dts /\ r.correct = q.correct
               /\ r.keyframe_latest = q.keyframe_latest
               /\ r.keyframe_pts = q.keyframe_pts

(* The index and the prune target are beside the packets.                  *)
LEMMA NotedSame ==
  ASSUME NEW q, NEW r, Noted(q, r)
  PROVE  Same(q, r) /\ (Dated(q) => Dated(r))
BY DEF Noted, Same, Dated

(* A packet that add_index_entry() may be called for: a closed keyframe,   *)
(* none before one that the index has.                                     *)
Addable(q, p) ==
  /\ p \in 1 .. Len(q.packets) /\ q.packets[p].kf_seek_pts # NoPts
  /\ q.keyframe_latest # 0 => p <= q.keyframe_latest
  /\ \A i \in DOMAIN q.index : q.index[i] <= p
Added(q, p, r) ==
  /\ Noted(q, r) /\ r.keyframe_latest = q.keyframe_latest
  /\ \A i \in DOMAIN r.index : r.index[i] <= p

(* A list of p and of entries of the index, in order.                      *)
FromIndex(q, p, index) ==
  /\ index \in Seq(Int)
  /\ \A i \in DOMAIN index : \/ index[i] = p
                             \/ \E j \in DOMAIN q.index : index[i] = q.index[j]
  /\ \A i, j \in DOMAIN index : i < j => index[i] < index[j]
WithIndex(q, index, d) == [q EXCEPT !.index = index, !.index_distance = d]

(* Such a list is an index as well.                                        *)
LEMMA IndexSet ==
  ASSUME NEW q \in Queues, NEW d \in Int, d > 0, NEW p, Addable(q, p),
         NEW index, FromIndex(q, p, index),
         NEW r, r = WithIndex(q, index, d)
  PROVE  Added(q, p, r)
<1>1. /\ r \in QueueRecords /\ r.packets = q.packets /\ r.index = index
      /\ r.next_prune_target = q.next_prune_target
      /\ r.keyframe_latest = q.keyframe_latest /\ r.keyframe_pts = q.keyframe_pts
      /\ r.index_distance = d
      /\ r.last_dts = q.last_dts /\ r.correct = q.correct
  BY DEF Queues, QueueRecords, FromIndex, WithIndex
<1>2. PointersIn(r)
  BY <1>1 DEF Queues, PointersIn
<1>3. IndexIn(q)
  BY DEF Queues
<1>4. \A i \in DOMAIN index : /\ index[i] \in 1 .. Len(q.packets)
                              /\ q.packets[index[i]].kf_seek_pts # NoPts
                              /\ q.keyframe_latest # 0 => index[i] <= q.keyframe_latest
                              /\ index[i] <= p
  <2>1. \A j \in DOMAIN q.index :
          /\ q.index[j] \in 1 .. Len(q.packets)
          /\ q.packets[q.index[j]].kf_seek_pts # NoPts
          /\ q.keyframe_latest # 0 => q.index[j] <= q.keyframe_latest
          /\ q.index[j] <= p
    BY <1>3 DEF IndexIn, Addable
  <2>2. /\ p \in 1 .. Len(q.packets) /\ q.packets[p].kf_seek_pts # NoPts
        /\ q.keyframe_latest # 0 => p <= q.keyframe_latest
        /\ p <= p
    BY QueueTypes DEF Addable
  <2>3. ASSUME NEW i \in DOMAIN index
        PROVE  index[i] = p \/ \E j \in DOMAIN q.index : index[i] = q.index[j]
    BY DEF FromIndex
  <2>. SUFFICES ASSUME NEW i \in DOMAIN index
                PROVE  /\ index[i] \in 1 .. Len(q.packets)
                       /\ q.packets[index[i]].kf_seek_pts # NoPts
                       /\ q.keyframe_latest # 0 => index[i] <= q.keyframe_latest
                       /\ index[i] <= p
    OBVIOUS
  <2>4. CASE index[i] = p
    BY <2>2, <2>4
  <2>5. CASE \E j \in DOMAIN q.index : index[i] = q.index[j]
    <3>1. PICK j \in DOMAIN q.index : index[i] = q.index[j]
      BY <2>5
    <3>. QED BY <2>1, <3>1
  <2>. QED BY <2>3, <2>4, <2>5
<1>5. IndexIn(r)
  BY <1>1, <1>4 DEF IndexIn, FromIndex
<1>. QED BY <1>1, <1>2, <1>4, <1>5 DEF Added, Noted, Queues

(* add_index_entry() changes nothing but the index ...                     *)
LEMMA IndexEntryAdded ==
  ASSUME NEW q \in Queues, NEW p, Addable(q, p), NEW r, r = AddIndexEntry(q, p)
  PROVE  Added(q, p, r)
<1> DEFINE half == [i \in 1 .. MaxIndex \div 2 |-> q.index[2 * i - 1]]
           m == Len(q.index)
           pts == q.packets[p].kf_seek_pts
<1>1. /\ m \in Nat /\ DOMAIN q.index = 1 .. m /\ q.index \in Seq(Int)
      /\ \A i \in 1 .. m : q.index[i] \in Int
      /\ q.index = <<>> <=> m = 0
  BY QueueTypes, EmptySeq
<1>2. /\ p \in Int /\ pts \in Int /\ q.index_distance \in Int /\ q.index_distance > 0
      /\ \A i \in 1 .. m : q.index[i] <= p
      /\ \A i, j \in 1 .. m : i < j => q.index[i] < q.index[j]
  <2>1. p \in Int /\ pts \in Int
    BY QueueTypes DEF Addable
  <2>2. q.index_distance \in Int
    BY DEF Queues, QueueRecords
  <2>. QED BY <1>1, <2>1, <2>2 DEF Addable, Queues, IndexIn
<1>. HIDE DEF m
<1>3. CASE r = q
  BY <1>3 DEF Noted, Added, Addable
<1>4. CASE r # q
  <2>1. \A i \in 1 .. m : q.index[i] < p
    <3>1. CASE m = 0
      BY <3>1
    <3>2. CASE m # 0
      <4>1. m \in 1 .. m /\ q.index # <<>> /\ Last(q.index) = q.index[m]
        BY <1>1, <3>2 DEF Last, m
      <4>2. q.index[m] # p
        <5>. SUFFICES ASSUME q.index[m] = p PROVE FALSE
          OBVIOUS
        <5>1. pts < q.packets[Last(q.index)].kf_seek_pts + q.index_distance
          BY <1>2, <4>1
        <5>. QED BY <1>4, <4>1, <5>1 DEF AddIndexEntry
      <4>3. q.index[m] < p
        BY <1>1, <1>2, <4>1, <4>2
      <4>4. ASSUME NEW i \in 1 .. m PROVE q.index[i] <= q.index[m]
        <5>1. i = m \/ i < m
          BY <1>1
        <5>. QED BY <1>1, <1>2, <4>1, <5>1
      <4>. QED BY <1>1, <1>2, <4>1, <4>3, <4>4
    <3>. QED BY <3>1, <3>2
  <2>2. \/ r = [q EXCEPT !.index = Append(q.index, p)]
        \/ /\ ~(m < MaxIndex)
           /\ r = [q EXCEPT !.index = Append(half, p),
                            !.index_distance = 2 * q.index_distance]
    BY <1>4 DEF AddIndexEntry, m
  <2>3. CASE r = [q EXCEPT !.index = Append(q.index, p)]
    <3> DEFINE l == Append(q.index, p)
    <3>1. /\ l \in Seq(Int) /\ Len(l) = m + 1 /\ l[m + 1] = p
          /\ \A i \in 1 .. m : l[i] = q.index[i]
      BY <1>1, <1>2, AppendProperties DEF m
    <3>2. DOMAIN l = 1 .. m + 1
      BY <3>1, LenProperties
    <3>. HIDE DEF l
    <3>3. ASSUME NEW i \in DOMAIN l
          PROVE  l[i] = p \/ \E j \in DOMAIN q.index : l[i] = q.index[j]
      <4>1. i = m + 1 \/ i \in 1 .. m
        BY <1>1, <3>2
      <4>. QED BY <1>1, <3>1, <4>1
    <3>4. ASSUME NEW i \in DOMAIN l, NEW j \in DOMAIN l, i < j PROVE l[i] < l[j]
      <4>1. i \in 1 .. m /\ (j = m + 1 \/ j \in 1 .. m)
        BY <1>1, <3>2, <3>4
      <4>. QED BY <1>2, <2>1, <3>1, <3>4, <4>1
    <3>5. r = WithIndex(q, l, q.index_distance)
      BY <2>3 DEF Queues, QueueRecords, WithIndex, l
    <3>6. FromIndex(q, p, l)
      BY <3>1, <3>3, <3>4 DEF FromIndex
    <3>. QED BY <1>2, <3>5, <3>6, IndexSet
  <2>4. CASE /\ ~(m < MaxIndex)
             /\ r = [q EXCEPT !.index = Append(half, p),
                              !.index_distance = 2 * q.index_distance]
    <3> DEFINE h == MaxIndex \div 2
               l == Append(half, p)
    <3>1. MaxIndex \in Nat /\ h \in Nat /\ 2 * h <= MaxIndex
      BY CacheAssumption
    <3>. HIDE DEF h
    <3>2. \A i \in 1 .. h : 2 * i - 1 \in 1 .. m
      BY <1>1, <2>4, <3>1
    <3>3. half \in [1 .. h -> Int] /\ \A i \in 1 .. h : half[i] = q.index[2 * i - 1]
      BY <1>1, <3>2 DEF h
    <3>4. half \in Seq(Int) /\ Len(half) = h
      BY <3>1, <3>3, FunctionIsSeq
    <3>. HIDE DEF half
    <3>5. /\ l \in Seq(Int) /\ Len(l) = h + 1 /\ l[h + 1] = p
          /\ \A i \in 1 .. h : l[i] = half[i]
      BY <1>2, <3>4, AppendProperties
    <3>6. DOMAIN l = 1 .. h + 1
      BY <3>5, LenProperties
    <3>. HIDE DEF l
    <3>7. ASSUME NEW i \in DOMAIN l
          PROVE  l[i] = p \/ \E j \in DOMAIN q.index : l[i] = q.index[j]
      <4>1. i = h + 1 \/ i \in 1 .. h
        BY <3>1, <3>6
      <4>2. CASE i \in 1 .. h
        <5>1. l[i] = q.index[2 * i - 1] /\ 2 * i - 1 \in DOMAIN q.index
          BY <1>1, <3>2, <3>3, <3>5, <4>2
        <5>. QED BY <5>1
      <4>. QED BY <3>5, <4>1, <4>2
    <3>8. ASSUME NEW i \in DOMAIN l, NEW j \in DOMAIN l, i < j PROVE l[i] < l[j]
      <4>1. i \in 1 .. h /\ (j = h + 1 \/ j \in 1 .. h)
        BY <3>1, <3>6, <3>8
      <4>2. l[i] = q.index[2 * i - 1] /\ 2 * i - 1 \in 1 .. m
        BY <3>2, <3>3, <3>5, <4>1
      <4>3. CASE j = h + 1
        BY <2>1, <3>5, <4>2, <4>3
      <4>4. CASE j \in 1 .. h
        <5>1. l[j] = q.index[2 * j - 1] /\ 2 * j - 1 \in 1 .. m
              /\ 2 * i - 1 < 2 * j - 1
          BY <3>1, <3>2, <3>3, <3>5, <3>8, <4>1, <4>4
        <5>. QED BY <1>2, <4>2, <5>1
      <4>. QED BY <4>1, <4>3, <4>4
    <3>9. 2 * q.index_distance \in Int /\ 2 * q.index_distance > 0
      BY <1>2
    <3>10. r = WithIndex(q, l, 2 * q.index_distance)
      BY <2>4 DEF l, WithIndex
    <3>11. FromIndex(q, p, l)
      BY <3>5, <3>7, <3>8 DEF FromIndex
    <3>. QED BY <3>9, <3>10, <3>11, IndexSet
  <2>. QED BY <2>2, <2>3, <2>4
<1>. QED BY <1>3, <1>4

(* A list of positions that can be added to the index of q, moved by n.    *)
Placeable(q, index, n) ==
  /\ index \in Seq(Int)
  /\ \A i \in DOMAIN index :
       /\ n + index[i] \in 1 .. Len(q.packets)
       /\ q.packets[n + index[i]].kf_seek_pts # NoPts
       /\ q.keyframe_latest # 0 => n + index[i] <= q.keyframe_latest
  /\ \A i, j \in DOMAIN index : i < j => index[i] < index[j]
  /\ \A i \in DOMAIN q.index, j \in DOMAIN index : q.index[i] <= n + index[j]

(* What the first k of them leave.                                         *)
Grown(q, index, n, k, r) ==
  /\ Noted(q, r) /\ r.keyframe_latest = q.keyframe_latest
  /\ \A i \in DOMAIN r.index, j \in k + 1 .. Len(index) : r.index[i] <= n + index[j]

(* One more of them.                                                       *)
LEMMA IndexGrown ==
  ASSUME NEW q \in Queues, NEW n \in Int, NEW index, Placeable(q, index, n),
         NEW k \in Nat, k + 1 <= Len(index), NEW r, Grown(q, index, n, k, r),
         NEW t, t = AddIndexEntry(r, n + index[k + 1])
  PROVE  Grown(q, index, n, k + 1, t)
<1> DEFINE p == n + index[k + 1]
           m == Len(index)
<1>1. /\ m \in Nat /\ DOMAIN index = 1 .. m /\ \A i \in 1 .. m : index[i] \in Int
      /\ k + 1 \in 1 .. m /\ k + 1 \in k + 1 .. m
  <2>1. /\ m \in Nat /\ DOMAIN index = 1 .. m /\ \A i \in 1 .. m : index[i] \in Int
    BY LenProperties, ElementOfSeq DEF Placeable
  <2>2. k + 1 <= m
    OBVIOUS
  <2>. HIDE DEF m
  <2>. QED BY <2>1, <2>2
<1>2. /\ r \in Queues /\ r.packets = q.packets /\ r.keyframe_latest = q.keyframe_latest
      /\ Noted(q, r)
  BY DEF Grown, Noted
<1>3. \A i \in DOMAIN r.index : r.index[i] <= p
  BY <1>1 DEF Grown
<1>4. /\ p \in 1 .. Len(q.packets) /\ q.packets[p].kf_seek_pts # NoPts
      /\ q.keyframe_latest # 0 => p <= q.keyframe_latest
  BY <1>1 DEF Placeable
<1>. HIDE DEF m
<1>5. p \in Int
  BY <1>1
<1>6. ASSUME NEW j \in k + 2 .. m PROVE p < n + index[j] /\ n + index[j] \in Int
  <2>1. j \in 1 .. m /\ k + 1 < j
    BY <1>1
  <2>2. index[k + 1] < index[j]
    BY <1>1, <2>1 DEF Placeable
  <2>. QED BY <1>1, <2>1, <2>2
<1>7. (k + 1) + 1 = k + 2
  OBVIOUS
<1>8. t = AddIndexEntry(r, p)
  OBVIOUS
<1>. HIDE DEF p
<1>9. Addable(r, p)
  BY <1>2, <1>3, <1>4 DEF Addable
<1>10. Added(r, p, t)
  BY <1>2, <1>8, <1>9, IndexEntryAdded
<1>11. /\ Noted(q, t) /\ t.keyframe_latest = q.keyframe_latest
       /\ t.index \in Seq(Int)
       /\ \A i \in DOMAIN t.index : t.index[i] <= p
  BY <1>2, <1>10, QueueTypes DEF Added, Noted
<1>12. \A i \in DOMAIN t.index : t.index[i] \in Int
  BY <1>11, LenProperties, ElementOfSeq
<1>13. ASSUME NEW i \in DOMAIN t.index, NEW j \in k + 2 .. m
       PROVE  t.index[i] <= n + index[j]
  <2>1. p < n + index[j] /\ n + index[j] \in Int
    BY <1>6
  <2>2. t.index[i] <= p /\ t.index[i] \in Int
    BY <1>11, <1>12
  <2>. QED BY <1>5, <2>1, <2>2
<1>. QED BY <1>7, <1>11, <1>13 DEF Grown, m

(* ... and neither do several of its calls.                                *)
LEMMA IndexAdded ==
  ASSUME NEW q \in Queues, NEW n \in Int, NEW index, Placeable(q, index, n)
  PROVE  Noted(q, AddIndex(q, index, n))
<1> DEFINE m == Len(index)
           Step(f, i) == IF i = 0 THEN q ELSE AddIndexEntry(f[i - 1], n + index[i])
           G(f, k) == [i \in 0 .. k |-> Step(f, i)]
           P == {k \in Nat : k <= m => \E f : f = G(f, k)}
<1>1. m \in Nat
  BY LenProperties DEF Placeable
<1>. HIDE DEF m
<1>2. 0 \in P
  <2> DEFINE f == [i \in 0 .. 0 |-> q]
  <2>1. f = G(f, 0)
    <3>1. \A i \in 0 .. 0 : Step(f, i) = q
      OBVIOUS
    <3>. HIDE DEF Step
    <3>. QED BY <3>1
  <2>. QED BY <2>1
<1>3. ASSUME NEW k \in Nat, k \in P PROVE k + 1 \in P
  <2>. SUFFICES ASSUME k + 1 <= m PROVE \E f : f = G(f, k + 1)
    OBVIOUS
  <2>1. PICK f : f = G(f, k)
    BY <1>1, <1>3
  <2> DEFINE g == [i \in 0 .. k + 1 |->
                     IF i = k + 1 THEN AddIndexEntry(f[k], n + index[k + 1]) ELSE f[i]]
  <2>2. \A i \in 0 .. k : g[i] = f[i]
    OBVIOUS
  <2>3. g[k + 1] = AddIndexEntry(f[k], n + index[k + 1])
    OBVIOUS
  <2>4. DOMAIN g = 0 .. k + 1 /\ g = [i \in 0 .. k + 1 |-> g[i]]
    OBVIOUS
  <2>. HIDE DEF g
  <2>5. ASSUME NEW i \in 0 .. k + 1 PROVE g[i] = Step(g, i)
    <3>1. CASE i = k + 1
      <4>1. g[k] = f[k] /\ i - 1 = k /\ i # 0
        BY <2>2, <3>1
      <4>. QED BY <2>3, <3>1, <4>1
    <3>2. CASE i \in 0 .. k
      <4>1. f[i] = Step(f, i)
        <5>. HIDE DEF Step
        <5>. QED BY <2>1, <3>2
      <4>2. i # 0 => i - 1 \in 0 .. k
        BY <3>2
      <4>3. Step(g, i) = Step(f, i)
        BY <2>2, <4>2
      <4>. QED BY <2>2, <3>2, <4>1, <4>3
    <3>. QED BY <3>1, <3>2
  <2>6. g = G(g, k + 1)
    <3>. HIDE DEF Step
    <3>. QED BY <2>4, <2>5
  <2>. QED BY <2>6
<1>4. m \in P
  <2>. HIDE DEF P
  <2>. QED BY <1>1, <1>2, <1>3, Induction
<1>5. PICK f : f = G(f, m)
  BY <1>1, <1>4
<1> DEFINE h == CHOOSE x : x = G(x, m)
<1>6. AddIndex(q, index, n) = h[m]
  BY DEF AddIndex, m
<1>7. h = G(h, m)
  <2>1. \E x : x = G(x, m)
    BY <1>5
  <2>. HIDE DEF G
  <2>. QED BY <2>1
<1>. HIDE DEF h
<1>8. \A i \in 0 .. m : h[i] = Step(h, i)
  BY <1>7
<1> DEFINE Q == {k \in Nat : k <= m => Grown(q, index, n, k, h[k])}
<1>9. 0 \in Q
  <2>1. h[0] = q
    BY <1>1, <1>8
  <2>2. DOMAIN index = 1 .. m
    BY LenProperties DEF Placeable, m
  <2>3. Grown(q, index, n, 0, q)
    BY <2>2 DEF Grown, Noted, Placeable, m
  <2>. QED BY <2>1, <2>3
<1>10. ASSUME NEW k \in Nat, k \in Q PROVE k + 1 \in Q
  <2>. SUFFICES ASSUME k + 1 <= m PROVE Grown(q, index, n, k + 1, h[k + 1])
    OBVIOUS
  <2>1. Grown(q, index, n, k, h[k])
    BY <1>1, <1>10
  <2>2. h[k + 1] = AddIndexEntry(h[k], n + index[k + 1])
    BY <1>1, <1>8
  <2>. QED BY <2>1, <2>2, IndexGrown DEF m
<1>11. m \in Q
  <2>. HIDE DEF Q
  <2>. QED BY <1>1, <1>9, <1>10, Induction
<1>. QED BY <1>1, <1>6, <1>11 DEF Grown

(* What q2 has beyond q1: the packets after q1's last one.                 *)
Continues(q1, q2) ==
  q1.packets # <<>> =>
    /\ \A i \in DOMAIN q2.packets : q2.packets[i].at > Last(q1.packets).at
    /\ q2.packets = <<>> => q2.last_dts = q1.last_dts
    /\ q1.last_dts <= q2.last_dts

(* attempt_range_joining() for one stream: where it finds a point to join, *)
(* the packets that it keeps of q2 go on after the last one of q1.         *)
LEMMA JoinPointFits ==
  ASSUME NEW s \in Streams, NEW d \in DemuxStreams,
         Media(s) => d.eager = d.selected,
         NEW q1, NEW q2, QueueFit(q1, s, d.selected), QueueFit(q2, s, d.selected),
         NEW j, j = JoinPoint(d, q1, q2), j.ok
  PROVE  /\ QueueFit(j.rest, s, d.selected)
         /\ Media(s) => Continues(q1, j.rest)
<1> DEFINE end  == Last(q1.packets)
           stop == {p \in DOMAIN q2.packets :
                      p = q2.keyframe_latest \/ Time(q2.packets[p]) >= Time(end)}
           at   == Min(stop)
           n1 == Len(q1.packets)
           n2 == Len(q2.packets)
<1>1. q1 \in Queues /\ q2 \in Queues /\ d.selected \in BOOLEAN /\ d.eager \in BOOLEAN
  BY DEF QueueFit, DemuxStreams
<1>2. /\ n1 \in Nat /\ DOMAIN q1.packets = 1 .. n1 /\ (q1.packets = <<>> <=> n1 = 0)
      /\ n2 \in Nat /\ DOMAIN q2.packets = 1 .. n2 /\ (q2.packets = <<>> <=> n2 = 0)
  BY <1>1, QueueTypes
<1>3. CASE q1.packets = <<>>
  <2>1. j.rest = q2
    BY <1>3 DEF JoinPoint
  <2>. QED BY <1>3, <2>1 DEF Continues
<1>4. CASE q1.packets # <<>> /\ stop = {}
  <2>1. j.rest = RemoveHead(q2, n2) /\ ~d.eager
    BY <1>4 DEF JoinPoint
  <2>2. ~Media(s)
    BY <1>1, <1>4, <2>1 DEF QueueFit, Fresh
  <2>. QED BY <1>1, <1>2, <2>1, <2>2, HeadRemovedFits
<1>5. CASE q1.packets # <<>> /\ stop # {}
  <2>1. at \in stop /\ at \in 1 .. n2
    <3>1. stop \in SUBSET Nat
      BY <1>2
    <3>. QED BY <1>2, <1>5, <3>1, LeastNumber
  <2>. HIDE DEF at
  <2>2. \/ j.rest = RemoveHead(q2, at) /\ Time(q2.packets[at]) = Time(end)
        \/ j.rest = RemoveHead(q2, at - 1) /\ ~d.eager
    BY <1>5 DEF JoinPoint, at
  <2>3. CASE j.rest = RemoveHead(q2, at - 1) /\ ~d.eager
    <3>1. ~Media(s)
      BY <1>1, <1>5, <2>3 DEF QueueFit, Fresh
    <3>2. at - 1 \in Nat
      BY <2>1
    <3>. QED BY <1>1, <2>3, <3>1, <3>2, HeadRemovedFits
  <2>4. CASE j.rest = RemoveHead(q2, at) /\ Time(q2.packets[at]) = Time(end)
    <3>1. at \in Nat
      BY <2>1, <1>2
    <3>2. QueueFit(j.rest, s, d.selected)
      BY <1>1, <2>4, <3>1, HeadRemovedFits
    <3> DEFINE r == j.rest
    <3>3. /\ r \in Queues
          /\ Len(r.packets) = IF at < n2 THEN n2 - at ELSE 0
          /\ \A i \in 1 .. Len(r.packets) : r.packets[i] = q2.packets[i + at]
          /\ r.last_dts = q2.last_dts
      BY <1>1, <2>4, <3>1, HeadRemoved
    <3>. HIDE DEF r
    <3>4. DOMAIN r.packets = 1 .. Len(r.packets) /\ (r.packets = <<>> <=> Len(r.packets) = 0)
      BY <3>3, QueueTypes
    <3>5. ASSUME Media(s) PROVE Continues(q1, r)
      <4>1. InFileOrder(q1, s) /\ InFileOrder(q2, s)
        BY <3>5 DEF QueueFit
      <4>2. end = q1.packets[n1] /\ n1 \in DOMAIN q1.packets
        BY <1>2, <1>5 DEF Last
      <4>3. /\ end.at \in DOMAIN File /\ File[end.at].stream = s
            /\ q1.last_dts = Time(end)
        BY <1>1, <1>2, <1>5, <4>1, <4>2, QueueTypes DEF InFileOrder
      <4>4. q2.packets[at].at = end.at
        <5>1. q2.packets[at].at \in DOMAIN File /\ File[q2.packets[at].at].stream = s
          BY <1>1, <1>2, <2>1, <4>1, QueueTypes DEF InFileOrder
        <5>2. q2.packets[at].at \in Int /\ end.at \in Int
          BY <4>3, <5>1, FileFacts
        <5>3. /\ ~(q2.packets[at].at < end.at)
              /\ ~(end.at < q2.packets[at].at)
          <6> DEFINE a == q2.packets[at].at
                     b == end.at
          <6>1. /\ a \in DOMAIN File /\ b \in DOMAIN File
                /\ File[a].stream = File[b].stream /\ File[a].time = File[b].time
            BY <2>4, <4>3, <5>1 DEF Time
          <6>2. File[a].time \in Nat
            BY <6>1, FileFacts
          <6>. HIDE DEF a, b
          <6>3. ~(a < b) /\ ~(b < a)
            BY <6>1, <6>2, FileFacts
          <6>. QED BY <6>3 DEF a, b
        <5>. QED BY <5>2, <5>3
      <4>5. \A i \in DOMAIN r.packets : r.packets[i].at > end.at
        <5>. SUFFICES ASSUME NEW i \in DOMAIN r.packets PROVE r.packets[i].at > end.at
          OBVIOUS
        <5>1. i + at \in DOMAIN q2.packets /\ r.packets[i] = q2.packets[i + at]
              /\ at \in DOMAIN q2.packets /\ at < i + at
          BY <1>2, <2>1, <3>3, <3>4
        <5>2. q2.packets[at].at < q2.packets[i + at].at
          BY <4>1, <5>1 DEF InFileOrder
        <5>3. q2.packets[i + at].at \in Int /\ end.at \in Int
          BY <1>1, <1>2, <5>1, <4>3, QueueTypes, FileFacts
        <5>. QED BY <4>4, <5>1, <5>2, <5>3
      <4>6. /\ n2 \in DOMAIN q2.packets /\ q2.packets # <<>>
            /\ q2.last_dts = Time(q2.packets[n2])
        BY <1>2, <2>1, <4>1 DEF InFileOrder, Last
      <4>7. r.packets = <<>> => r.last_dts = q1.last_dts
        <5>. SUFFICES ASSUME r.packets = <<>> PROVE r.last_dts = q1.last_dts
          OBVIOUS
        <5>1. at = n2
          BY <1>2, <2>1, <3>3, <3>4
        <5>. QED BY <2>4, <3>3, <4>3, <4>6, <5>1
      <4>8. q1.last_dts <= r.last_dts
        <5>1. CASE at = n2
          <6>1. r.last_dts = q1.last_dts
            BY <2>4, <3>3, <4>3, <4>6, <5>1
          <6>2. q1.last_dts \in Int
            BY <1>1 DEF Queues, QueueRecords
          <6>. QED BY <6>1, <6>2
        <5>2. CASE at < n2
          <6>1. q2.packets[at].at < q2.packets[n2].at
            BY <1>2, <2>1, <4>1, <4>6, <5>2 DEF InFileOrder
          <6>2. Time(q2.packets[at]) < Time(q2.packets[n2])
            BY <1>1, <1>2, <2>1, <4>1, <4>6, <6>1, FileFacts, QueueTypes, ZenonT(40)
               DEF InFileOrder, Time
          <6>3. Time(q2.packets[at]) \in Nat /\ Time(q2.packets[n2]) \in Nat
            BY <1>1, <1>2, <2>1, <4>6, QueueTypes
          <6>. QED BY <2>4, <3>3, <4>3, <4>6, <6>2, <6>3
        <5>. QED BY <1>2, <2>1, <5>1, <5>2
      <4>. QED BY <4>5, <4>7, <4>8 DEF Continues
    <3>. QED BY <3>2, <3>5 DEF r
  <2>. QED BY <2>2, <2>3, <2>4
<1>. QED BY <1>3, <1>4, <1>5

(* q1 goes on with the packets of q2.                                      *)
Extended(q1, q2, r) ==
  /\ Len(q1.packets) <= Len(r.packets)
  /\ \A i \in 1 .. Len(q1.packets) : r.packets[i] = q1.packets[i]
  /\ q1.packets # <<>> => r.packets # <<>>
  /\ r.last_dts = q2.last_dts

(* Joined at such a point, the two queues are one in file order, and it    *)
(* ends no earlier than q1 did.                                            *)
LEMMA JoinedFits ==
  ASSUME NEW s \in Streams, NEW on \in BOOLEAN,
         NEW q1, NEW q2, QueueFit(q1, s, on), QueueFit(q2, s, on),
         Media(s) => Continues(q1, q2), NEW r, r = JoinQueues(q1, q2)
  PROVE  QueueFit(r, s, on) /\ Extended(q1, q2, r)
<1> DEFINE n1 == Len(q1.packets)
           n2 == Len(q2.packets)
           kf == IF q2.keyframe_latest = 0 THEN 0 ELSE n1 + q2.keyframe_latest
           ps == q1.packets \o q2.packets
           joined == [q1 EXCEPT
             !.packets = ps,
             !.seek_end = q2.seek_end,
             !.correct = q1.correct /\ q2.correct,
             !.last_dts = q2.last_dts, !.last_ts = q2.last_ts,
             !.keyframe_pts = q2.keyframe_pts,
             !.keyframe_end_pts = q2.keyframe_end_pts,
             !.keyframe_latest = kf]
<1>1. q1 \in Queues /\ q2 \in Queues
  BY DEF QueueFit
<1>2. /\ n1 \in Nat /\ DOMAIN q1.packets = 1 .. n1 /\ (q1.packets = <<>> <=> n1 = 0)
      /\ n2 \in Nat /\ DOMAIN q2.packets = 1 .. n2 /\ (q2.packets = <<>> <=> n2 = 0)
  BY <1>1, QueueTypes
<1>3. /\ ps \in Seq(Packets) /\ Len(ps) = n1 + n2
      /\ \A i \in 1 .. n1 + n2 : ps[i] = IF i <= n1 THEN q1.packets[i]
                                         ELSE q2.packets[i - n1]
  <2>1. q1.packets \in Seq(Packets) /\ q2.packets \in Seq(Packets)
    BY <1>1, QueueTypes
  <2>. QED BY <2>1, ConcatProperties
<1>12. n1 = Len(q1.packets) /\ n2 = Len(q2.packets)
  OBVIOUS
<1>. HIDE DEF n1, n2
<1>4. kf \in Nat
  <2>1. q2.keyframe_latest \in Nat /\ n1 \in Nat
    BY <1>1, <1>2 DEF Queues, QueueRecords
  <2>. QED BY <2>1 DEF kf
<1>. HIDE DEF ps, kf
<1>13. /\ \A i \in DOMAIN q1.index :
            /\ q1.index[i] \in 1 .. n1
            /\ q1.packets[q1.index[i]].kf_seek_pts # NoPts
       /\ \A i \in DOMAIN q2.index :
            /\ q2.index[i] \in 1 .. n2
            /\ q2.packets[q2.index[i]].kf_seek_pts # NoPts
            /\ q2.keyframe_latest # 0 => q2.index[i] <= q2.keyframe_latest
       /\ q1.next_prune_target <= n1 /\ q2.keyframe_latest <= n2
       /\ q1.next_prune_target \in Nat /\ q2.keyframe_latest \in Nat
       /\ q2.keyframe_latest # 0 => /\ Keyframe(q2.packets[q2.keyframe_latest])
                                    /\ q2.keyframe_pts # NoPts
       /\ q2.index \in Seq(Int)
       /\ \A i, j \in DOMAIN q1.index : i < j => q1.index[i] < q1.index[j]
       /\ \A i, j \in DOMAIN q2.index : i < j => q2.index[i] < q2.index[j]
  BY <1>1 DEF Queues, QueueRecords, PointersIn, IndexIn, n1, n2
<1>14. /\ kf # 0 => q2.keyframe_latest # 0 /\ kf = n1 + q2.keyframe_latest
       /\ kf <= n1 + n2
  BY <1>2, <1>13 DEF kf
<1>6. /\ joined \in QueueRecords
      /\ joined.packets = ps /\ joined.last_dts = q2.last_dts
      /\ joined.correct = (q1.correct /\ q2.correct)
      /\ joined.next_prune_target = q1.next_prune_target
      /\ joined.index = q1.index /\ joined.keyframe_latest = kf
      /\ joined.keyframe_pts = q2.keyframe_pts
      /\ joined.index_distance = q1.index_distance
  BY <1>1, <1>3, <1>4 DEF Queues, QueueRecords
<1>15. PointersIn(joined)
  <2>. HIDE DEF joined
  <2>1. ASSUME kf # 0 PROVE ps[kf] = q2.packets[q2.keyframe_latest]
    <3>1. kf \in 1 .. n1 + n2 /\ ~(kf <= n1) /\ kf - n1 = q2.keyframe_latest
      BY <1>2, <1>13, <1>14, <2>1
    <3>. QED BY <1>3, <3>1
  <2>2. q1.next_prune_target <= Len(ps) /\ kf <= Len(ps)
    BY <1>2, <1>3, <1>13, <1>14
  <2>. QED BY <1>6, <1>13, <1>14, <2>1, <2>2 DEF PointersIn
<1>16. ASSUME NEW i \in DOMAIN q1.index
       PROVE  /\ q1.index[i] \in 1 .. n1 + n2 /\ ps[q1.index[i]].kf_seek_pts # NoPts
              /\ kf # 0 => q1.index[i] <= kf
  <2> DEFINE e == q1.index[i]
  <2>1. e \in 1 .. n1 /\ q1.packets[e].kf_seek_pts # NoPts
    BY <1>13
  <2>. HIDE DEF e
  <2>2. e \in 1 .. n1 + n2 /\ e <= n1 /\ (kf # 0 => e <= kf)
    BY <1>2, <1>13, <1>14, <2>1
  <2>3. ps[e] = q1.packets[e]
    BY <1>3, <2>2
  <2>. QED BY <2>1, <2>2, <2>3 DEF e
<1>17. IndexIn(joined)
  <2>1. q1.index_distance > 0
    BY <1>1 DEF Queues, IndexIn
  <2>. HIDE DEF joined
  <2>. QED BY <1>3, <1>6, <1>13, <1>16, <2>1 DEF IndexIn
<1>5. joined \in Queues
  BY <1>6, <1>15, <1>17 DEF Queues
<1>18. ASSUME NEW i \in DOMAIN q2.index
       PROVE  /\ n1 + q2.index[i] \in 1 .. n1 + n2
              /\ ps[n1 + q2.index[i]].kf_seek_pts # NoPts
              /\ kf # 0 => n1 + q2.index[i] <= kf
              /\ n1 + q2.index[i] > n1
  <2> DEFINE e == q2.index[i]
  <2>1. /\ e \in 1 .. n2 /\ q2.packets[e].kf_seek_pts # NoPts
        /\ q2.keyframe_latest # 0 => e <= q2.keyframe_latest
    BY <1>13
  <2>. HIDE DEF e
  <2>2. /\ n1 + e \in 1 .. n1 + n2 /\ n1 + e > n1 /\ (n1 + e) - n1 = e
        /\ (kf # 0 => n1 + e <= kf)
    BY <1>2, <1>13, <1>14, <2>1
  <2>3. ps[n1 + e] = q2.packets[e]
    BY <1>2, <1>3, <2>2
  <2>. QED BY <2>1, <2>2, <2>3 DEF e
<1>19. Placeable(joined, q2.index, n1)
  <2>. HIDE DEF joined
  <2>1. ASSUME NEW i \in DOMAIN q1.index, NEW j \in DOMAIN q2.index
        PROVE  q1.index[i] <= n1 + q2.index[j]
    <3>1. q1.index[i] \in 1 .. n1 /\ q2.index[j] \in 1 .. n2
      BY <1>13
    <3>. QED BY <1>2, <3>1
  <2>. QED BY <1>3, <1>6, <1>13, <1>18, <2>1 DEF Placeable
<1>7. Noted(joined, r)
  <2>1. r = AddIndex(joined, q2.index, n1)
    BY Zenon DEF JoinQueues, ps, kf, n1
  <2>2. n1 \in Int
    BY <1>2
  <2>. HIDE DEF joined
  <2>. QED BY <1>5, <1>19, <2>1, <2>2, IndexAdded
<1>. HIDE DEF joined
<1>8. /\ r \in Queues /\ r.packets = ps /\ r.last_dts = q2.last_dts
      /\ r.correct = (q1.correct /\ q2.correct)
      /\ DOMAIN r.packets = 1 .. n1 + n2 /\ (r.packets = <<>> <=> n1 + n2 = 0)
  BY <1>3, <1>6, <1>7, QueueTypes DEF Noted
<1>20. ASSUME Media(s) PROVE Dated(r)
  <2>1. Dated(q1) /\ Dated(q2)
    BY <1>20 DEF QueueFit, InFileOrder
  <2>2. ASSUME NEW i \in 1 .. n1 + n2 PROVE ps[i].kf_seek_pts \in {NoPts, Time(ps[i])}
    <3>1. i \in 1 .. n1 \/ (i > n1 /\ i - n1 \in 1 .. n2)
      BY <1>2
    <3>2. CASE i \in 1 .. n1
      BY <1>2, <1>3, <2>1, <3>2 DEF Dated
    <3>3. CASE i > n1 /\ i - n1 \in 1 .. n2
      <4>1. ps[i] = q2.packets[i - n1]
        BY <1>2, <1>3, <3>3
      <4>. QED BY <1>2, <2>1, <3>3, <4>1 DEF Dated
    <3>. QED BY <3>1, <3>2, <3>3
  <2>3. kf # 0 => q2.keyframe_pts = Time(ps[kf])
    <3>. SUFFICES ASSUME kf # 0 PROVE q2.keyframe_pts = Time(ps[kf])
      OBVIOUS
    <3>1. kf \in 1 .. n1 + n2 /\ ~(kf <= n1) /\ kf - n1 = q2.keyframe_latest
      BY <1>2, <1>13, <1>14
    <3>. QED BY <1>3, <1>14, <2>1, <3>1 DEF Dated
  <2>. QED BY <1>6, <1>7, <1>8, <2>2, <2>3 DEF Dated, Noted
<1>9. ASSUME Media(s) PROVE InFileOrder(r, s)
  <2>1. InFileOrder(q1, s) /\ InFileOrder(q2, s) /\ Continues(q1, q2)
    BY <1>9 DEF QueueFit
  <2>2. r.correct
    BY <1>8, <2>1 DEF InFileOrder
  <2>3. ASSUME NEW i \in DOMAIN r.packets PROVE File[r.packets[i].at].stream = s
    <3>1. i \in 1 .. n1 \/ (i > n1 /\ i - n1 \in 1 .. n2)
      BY <1>2, <1>8
    <3>. QED BY <1>2, <1>3, <1>8, <2>1, <3>1 DEF InFileOrder
  <2>4. ASSUME NEW i \in DOMAIN r.packets, NEW j \in DOMAIN r.packets, i < j
        PROVE  r.packets[i].at < r.packets[j].at
    <3>1. CASE j \in 1 .. n1
      <4>1. i \in 1 .. n1
        BY <1>2, <1>8, <2>4, <3>1
      <4>. QED BY <1>2, <1>3, <1>8, <2>1, <2>4, <3>1, <4>1 DEF InFileOrder
    <3>2. CASE i > n1
      <4>1. i - n1 \in 1 .. n2 /\ j - n1 \in 1 .. n2 /\ i - n1 < j - n1 /\ j > n1
        BY <1>2, <1>8, <2>4, <3>2
      <4>2. r.packets[i] = q2.packets[i - n1] /\ r.packets[j] = q2.packets[j - n1]
        BY <1>2, <1>3, <1>8, <3>2, <4>1
      <4>. QED BY <1>2, <2>1, <4>1, <4>2 DEF InFileOrder
    <3>3. CASE i \in 1 .. n1 /\ j > n1
      <4>1. j - n1 \in DOMAIN q2.packets /\ r.packets[j] = q2.packets[j - n1]
            /\ r.packets[i] = q1.packets[i] /\ n1 \in 1 .. n1
            /\ q1.packets # <<>>
        BY <1>2, <1>3, <1>8, <3>3
      <4>2. q2.packets[j - n1].at > q1.packets[n1].at
        BY <1>12, <2>1, <4>1 DEF Continues, Last
      <4>3. i = n1 \/ q1.packets[i].at < q1.packets[n1].at
        BY <1>2, <2>1, <3>3, <4>1 DEF InFileOrder
      <4>4. /\ q1.packets[i].at \in Nat /\ q1.packets[n1].at \in Nat
            /\ q2.packets[j - n1].at \in Nat
        BY <1>1, <1>2, <3>3, <4>1, QueueTypes
      <4>. QED BY <4>1, <4>2, <4>3, <4>4
    <3>. QED BY <1>2, <1>8, <2>4, <3>1, <3>2, <3>3
  <2>5. r.packets # <<>> => r.last_dts = Time(Last(r.packets))
    <3>. SUFFICES ASSUME r.packets # <<>> PROVE r.last_dts = Time(Last(r.packets))
      OBVIOUS
    <3>1. CASE n2 = 0
      <4>1. Last(r.packets) = Last(q1.packets) /\ q1.packets # <<>>
        BY <1>2, <1>3, <1>8, <3>1 DEF Last
      <4>. QED BY <1>2, <1>8, <2>1, <3>1, <4>1 DEF InFileOrder, Continues
    <3>2. CASE n2 # 0
      <4>1. Last(r.packets) = Last(q2.packets)
        BY <1>2, <1>3, <1>8, <3>2 DEF Last
      <4>. QED BY <1>2, <1>8, <2>1, <3>2, <4>1 DEF InFileOrder
    <3>. QED BY <3>1, <3>2
  <2>. QED BY <1>9, <1>20, <2>2, <2>3, <2>4, <2>5 DEF InFileOrder
<1>10. ASSUME ~on PROVE Fresh(r)
  BY <1>2, <1>8, <1>10 DEF QueueFit, Fresh
<1>11. \A i \in 1 .. n1 : r.packets[i] = q1.packets[i]
  BY <1>2, <1>3, <1>8
<1>23. Len(r.packets) = n1 + n2
  BY <1>3, <1>8
<1>24. n1 <= Len(r.packets)
  BY <1>2, <1>23
<1>25. q1.packets # <<>> => r.packets # <<>>
  BY <1>2, <1>8
<1>26. QueueFit(r, s, on)
  BY <1>8, <1>9, <1>10 DEF QueueFit
<1>. QED BY <1>8, <1>11, <1>12, <1>24, <1>25, <1>26 DEF Extended
-----------------------------------------------------------------------------
(* What a demux_stream holds.                                              *)
LEMMA DsTypes ==
  ASSUME NEW ds, DsFit(ds), NEW s \in Streams
  PROVE  /\ ds[s] \in DemuxStreams /\ ds[s].selected \in BOOLEAN
         /\ ds[s].eager \in BOOLEAN /\ ds[s].refreshing \in BOOLEAN
         /\ ds[s].reader_head \in Nat /\ ds[s].correct \in BOOLEAN
<1>1. ds[s] \in DemuxStreams
  BY DEF DsFit
<1>. QED BY <1>1 DEF DemuxStreams

(* What the ranges hold.                                                   *)
LEMMA RangesTypes ==
  ASSUME NEW R, NEW ds, RangesFit(R, ds)
  PROVE  /\ R \in Seq(Ranges) /\ Len(R) \in Nat \ {0} /\ DOMAIN R = 1 .. Len(R)
         /\ \A n \in 1 .. Len(R) :
              /\ R[n] \in Ranges /\ R[n].seek_start \in Int /\ R[n].seek_end \in Int
              /\ RangeFit(R[n], ds)
              /\ R[n].queues \in [Streams -> Queues]
              /\ \A s \in Streams : /\ R[n].queues[s] \in Queues
                                    /\ QueueFit(R[n].queues[s], s, ds[s].selected)
<1>1. /\ R \in Seq(Ranges) /\ R # <<>>
      /\ \A n \in DOMAIN R : RangeFit(R[n], ds)
  BY DEF RangesFit
<1>2. Len(R) \in Nat \ {0} /\ DOMAIN R = 1 .. Len(R)
  BY <1>1, LenProperties, EmptySeq
<1>3. \A n \in 1 .. Len(R) : R[n] \in Ranges /\ RangeFit(R[n], ds)
  BY <1>1, <1>2, ElementOfSeq
<1>4. \A n \in 1 .. Len(R) :
        /\ R[n].seek_start \in Int /\ R[n].seek_end \in Int
        /\ R[n].queues \in [Streams -> Queues]
        /\ \A s \in Streams : R[n].queues[s] \in Queues
  BY <1>3 DEF Ranges
<1>5. \A n \in 1 .. Len(R) : \A s \in Streams :
        QueueFit(R[n].queues[s], s, ds[s].selected)
  BY <1>3 DEF RangeFit
<1>. QED BY <1>1, <1>2, <1>3, <1>4, <1>5

(* Nothing but one range differs.                                          *)
RangeOnly(R, T, ds, n, r) ==
  /\ RangesFit(T, ds) /\ Len(T) = Len(R)
  /\ \A i \in 1 .. Len(R) : T[i] = IF i = n THEN r ELSE R[i]

(* Another range that fits in the place of range n.                        *)
LEMMA RangeWritten ==
  ASSUME NEW R, NEW ds, RangesFit(R, ds), NEW n \in 1 .. Len(R),
         NEW r, RangeFit(r, ds), NEW T, T = [R EXCEPT ![n] = r]
  PROVE  RangeOnly(R, T, ds, n, r)
<1>1. r \in Ranges
  BY DEF RangeFit
<1>2. /\ T \in Seq(Ranges) /\ Len(T) = Len(R)
      /\ \A i \in 1 .. Len(R) : T[i] = IF i = n THEN r ELSE R[i]
  BY <1>1, RangesTypes, ExceptSeq
<1>3. T # <<>> /\ DOMAIN T = 1 .. Len(R)
  BY <1>2, RangesTypes, LenProperties, EmptySeq
<1>4. \A i \in DOMAIN T : RangeFit(T[i], ds)
  BY <1>2, <1>3, RangesTypes
<1>5. RangesFit(T, ds)
  BY <1>2, <1>3, <1>4 DEF RangesFit
<1>. QED BY <1>2, <1>5 DEF RangeOnly

(* The same, part by part.                                                 *)
LEMMA RangeSet ==
  ASSUME NEW R, NEW ds, RangesFit(R, ds), NEW n \in 1 .. Len(R),
         NEW r, RangeFit(r, ds), NEW T, T = [R EXCEPT ![n] = r]
  PROVE  /\ RangesFit(T, ds) /\ Len(T) = Len(R)
         /\ \A i \in 1 .. Len(R) : T[i] = IF i = n THEN r ELSE R[i]
<1>1. RangeOnly(R, T, ds, n, r)
  BY RangeWritten
<1>. QED BY <1>1 DEF RangeOnly

(* ds->queue is the queue of the current range, and it fits.               *)
LEMMA QueueInRange ==
  ASSUME NEW x, Shape(x), NEW s \in Streams
  PROVE  /\ Current(x) \in 1 .. Len(x.ranges)
         /\ Queue(x, s) = x.ranges[Len(x.ranges)].queues[s]
         /\ Queue(x, s) \in Queues
         /\ QueueFit(Queue(x, s), s, x.ds[s].selected)
<1>1. RangesFit(x.ranges, x.ds)
  BY DEF Shape
<1>2. Len(x.ranges) \in 1 .. Len(x.ranges)
  BY <1>1, RangesTypes
<1>3. Queue(x, s) = x.ranges[Len(x.ranges)].queues[s] /\ Current(x) = Len(x.ranges)
  BY DEF Queue, Current
<1>. QED BY <1>1, <1>2, <1>3, RangesTypes

(* A range with another queue of stream s.                                 *)
WithQueue(r, s, q) == [r EXCEPT !.queues[s] = q]

(* Another queue in a range that fits.                                     *)
LEMMA QueueSet ==
  ASSUME NEW r, NEW ds, RangeFit(r, ds), NEW s \in Streams,
         NEW q, QueueFit(q, s, ds[s].selected), NEW t, t = WithQueue(r, s, q)
  PROVE  /\ RangeFit(t, ds) /\ t.seek_start = r.seek_start /\ t.seek_end = r.seek_end
         /\ \A i \in Streams : t.queues[i] = IF i = s THEN q ELSE r.queues[i]
<1>1. r \in Ranges /\ q \in Queues
  BY DEF RangeFit, QueueFit
<1>2. t \in Ranges /\ t.seek_start = r.seek_start /\ t.seek_end = r.seek_end
      /\ \A i \in Streams : t.queues[i] = IF i = s THEN q ELSE r.queues[i]
  BY <1>1 DEF Ranges, WithQueue
<1>. QED BY <1>2 DEF RangeFit

(* update_seek_ranges() leaves the queues alone.                           *)
LEMMA SeekRangesUpdated ==
  ASSUME NEW ds, NEW r \in Ranges, NEW t, t = UpdateSeekRanges(ds, r)
  PROVE  t \in Ranges /\ t.queues = r.queues
<1> DEFINE eager  == {s \in Streams : ds[s].selected /\ ds[s].eager}
           sparse == {s \in Streams : /\ ds[s].selected /\ ~ds[s].eager
                                      /\ r.queues[s].last_pruned # NoPts}
           none   == \E s \in eager : r.queues[s].seek_start >= r.queues[s].seek_end
           starts == {r.queues[s].seek_start : s \in eager}
           ends   == {r.queues[s].seek_end : s \in eager}
           pruned == {r.queues[s].last_pruned + 1 : s \in sparse}
           first  == IF none THEN NoPts ELSE PtsMax(starts)
           end    == IF none THEN NoPts ELSE PtsMin(ends)
           start  == PtsMax({first} \cup pruned)
<1>1. \A s \in Streams : /\ r.queues[s].seek_start \in Int
                         /\ r.queues[s].seek_end \in Int
                         /\ r.queues[s].last_pruned \in Int
  BY DEF Ranges, Queues, QueueRecords
<1>2. NumStreams \in Nat /\ Streams = 1 .. NumStreams
  BY FileFacts
<1>3. Bounded(starts)
  <2> DEFINE f == [s \in Streams |-> r.queues[s].seek_start]
  <2>1. \A i \in 1 .. NumStreams : f[i] \in Int
    BY <1>1, <1>2
  <2>2. \A t1 \in starts : \E i \in eager : t1 = f[i]
    OBVIOUS
  <2>3. eager \in SUBSET (1 .. NumStreams)
    BY <1>2
  <2>. HIDE DEF f, starts, eager
  <2>. QED BY <1>2, <2>1, <2>2, <2>3, BoundedImage
<1>4. Bounded(ends)
  <2> DEFINE f == [s \in Streams |-> r.queues[s].seek_end]
  <2>1. \A i \in 1 .. NumStreams : f[i] \in Int
    BY <1>1, <1>2
  <2>2. \A t1 \in ends : \E i \in eager : t1 = f[i]
    OBVIOUS
  <2>3. eager \in SUBSET (1 .. NumStreams)
    BY <1>2
  <2>. HIDE DEF f, ends, eager
  <2>. QED BY <1>2, <2>1, <2>2, <2>3, BoundedImage
<1>5. Bounded(pruned)
  <2> DEFINE f == [s \in Streams |-> r.queues[s].last_pruned + 1]
  <2>1. \A i \in 1 .. NumStreams : f[i] \in Int
    BY <1>1, <1>2
  <2>2. \A t1 \in pruned : \E i \in sparse : t1 = f[i]
    OBVIOUS
  <2>3. sparse \in SUBSET (1 .. NumStreams)
    BY <1>2
  <2>. HIDE DEF f, pruned, sparse
  <2>. QED BY <1>2, <2>1, <2>2, <2>3, BoundedImage
<1>6. first \in Int /\ end \in Int
  BY <1>3, <1>4, BoundedPts DEF NoPts
<1> DEFINE F(a, b) == [r EXCEPT !.seek_start = a, !.seek_end = b]
<1>7. t = F(NoPts, NoPts) \/ t = F(start, end)
  BY Zenon DEF UpdateSeekRanges
<1>. HIDE DEF first, end, pruned
<1>8. start \in Int
  BY <1>5, <1>6, BoundedAdd, BoundedPts
<1>. HIDE DEF start
<1>9. ASSUME NEW a \in Int, NEW b \in Int
      PROVE  F(a, b) \in Ranges /\ F(a, b).queues = r.queues
  BY DEF Ranges
<1>10. NoPts \in Int
  BY DEF NoPts
<1>. HIDE DEF F
<1>. QED BY <1>6, <1>7, <1>8, <1>9, <1>10

-----------------------------------------------------------------------------
(* The same current queues, perhaps with fewer ranges beside them.         *)
Trimmed(x, y) ==
  /\ DOMAIN y = Fields /\ y.ds = x.ds /\ y.seeking = x.seeking
  /\ RangesFit(y.ranges, y.ds)
  /\ Len(x.ranges) = 1 => Len(y.ranges) = 1
  /\ \A s \in Streams : Same(Queue(x, s), Queue(y, s))

(* Such a change keeps the shape of the cache.                             *)
LEMMA TrimmedShape ==
  ASSUME NEW x, Shape(x), NEW y, Trimmed(x, y)
  PROVE  Shape(y)
BY DEF Shape, Trimmed

(* A queue has the packets of itself.                                      *)
LEMMA SameReflexive == ASSUME NEW q PROVE Same(q, q)
BY DEF Same

(* Two such changes are one.                                               *)
LEMMA TrimmedTwice ==
  ASSUME NEW x, NEW y, NEW z, Trimmed(x, y), Trimmed(y, z)
  PROVE  Trimmed(x, z)
<1>1. \A s \in Streams : Same(Queue(x, s), Queue(z, s))
  BY DEF Trimmed, Same
<1>. QED BY <1>1 DEF Trimmed

(* Such a change keeps everything that the invariant says.                 *)
LEMMA TrimmedFits ==
  ASSUME NEW x, NEW last, NEW next, Fit(x, last, next), NEW y, Trimmed(x, y)
  PROVE  Fit(y, last, next)
<1>1. Shape(x) /\ Shape(y)
  BY TrimmedShape DEF Fit
<1>2. ASSUME NEW s \in Streams
      PROVE  StreamFit(Queue(y, s), y.ds[s], s, Len(y.ranges) = 1,
                       y.seeking, last[s], next)
  <2> DEFINE q == Queue(x, s)
             r == Queue(y, s)
             d == x.ds[s]
  <2>1. StreamFit(q, d, s, Len(x.ranges) = 1, x.seeking, last[s], next)
    BY <1>1, QueueInRange DEF Fit, StreamsFit
  <2>2. /\ Same(q, r) /\ y.ds[s] = d /\ y.seeking = x.seeking
        /\ Len(x.ranges) = 1 => Len(y.ranges) = 1
    BY DEF Trimmed
  <2>3. q \in Queues /\ r \in Queues
    BY <1>1, QueueInRange
  <2>4. /\ Len(q.packets) \in Nat /\ Len(r.packets) = Len(q.packets)
        /\ r.packets = <<>> <=> q.packets = <<>>
    BY <2>2, <2>3, QueueTypes DEF Same
  <2>5. d.reader_head \in Nat
    BY <1>1, DsTypes DEF Shape
  <2>6. d.reader_head <= Len(q.packets)
    BY <2>1 DEF StreamFit
  <2>. HIDE DEF q, r, d
  <2>7. d.reader_head # 0 => r.packets[d.reader_head].at = q.packets[d.reader_head].at
    BY <2>2, <2>4, <2>5, <2>6 DEF Same
  <2>8. ASSUME Media(s)
        PROVE  HeadFit(r, d.reader_head, last[s], Len(y.ranges) = 1)
    BY <2>1, <2>2, <2>4, <2>7, <2>8 DEF HeadFit, StreamFit, Same
  <2>9. ASSUME Media(s) PROVE AheadFit(r, d, s, y.seeking, next)
    BY <2>1, <2>2, <2>9 DEF AheadFit, StreamFit, Same
  <2>. QED BY <2>2, <2>4, <2>6, <2>8, <2>9 DEF StreamFit, r, d
<1>. QED BY <1>1, <1>2, QueueInRange DEF Fit, StreamsFit

(* update_seek_ranges() is such a change ...                               *)
LEMMA RangeUpdated ==
  ASSUME NEW x, Shape(x), NEW n \in 1 .. Len(x.ranges), NEW y, y = UpdateRange(x, n)
  PROVE  Trimmed(x, y)
<1> DEFINE r == x.ranges[n]
           t == UpdateSeekRanges(x.ds, r)
<1>1. RangesFit(x.ranges, x.ds) /\ DsFit(x.ds) /\ DOMAIN x = Fields
  BY DEF Shape
<1>2. r \in Ranges /\ RangeFit(r, x.ds)
  BY <1>1, RangesTypes
<1>3. t \in Ranges /\ t.queues = r.queues
  BY <1>1, <1>2, SeekRangesUpdated
<1>. HIDE DEF t
<1>4. RangeFit(t, x.ds)
  BY <1>2, <1>3 DEF RangeFit
<1>5. /\ DOMAIN y = Fields /\ y.ds = x.ds /\ y.seeking = x.seeking
      /\ y.ranges = [x.ranges EXCEPT ![n] = t]
  BY <1>1 DEF UpdateRange, Fields, t
<1>6. /\ RangesFit(y.ranges, x.ds) /\ Len(y.ranges) = Len(x.ranges)
      /\ \A i \in 1 .. Len(x.ranges) : y.ranges[i] = IF i = n THEN t ELSE x.ranges[i]
  BY <1>1, <1>4, <1>5, RangeSet
<1>7. ASSUME NEW s \in Streams PROVE Queue(y, s) = Queue(x, s)
  BY <1>1, <1>3, <1>6, RangesTypes DEF Queue, Current
<1>. QED BY <1>5, <1>6, <1>7, SameReflexive DEF Trimmed

(* ... and so is a queue with other notes beside its packets.              *)
LEMMA QueueNoted ==
  ASSUME NEW x, Shape(x), NEW s \in Streams, NEW q \in Queues,
         Same(Queue(x, s), q), q.correct = Queue(x, s).correct,
         Media(s) => Dated(q),
         NEW y, y = SetQueue(x, s, q)
  PROVE  /\ Trimmed(x, y) /\ Current(y) = Current(x) /\ Queue(y, s) = q
<1> DEFINE c == Current(x)
           r == x.ranges[c]
           t == [r EXCEPT !.queues[s] = q]
<1>1. RangesFit(x.ranges, x.ds) /\ DsFit(x.ds) /\ DOMAIN x = Fields
  BY DEF Shape
<1>2. c \in 1 .. Len(x.ranges) /\ QueueFit(Queue(x, s), s, x.ds[s].selected)
      /\ c = Len(x.ranges)
  BY QueueInRange DEF Current
<1>3. x.ds[s].selected \in BOOLEAN
  BY <1>1, DsTypes
<1>4. QueueFit(q, s, x.ds[s].selected)
  BY <1>2, <1>3, SameFits
<1>5. RangeFit(r, x.ds)
  BY <1>1, <1>2, RangesTypes
<1>6. /\ RangeFit(t, x.ds)
      /\ \A i \in Streams : t.queues[i] = IF i = s THEN q ELSE r.queues[i]
  <2>1. t = WithQueue(r, s, q)
    BY DEF WithQueue
  <2>. HIDE DEF t, r
  <2>. QED BY <1>4, <1>5, <2>1, QueueSet
<1>7. /\ DOMAIN y = Fields /\ y.ds = x.ds /\ y.seeking = x.seeking
      /\ y.ranges = [x.ranges EXCEPT ![c] = t]
  BY <1>1 DEF SetQueue, Fields
<1>. HIDE DEF t, r, c
<1>8. /\ RangesFit(y.ranges, x.ds) /\ Len(y.ranges) = Len(x.ranges)
      /\ \A i \in 1 .. Len(x.ranges) : y.ranges[i] = IF i = c THEN t ELSE x.ranges[i]
  BY <1>1, <1>2, <1>6, <1>7, RangeSet
<1>9. /\ Queue(y, s) = q /\ Current(y) = Current(x)
      /\ \A i \in Streams : Queue(y, i) = IF i = s THEN q ELSE Queue(x, i)
  BY <1>2, <1>6, <1>8 DEF Queue, Current, c, r
<1>. QED BY <1>7, <1>8, <1>9, SameReflexive DEF Trimmed

(* EmptyRange has what nothing was read for.                               *)
LEMMA EmptyRangeFits ==
  ASSUME NEW ds, DsFit(ds)
  PROVE  RangeFit(EmptyRange, ds)
<1>1. EmptyRange \in Ranges /\ \A s \in Streams : EmptyRange.queues[s] = EmptyQueue
  <2>1. EmptyQueue \in Queues /\ NoPts \in Int
    BY EmptyQueueType DEF NoPts
  <2>2. [s \in Streams |-> EmptyQueue] \in [Streams -> Queues]
    BY <2>1
  <2>. QED BY <2>1, <2>2 DEF EmptyRange, Ranges
<1>2. \A s \in Streams : ds[s].selected \in BOOLEAN
  BY DsTypes
<1>. QED BY <1>1, <1>2, EmptyFits DEF RangeFit

(* free_empty_cached_ranges() keeps the current range and only ranges that *)
(* there were.                                                             *)
LEMMA EmptyRangesFreed ==
  ASSUME NEW x, DOMAIN x = Fields, NEW ds, RangesFit(x.ranges, ds),
         NEW y, y = FreeEmptyRanges(x)
  PROVE  /\ DOMAIN y = Fields /\ y.ds = x.ds /\ y.seeking = x.seeking
         /\ RangesFit(y.ranges, ds)
         /\ y.ranges[Len(y.ranges)] = x.ranges[Len(x.ranges)]
         /\ Len(x.ranges) = 1 => Len(y.ranges) = 1
<1> DEFINE m == Len(x.ranges)
           keep  == {n \in 1 .. m - 1 : x.ranges[n].seek_start # NoPts}
           worst == Max({n \in keep : \A k \in keep :
                           Length(x.ranges[n]) <= Length(x.ranges[k])})
           left  == IF Cardinality(keep) < MaxSeekRanges THEN keep
                    ELSE keep \ {worst}
           order == InOrder(left)
           front == [i \in DOMAIN order |-> x.ranges[order[i]]]
           R     == Append(front, Last(x.ranges))
<1>1. m \in Nat \ {0} /\ \A n \in 1 .. m : x.ranges[n] \in Ranges /\ RangeFit(x.ranges[n], ds)
  BY RangesTypes
<1>2. /\ DOMAIN y = Fields /\ y.ds = x.ds /\ y.seeking = x.seeking /\ y.ranges = R
  BY ZenonT(40) DEF FreeEmptyRanges, Fields, Current
<1>. HIDE DEF m, worst
<1>3. left \in SUBSET (1 .. m - 1)
  OBVIOUS
<1>. HIDE DEF left
<1>4. Cardinality(left) \in Nat /\ order \in [1 .. Cardinality(left) -> left]
  <2>1. m - 1 \in Nat
    BY <1>1
  <2>. QED BY <1>3, <2>1, Enumeration
<1>5. \A i \in 1 .. Cardinality(left) : order[i] \in 1 .. m
  <2>1. \A i \in 1 .. Cardinality(left) : order[i] \in left
    BY <1>4
  <2>2. 1 .. m - 1 \subseteq 1 .. m
    BY <1>1
  <2>. QED BY <1>3, <2>1, <2>2
<1> DEFINE k == Cardinality(left)
<1>6. front \in [1 .. k -> Ranges] /\ \A i \in 1 .. k : front[i] = x.ranges[order[i]]
  BY <1>1, <1>4, <1>5
<1>7. front \in Seq(Ranges) /\ Len(front) = k
  BY <1>4, <1>6, FunctionIsSeq
<1>8. Last(x.ranges) = x.ranges[m] /\ x.ranges[m] \in Ranges
  BY <1>1 DEF Last, m
<1>. HIDE DEF front, order
<1>9. /\ R \in Seq(Ranges) /\ Len(R) = k + 1 /\ R[k + 1] = x.ranges[m] /\ R # <<>>
      /\ \A i \in 1 .. k : R[i] = front[i]
  BY <1>7, <1>8, AppendProperties
<1>. HIDE DEF R
<1>10. ASSUME NEW i \in DOMAIN R PROVE RangeFit(R[i], ds)
  <2>1. i = k + 1 \/ i \in 1 .. k
    BY <1>4, <1>9, LenProperties
  <2>2. CASE i = k + 1
    BY <1>1, <1>9, <2>2
  <2>3. CASE i \in 1 .. k
    BY <1>1, <1>5, <1>6, <1>9, <2>3
  <2>. QED BY <2>1, <2>2, <2>3
<1>11. m = 1 => k = 0
  <2>. SUFFICES ASSUME m = 1 PROVE k = 0
    OBVIOUS
  <2>1. left = {}
    BY <1>3
  <2>. QED BY <2>1, FS_EmptySet
<1>. QED BY <1>2, <1>4, <1>9, <1>10, <1>11 DEF RangesFit, m

(* It is such a change as well.                                            *)
LEMMA FreedTrimmed ==
  ASSUME NEW x, Shape(x), NEW y, y = FreeEmptyRanges(x)
  PROVE  Trimmed(x, y)
<1>1. DOMAIN x = Fields /\ RangesFit(x.ranges, x.ds)
  BY DEF Shape
<1>2. /\ DOMAIN y = Fields /\ y.ds = x.ds /\ y.seeking = x.seeking
      /\ RangesFit(y.ranges, x.ds)
      /\ y.ranges[Len(y.ranges)] = x.ranges[Len(x.ranges)]
      /\ Len(x.ranges) = 1 => Len(y.ranges) = 1
  BY <1>1, EmptyRangesFreed
<1>. QED BY <1>2, SameReflexive DEF Trimmed, Queue, Current

(* clear_cached_range() of some ranges: they are empty, and the others are *)
(* what they were.                                                         *)
LEMMA RangesCleared ==
  ASSUME NEW x, DOMAIN x = Fields, NEW ds, DsFit(ds), RangesFit(x.ranges, ds),
         NEW R, NEW y, y = ClearRanges(x, R)
  PROVE  /\ DOMAIN y = Fields /\ y.ds = x.ds /\ y.seeking = x.seeking
         /\ RangesFit(y.ranges, ds) /\ Len(y.ranges) = Len(x.ranges)
         /\ \A n \in 1 .. Len(x.ranges) :
              y.ranges[n] = IF n \in R THEN EmptyRange ELSE x.ranges[n]
<1> DEFINE m == Len(x.ranges)
           T == [n \in DOMAIN x.ranges |-> IF n \in R THEN EmptyRange ELSE x.ranges[n]]
<1>1. /\ m \in Nat \ {0} /\ DOMAIN x.ranges = 1 .. m
      /\ \A n \in 1 .. m : x.ranges[n] \in Ranges /\ RangeFit(x.ranges[n], ds)
  BY RangesTypes
<1>2. /\ DOMAIN y = Fields /\ y.ds = x.ds /\ y.seeking = x.seeking /\ y.ranges = T
  BY DEF ClearRanges, Fields
<1>3. RangeFit(EmptyRange, ds) /\ EmptyRange \in Ranges
  BY EmptyRangeFits DEF RangeFit
<1>4. T \in [1 .. m -> Ranges]
      /\ \A n \in 1 .. m : T[n] = IF n \in R THEN EmptyRange ELSE x.ranges[n]
  BY <1>1, <1>3
<1>. HIDE DEF T
<1>5. T \in Seq(Ranges) /\ Len(T) = m
  BY <1>1, <1>4, FunctionIsSeq
<1>6. T # <<>> /\ DOMAIN T = 1 .. m
  BY <1>1, <1>5, EmptySeq, LenProperties
<1>7. \A n \in DOMAIN T : RangeFit(T[n], ds)
  BY <1>1, <1>3, <1>4, <1>6
<1>. QED BY <1>2, <1>4, <1>5, <1>6, <1>7 DEF RangesFit
-----------------------------------------------------------------------------
(* A request to seek: the next packet comes from elsewhere, which is       *)
(* allowed when no stream counts on where the demuxer was.                 *)
LEMMA SeekQueued ==
  ASSUME NEW x, NEW last, NEW next, Fit(x, last, next), NEW pts, NEW flags,
         \A s \in Streams : Media(s) /\ x.ds[s].selected /\ ~x.ds[s].refreshing =>
                              Queue(x, s).last_dts = NoPts,
         NEW y, y = QueueSeek(x, pts, flags)
  PROVE  Fit(y, last, next)
<1>1. Shape(x) /\ DOMAIN x = Fields
  BY DEF Fit, Shape
<1>2. /\ DOMAIN y = Fields /\ y.ds = x.ds /\ y.ranges = x.ranges /\ y.seeking = TRUE
  BY <1>1 DEF QueueSeek, Fields
<1>3. Shape(y)
  BY <1>1, <1>2 DEF Shape
<1>4. ASSUME NEW s \in Streams
      PROVE  StreamFit(Queue(x, s), x.ds[s], s, Len(x.ranges) = 1,
                       y.seeking, last[s], next)
  <2>1. StreamFit(Queue(x, s), x.ds[s], s, Len(x.ranges) = 1,
                  x.seeking, last[s], next)
    BY <1>1, QueueInRange DEF Fit, StreamsFit
  <2>2. Media(s) => AheadFit(Queue(x, s), x.ds[s], s, y.seeking, next)
    BY <1>2 DEF AheadFit
  <2>. QED BY <2>1, <2>2 DEF StreamFit
<1>. QED BY <1>1, <1>2, <1>3, <1>4, QueueInRange DEF Fit, StreamsFit

(* The attempt to join the current range with the next one.                *)
LEMMA RangesJoinedFits ==
  ASSUME NEW x, NEW last, NEW next, LastFit(last), Fit(x, last, next),
         NEW y, y = AttemptRangeJoining(x)
  PROVE  Fit(y, last, next)
<1> DEFINE c == Current(x)
           cur == Last(x.ranges)
           Dist(n) == cur.seek_end - x.ranges[n].seek_start
           over == {n \in 1 .. c - 1 :
                      cur.seek_start <= x.ranges[n].seek_start /\ Dist(n) > 0}
           nx == Min({n \in over : \A m \in over : Dist(n) <= Dist(m)})
           join == [s \in Streams |-> JoinPoint(x.ds[s], cur.queues[s],
                                                x.ranges[nx].queues[s])]
           qs == [s \in Streams |-> JoinQueues(cur.queues[s], join[s].rest)]
           fw == [s \in Streams |-> Forward(qs[s], x.ds[s].reader_head)]
           moved == RangeBytes([cur EXCEPT !.queues = qs]) - RangeBytes(cur)
           joined == [x EXCEPT
             !.ranges[c].queues = qs,
             !.ranges[nx] = EmptyRange,
             !.ds = [s \in Streams |-> [x.ds[s] EXCEPT
                       !.fw_bytes = fw[s], !.refreshing = x.ds[s].selected]],
             !.fw_bytes = Total(fw),
             !.total_bytes = @ - RangeBytes(x.ranges[nx]) + moved]
           dropped == [x EXCEPT !.ranges[nx] = EmptyRange,
                                !.total_bytes = @ - RangeBytes(x.ranges[nx])]
<1>1. y = IF over = {} THEN x
          ELSE IF \A s \in Streams : join[s].ok
          THEN FreeEmptyRanges(QueueSeek(UpdateRange(joined, c),
                                 x.ranges[nx].seek_end - Second, {"HR"}))
          ELSE FreeEmptyRanges(dropped)
  BY Zenon DEF AttemptRangeJoining
<1>2. Shape(x) /\ RangesFit(x.ranges, x.ds) /\ DsFit(x.ds) /\ DOMAIN x = Fields
  BY DEF Fit, Shape
<1>3. c \in Nat \ {0} /\ c = Len(x.ranges) /\ cur = x.ranges[c]
  BY <1>2, RangesTypes DEF Current, Last
<1>4. CASE over = {}
  <2>. HIDE DEF over, join, joined, dropped
  <2>. QED BY <1>1, <1>4
<1>5. ASSUME over # {} PROVE nx \in 1 .. c - 1
  <2> DEFINE f == [n \in 1 .. c - 1 |-> Dist(n)]
  <2>1. \A i \in 1 .. c - 1 : f[i] \in Int /\ f[i] = Dist(i)
    <3>1. \A i \in 1 .. c : x.ranges[i].seek_start \in Int /\ x.ranges[i].seek_end \in Int
      BY <1>2, <1>3, RangesTypes
    <3>2. \A i \in 1 .. c - 1 : Dist(i) \in Int
      BY <1>3, <3>1
    <3>. HIDE DEF Dist
    <3>. QED BY <3>2
  <2>. HIDE DEF f, Dist
  <2>2. c - 1 \in Nat /\ over \in SUBSET (1 .. c - 1)
    BY <1>3
  <2>. HIDE DEF over
  <2>3. \E n \in over : \A i \in over : f[n] <= f[i]
    BY <1>5, <2>1, <2>2, LeastValue
  <2> DEFINE T == {n \in over : \A m \in over : Dist(n) <= Dist(m)}
  <2>4. T # {}
    BY <2>1, <2>2, <2>3
  <2>5. T \in SUBSET Nat /\ T \subseteq 1 .. c - 1
    <3>1. T \subseteq over
      OBVIOUS
    <3>2. 1 .. c - 1 \subseteq Nat
      BY <1>3
    <3>. HIDE DEF T, c
    <3>. QED BY <2>2, <3>1, <3>2
  <2>. HIDE DEF T
  <2>6. Min(T) \in T
    BY <2>4, <2>5, LeastNumber
  <2>. QED BY <2>5, <2>6 DEF T
<1>. HIDE DEF over, nx
<1>6. RangeFit(EmptyRange, x.ds)
  BY <1>2, EmptyRangeFits
<1>7. CASE over # {} /\ ~\A s \in Streams : join[s].ok
  <2>1. nx \in 1 .. Len(x.ranges) /\ nx # c
    BY <1>3, <1>5, <1>7
  <2>2. /\ DOMAIN dropped = Fields /\ dropped.ds = x.ds /\ dropped.seeking = x.seeking
        /\ dropped.ranges = [x.ranges EXCEPT ![nx] = EmptyRange]
    BY <1>2 DEF Fields
  <2>3. y = FreeEmptyRanges(dropped)
    BY <1>1, <1>7
  <2>. HIDE DEF dropped
  <2>4. /\ RangesFit(dropped.ranges, x.ds) /\ Len(dropped.ranges) = c
        /\ dropped.ranges[c] = x.ranges[c]
    BY <1>2, <1>3, <1>6, <2>1, <2>2, RangeSet
  <2>5. Trimmed(x, dropped)
    BY <1>3, <2>2, <2>4, SameReflexive DEF Trimmed, Queue, Current
  <2>6. Trimmed(dropped, y)
    BY <1>2, <2>3, <2>5, TrimmedShape, FreedTrimmed
  <2>. QED BY <2>5, <2>6, TrimmedTwice, TrimmedFits
<1>8. CASE over # {} /\ \A s \in Streams : join[s].ok
  <2>1. nx \in 1 .. Len(x.ranges) /\ nx # c /\ c # 1
    BY <1>3, <1>5, <1>8
  <2>2. ASSUME NEW s \in Streams
        PROVE  LET q == Queue(x, s) IN
               /\ QueueFit(qs[s], s, x.ds[s].selected)
               /\ Len(q.packets) <= Len(qs[s].packets)
               /\ \A i \in 1 .. Len(q.packets) : qs[s].packets[i] = q.packets[i]
               /\ Media(s) /\ q.packets # <<>> =>
                    q.last_dts <= qs[s].last_dts /\ qs[s].packets # <<>>
    <3> DEFINE q == Queue(x, s)
               r == x.ranges[nx].queues[s]
               j == JoinPoint(x.ds[s], q, r)
               d == x.ds[s]
               t == JoinQueues(q, j.rest)
    <3>1. q = cur.queues[s] /\ QueueFit(q, s, d.selected) /\ QueueFit(r, s, d.selected)
      BY <1>2, <1>3, <2>1, RangesTypes DEF Queue
    <3>2. d \in DemuxStreams /\ (Media(s) => d.eager = d.selected) /\ d.selected \in BOOLEAN
      BY <1>2, DsTypes DEF DsFit
    <3>3. join[s] = j /\ j.ok /\ qs[s] = t
      BY <1>8, <3>1
    <3>9. j = JoinPoint(d, q, r)
      OBVIOUS
    <3>. HIDE DEF q, r, d, j
    <3>4. QueueFit(j.rest, s, d.selected) /\ (Media(s) => Continues(q, j.rest))
      BY <3>1, <3>2, <3>3, <3>9, JoinPointFits, Zenon
    <3>10. t = JoinQueues(q, j.rest)
      OBVIOUS
    <3>. HIDE DEF t
    <3>5. QueueFit(t, s, d.selected) /\ Extended(q, j.rest, t)
      BY <3>1, <3>2, <3>4, <3>10, JoinedFits, Zenon
    <3>6. Media(s) /\ q.packets # <<>> => q.last_dts <= t.last_dts /\ t.packets # <<>>
      <4>1. Continues(q, j.rest) /\ q.packets # <<>> => q.last_dts <= t.last_dts
        BY <3>5 DEF Continues, Extended
      <4>2. q.packets # <<>> => t.packets # <<>>
        BY <3>5 DEF Extended
      <4>. QED BY <3>4, <4>1, <4>2, Zenon
    <3>7. /\ Len(q.packets) <= Len(t.packets)
          /\ \A i \in 1 .. Len(q.packets) : t.packets[i] = q.packets[i]
      BY <3>5 DEF Extended
    <3>. HIDE DEF qs, join
    <3>. QED BY <3>3, <3>5, <3>6, <3>7 DEF q, d
  <2>3. qs \in [Streams -> Queues]
    <3>1. \A s \in Streams : qs[s] \in Queues
      <4>. HIDE DEF qs
      <4>. QED BY <2>2 DEF QueueFit
    <3>. QED BY <3>1
  <2>. HIDE DEF qs, join
  <2> DEFINE T == [cur EXCEPT !.queues = qs]
             D == [s \in Streams |-> [x.ds[s] EXCEPT
                       !.fw_bytes = fw[s], !.refreshing = x.ds[s].selected]]
  <2>4. T \in Ranges /\ T.queues = qs
    <3>1. cur \in Ranges
      BY <1>2, <1>3, RangesTypes
    <3>. HIDE DEF cur
    <3>. QED BY <2>3, <3>1 DEF Ranges
  <2>5. ASSUME NEW s \in Streams
        PROVE  /\ D[s] \in DemuxStreams /\ D[s].selected = x.ds[s].selected
               /\ D[s].eager = x.ds[s].eager /\ D[s].refreshing = x.ds[s].selected
               /\ D[s].reader_head = x.ds[s].reader_head
    <3>1. x.ds[s] \in DemuxStreams
      BY <1>2, DsTypes
    <3>2. fw[s] \in Int
      <4>1. Len(qs[s].packets) \in Nat /\ x.ds[s].reader_head \in Nat
        BY <1>2, <2>3, DsTypes, QueueTypes
      <4>. QED BY <4>1 DEF Forward
    <3>. HIDE DEF fw
    <3>. QED BY <3>1, <3>2 DEF DemuxStreams
  <2>6. /\ DOMAIN joined = Fields /\ joined.ds = D /\ joined.seeking = x.seeking
        /\ joined.ranges = [[x.ranges EXCEPT ![c] = T] EXCEPT ![nx] = EmptyRange]
    BY <1>2, <1>3 DEF Fields
  <2>7. y = FreeEmptyRanges(QueueSeek(UpdateRange(joined, c),
                              x.ranges[nx].seek_end - Second, {"HR"}))
    BY <1>1, <1>8
  <2>8. DsFit(D)
    <3>1. D \in [Streams -> DemuxStreams]
      <4>1. D = [s \in Streams |-> D[s]]
        OBVIOUS
      <4>. HIDE DEF D
      <4>. QED BY <2>5, <4>1
    <3>. HIDE DEF D
    <3>. QED BY <1>2, <2>5, <3>1 DEF DsFit
  <2>. HIDE DEF joined, D, T
  <2>9. RangesFit(joined.ranges, D) /\ Len(joined.ranges) = c /\ joined.ranges[c] = T
    <3>1. RangesFit(x.ranges, D)
      BY <1>2, <2>5 DEF RangesFit, RangeFit
    <3>2. RangeFit(T, D)
      BY <2>2, <2>4, <2>5 DEF RangeFit
    <3> DEFINE R == [x.ranges EXCEPT ![c] = T]
    <3>3. RangesFit(R, D) /\ Len(R) = c /\ R[c] = T
      BY <1>3, <3>1, <3>2, RangeSet
    <3>. HIDE DEF R
    <3>4. RangeFit(EmptyRange, D)
      BY <2>8, EmptyRangeFits
    <3>5. joined.ranges = [R EXCEPT ![nx] = EmptyRange]
      BY <2>6 DEF R
    <3>. QED BY <1>3, <2>1, <3>3, <3>4, <3>5, RangeSet
  <2>10. Shape(joined)
    BY <1>2, <2>6, <2>8, <2>9 DEF Shape
  <2>11. ASSUME NEW s \in Streams
         PROVE  StreamFit(Queue(joined, s), D[s], s, Len(joined.ranges) = 1,
                          joined.seeking, last[s], next)
    <3> DEFINE q == Queue(x, s)
               t == qs[s]
               h == x.ds[s].reader_head
    <3>1. Queue(joined, s) = t
      BY <1>3, <2>4, <2>9 DEF Queue, Current
    <3>2. StreamFit(q, x.ds[s], s, Len(x.ranges) = 1, x.seeking, last[s], next)
      BY <1>2, QueueInRange DEF Fit, StreamsFit
    <3>3. /\ Len(q.packets) \in Nat /\ Len(t.packets) \in Nat /\ h \in Nat
          /\ q \in Queues /\ t \in Queues
      BY <1>2, <2>3, QueueTypes, DsTypes, QueueInRange
    <3>4. h <= Len(q.packets) /\ Len(q.packets) <= Len(t.packets)
      BY <2>2, <3>2, <3>3 DEF StreamFit
    <3>5. ASSUME Media(s), last[s] # 0
          PROVE  /\ h # 0 => t.packets[h].at > last[s]
                 /\ h = 0 => File[last[s]].time <= t.last_dts
                 /\ t.packets # <<>>
      <4>1. /\ h # 0 => q.packets[h].at > last[s]
            /\ h = 0 => File[last[s]].time <= q.last_dts
            /\ q.packets # <<>>
        BY <1>3, <2>1, <3>2, <3>5 DEF StreamFit, HeadFit
      <4>2. q.last_dts <= t.last_dts /\ t.packets # <<>>
        BY <2>2, <3>5, <4>1
      <4>3. h # 0 => t.packets[h] = q.packets[h]
        BY <2>2, <3>3, <3>4
      <4>4. q.last_dts \in Int /\ t.last_dts \in Int /\ File[last[s]].time \in Int
        <5>1. last[s] \in DOMAIN File
          BY <3>5, FileFacts DEF LastFit
        <5>2. File[last[s]].time \in Int
          BY <5>1, FileFacts
        <5>. QED BY <3>3, <5>2 DEF Queues, QueueRecords
      <4>. HIDE DEF q, t, h
      <4>. QED BY <4>1, <4>2, <4>3, <4>4
    <3>6. D[s].reader_head = h /\ ~(D[s].selected /\ ~D[s].refreshing)
      BY <2>5
    <3>. HIDE DEF q, t, h
    <3>. QED BY <3>1, <3>3, <3>4, <3>5, <3>6 DEF StreamFit, HeadFit, AheadFit
  <2>12. Fit(joined, last, next)
    BY <2>6, <2>10, <2>11, QueueInRange, SMTT(40) DEF Fit, StreamsFit
  <2> DEFINE u == UpdateRange(joined, c)
             v == QueueSeek(u, x.ranges[nx].seek_end - Second, {"HR"})
  <2>13. Trimmed(joined, u) /\ Fit(u, last, next)
    <3>1. c \in 1 .. Len(joined.ranges)
      BY <1>3, <2>9
    <3>. HIDE DEF c
    <3>2. Trimmed(joined, u)
      BY <2>10, <3>1, RangeUpdated
    <3>. QED BY <2>12, <3>2, TrimmedFits
  <2>14. Fit(v, last, next)
    <3>1. u.ds = D
      BY <2>6, <2>13 DEF Trimmed
    <3>. HIDE DEF u
    <3>2. \A s \in Streams : ~(u.ds[s].selected /\ ~u.ds[s].refreshing)
      BY <2>5, <3>1
    <3>. QED BY <2>13, <3>2, SeekQueued
  <2>15. y = FreeEmptyRanges(v)
    BY <2>7
  <2>. HIDE DEF v
  <2>16. Trimmed(v, y)
    BY <2>14, <2>15, FreedTrimmed DEF Fit
  <2>. QED BY <2>14, <2>16, TrimmedFits
<1>. QED BY <1>4, <1>7, <1>8

-----------------------------------------------------------------------------
(* So is no change at all.                                                 *)
LEMMA TrimmedSelf ==
  ASSUME NEW x, Shape(x)
  PROVE  Trimmed(x, x)
BY SameReflexive DEF Shape, Trimmed

(* The three parts of adjust_seek_range_on_packet() only change what is    *)
(* noted beside the packets.                                               *)
LEMMA KeyframeClosed ==
  ASSUME NEW x, Shape(x), NEW s \in Streams, NEW y, y = CloseKeyframe(x, s)
  PROVE  Trimmed(x, y)
<1> DEFINE q == Queue(x, s)
           kf == q.keyframe_latest
           ps == [q.packets EXCEPT ![kf].kf_seek_pts = q.keyframe_pts]
           a  == IF q.seek_start = NoPts THEN q.keyframe_pts ELSE q.seek_start
           b  == IF q.keyframe_end_pts # NoPts THEN q.keyframe_end_pts ELSE q.seek_end
           q1 == [q EXCEPT !.packets = ps, !.seek_start = a, !.seek_end = b]
           q2 == IF q.keyframe_pts # NoPts THEN AddIndexEntry(q1, kf) ELSE q1
           z  == SetQueue(x, s, q2)
<1>1. y = IF kf = 0 THEN x ELSE UpdateRange(z, Current(x))
  <2>1. Current(z) = Current(x)
    <3>1. /\ x.ranges \in Seq(Ranges) /\ DOMAIN x = Fields
          /\ Current(x) \in 1 .. Len(x.ranges)
      BY QueueInRange DEF Shape, RangesFit
    <3> DEFINE R == [x.ranges EXCEPT ![Current(x)].queues[s] = q2]
    <3>2. z.ranges = R
      BY <3>1 DEF SetQueue, Fields
    <3>3. Len(R) = Len(x.ranges)
      <4>1. DOMAIN R = DOMAIN x.ranges
        OBVIOUS
      <4>2. R = [i \in 1 .. Len(x.ranges) |-> R[i]]
        BY <3>1, <4>1, LenProperties
      <4>. HIDE DEF R
      <4>. QED BY <3>1, <4>2, LenProperties
    <3>. QED BY <3>2, <3>3 DEF Current
  <2>. QED BY <2>1 DEF CloseKeyframe
<1>2. CASE kf = 0
  BY <1>1, <1>2, TrimmedSelf
<1>3. CASE kf # 0
  <2>1. q \in Queues
    BY QueueInRange
  <2>2. kf \in Nat /\ q.keyframe_pts \in Int /\ a \in Int /\ b \in Int
    BY <2>1 DEF Queues, QueueRecords
  <2>3. /\ q.packets \in Seq(Packets) /\ Len(q.packets) \in Nat
        /\ DOMAIN q.packets = 1 .. Len(q.packets)
        /\ \A i \in 1 .. Len(q.packets) : q.packets[i] \in Packets
    BY <2>1, QueueTypes
  <2>. HIDE DEF q
  <2>4. ASSUME NEW i \in 1 .. Len(q.packets)
        PROVE  ps[i] \in Packets /\ ps[i].at = q.packets[i].at
    <3>1. q.packets[i] \in Packets
      BY <2>3
    <3>2. ps[i] = q.packets[i]
            \/ ps[i] = [q.packets[i] EXCEPT !.kf_seek_pts = q.keyframe_pts]
      BY <2>3
    <3>. HIDE DEF ps, kf
    <3>. QED BY <2>2, <3>1, <3>2 DEF Packets
  <2>5. ps \in [1 .. Len(q.packets) -> Packets]
    <3>1. DOMAIN ps = 1 .. Len(q.packets) /\ ps = [i \in DOMAIN ps |-> ps[i]]
      BY <2>3
    <3>. HIDE DEF ps
    <3>. QED BY <2>4, <3>1
  <2>6. ps \in Seq(Packets) /\ Len(ps) = Len(q.packets)
    BY <2>3, <2>5, FunctionIsSeq
  <2>15. /\ kf \in 1 .. Len(q.packets) /\ q.keyframe_pts # NoPts
         /\ Keyframe(q.packets[kf])
         /\ \A i \in DOMAIN q.index : q.index[i] <= kf
    BY <1>3, <2>1, <2>2 DEF Queues, PointersIn, IndexIn
  <2>16. ASSUME NEW i \in 1 .. Len(q.packets), q.packets[i].kf_seek_pts # NoPts
         PROVE  ps[i].kf_seek_pts # NoPts
    <3>1. q.packets[i] \in Packets
      BY <2>3
    <3>2. ps[i] = IF i = kf THEN [q.packets[i] EXCEPT !.kf_seek_pts = q.keyframe_pts]
                  ELSE q.packets[i]
      BY <2>3
    <3>. HIDE DEF ps, kf
    <3>. QED BY <2>15, <2>16, <3>1, <3>2 DEF Packets
  <2>17. ps[kf].kf_seek_pts # NoPts
    <3>1. q.packets[kf] \in Packets
      BY <2>3, <2>15
    <3>2. ps[kf] = [q.packets[kf] EXCEPT !.kf_seek_pts = q.keyframe_pts]
      BY <2>3, <2>15
    <3>. HIDE DEF ps, kf
    <3>. QED BY <2>15, <3>1, <3>2 DEF Packets
  <2>. HIDE DEF ps, a, b, kf
  <2>18. /\ q1 \in QueueRecords /\ q1.packets = ps /\ q1.last_dts = q.last_dts
         /\ q1.correct = q.correct /\ q1.keyframe_latest = kf
         /\ q1.keyframe_pts = q.keyframe_pts /\ q1.index = q.index
         /\ q1.next_prune_target = q.next_prune_target
         /\ q1.index_distance = q.index_distance
    BY <2>1, <2>2, <2>6 DEF Queues, QueueRecords, kf
  <2>. HIDE DEF q1
  <2>19. PointersIn(q1)
    <3>1. ps[kf].at = q.packets[kf].at
      BY <2>4, <2>15
    <3>2. q.next_prune_target <= Len(q.packets)
      BY <2>1 DEF Queues, PointersIn
    <3>. QED BY <2>3, <2>6, <2>15, <2>18, <3>1, <3>2 DEF PointersIn, Keyframe
  <2>20. IndexIn(q1)
    <3>1. IndexIn(q)
      BY <2>1 DEF Queues
    <3>. QED BY <2>6, <2>15, <2>16, <2>18, <3>1 DEF IndexIn
  <2>7. /\ q1 \in Queues /\ q1.packets = ps /\ q1.last_dts = q.last_dts
        /\ q1.correct = q.correct
    BY <2>18, <2>19, <2>20 DEF Queues
  <2>8. Noted(q1, q2)
    <3>1. Noted(q1, q1)
      BY <2>7 DEF Noted
    <3>2. Addable(q1, kf)
      BY <2>2, <2>6, <2>15, <2>17, <2>18 DEF Addable
    <3>3. Noted(q1, AddIndexEntry(q1, kf))
      BY <2>7, <3>2, IndexEntryAdded DEF Added
    <3>. QED BY <3>1, <3>3
  <2>. HIDE DEF q2
  <2>9. q2 \in Queues /\ Same(q, q2) /\ q2.correct = q.correct
    BY <2>4, <2>6, <2>7, <2>8 DEF Noted, Same
  <2>21. ASSUME Media(s) PROVE Dated(q2)
    <3>1. Dated(q)
      <4>1. QueueFit(q, s, x.ds[s].selected)
        BY QueueInRange DEF q
      <4>. QED BY <2>21, <4>1 DEF QueueFit, InFileOrder
    <3>2. ASSUME NEW i \in 1 .. Len(q.packets)
          PROVE  ps[i].kf_seek_pts \in {NoPts, Time(ps[i])}
      <4>1. q.packets[i] \in Packets /\ Time(ps[i]) = Time(q.packets[i])
        BY <2>3, <2>4 DEF Time
      <4>2. q.packets[i].kf_seek_pts \in {NoPts, Time(q.packets[i])}
        BY <2>3, <3>1 DEF Dated
      <4>3. i = kf => q.keyframe_pts = Time(q.packets[i])
        BY <1>3, <3>1 DEF Dated, kf
      <4>4. ps[i] = IF i = kf THEN [q.packets[i] EXCEPT !.kf_seek_pts = q.keyframe_pts]
                    ELSE q.packets[i]
        BY <2>3 DEF ps
      <4>5. ps[i].kf_seek_pts = IF i = kf THEN q.keyframe_pts ELSE q.packets[i].kf_seek_pts
        BY <4>1, <4>4 DEF Packets
      <4>. QED BY <4>1, <4>2, <4>3, <4>5
    <3>3. q.keyframe_pts = Time(ps[kf])
      BY <1>3, <2>4, <2>15, <3>1 DEF Dated, Time, kf
    <3>4. Dated(q1)
      <4>1. DOMAIN q1.packets = 1 .. Len(q.packets)
        BY <2>5, <2>18
      <4>. QED BY <2>18, <3>2, <3>3, <4>1 DEF Dated
    <3>. QED BY <2>8, <3>4, NotedSame
  <2>10. Trimmed(x, z) /\ Current(z) = Current(x)
    BY <2>9, <2>21, QueueNoted DEF q
  <2>. HIDE DEF z
  <2>11. Shape(z)
    BY <2>10, TrimmedShape
  <2>12. Current(x) \in 1 .. Len(z.ranges)
    BY <2>10, <2>11, QueueInRange
  <2>13. y = UpdateRange(z, Current(x))
    BY <1>1, <1>3 DEF kf
  <2>14. Trimmed(z, y)
    BY <2>11, <2>12, <2>13, RangeUpdated
  <2>. QED BY <2>10, <2>14, TrimmedTwice
<1>. QED BY <1>2, <1>3

(* The second of them.                                                     *)
LEMMA KeyframeStarted ==
  ASSUME NEW x, Shape(x), NEW s \in Streams, NEW y, y = StartKeyframe(x, s, 0)
  PROVE  Trimmed(x, y)
<1> DEFINE q == Queue(x, s)
           q1 == [q EXCEPT !.keyframe_latest = 0,
                           !.keyframe_pts = NoPts, !.keyframe_end_pts = NoPts]
<1>1. q \in Queues /\ y = SetQueue(x, s, q1)
  BY QueueInRange DEF StartKeyframe
<1>. HIDE DEF q
<1>2. /\ q1 \in QueueRecords /\ q1.packets = q.packets /\ q1.last_dts = q.last_dts
      /\ q1.correct = q.correct /\ q1.keyframe_latest = 0
      /\ q1.index = q.index /\ q1.index_distance = q.index_distance
      /\ q1.next_prune_target = q.next_prune_target
  <2>1. NoPts \in Int
    BY DEF NoPts
  <2>. QED BY <1>1, <2>1 DEF Queues, QueueRecords
<1>. HIDE DEF q1
<1>3. q1 \in Queues
  <2>1. PointersIn(q) /\ IndexIn(q) /\ 0 <= Len(q.packets)
    BY <1>1, QueueTypes DEF Queues
  <2>2. PointersIn(q1)
    BY <1>2, <2>1 DEF PointersIn
  <2>3. IndexIn(q1)
    BY <1>2, <2>1 DEF IndexIn
  <2>. QED BY <1>2, <2>2, <2>3 DEF Queues
<1>4. Same(q, q1)
  BY <1>2 DEF Same
<1>5. ASSUME Media(s) PROVE Dated(q1)
  <2>1. QueueFit(q, s, x.ds[s].selected)
    BY QueueInRange DEF q
  <2>. QED BY <1>2, <1>5, <2>1 DEF QueueFit, InFileOrder, Dated
<1>. QED BY <1>1, <1>2, <1>3, <1>4, <1>5, QueueNoted DEF q

(* MP_PTS_MIN and MP_PTS_MAX of two values.                                *)
LEMMA PtsOfTwo ==
  ASSUME NEW u \in Int, NEW t \in Int
  PROVE  /\ PtsMin({u, t}) \in Int /\ PtsMax({u, t}) \in Int
         /\ t # NoPts => /\ PtsMin({u, t}) # NoPts
                         /\ u = NoPts => PtsMin({u, t}) = t
                         /\ u # NoPts /\ u <= t => PtsMin({u, t}) = u
<1>1. Bounded({u, t})
  <2>1. Bounded({})
    BY DEF Bounded
  <2>2. Bounded({t} \cup {})
    BY <2>1, BoundedAdd
  <2>3. Bounded({u} \cup ({t} \cup {}))
    BY <2>2, BoundedAdd
  <2>4. {u, t} = {u} \cup ({t} \cup {})
    OBVIOUS
  <2>. QED BY <2>3, <2>4
<1>2. ASSUME t # NoPts
      PROVE  /\ PtsMin({u, t}) # NoPts
             /\ u = NoPts => PtsMin({u, t}) = t
             /\ u # NoPts /\ u <= t => PtsMin({u, t}) = u
  <2> DEFINE T == {u, t} \ {NoPts}
  <2>1. PtsMin({u, t}) = Min(T)
    BY <1>2 DEF PtsMin
  <2>2. T \in SUBSET Int /\ T # {}
    BY <1>2
  <2>3. PICK b \in Nat : \A i \in {u, t} : -b <= i /\ i <= b
    BY <1>1 DEF Bounded
  <2>4. Min(T) \in T /\ \A i \in T : Min(T) <= i
    <3>. HIDE DEF T
    <3>1. \A i \in T : -b <= i /\ i <= b
      BY <2>3 DEF T
    <3>. QED BY <2>2, <3>1, Extremes
  <2> DEFINE m == Min(T)
  <2>5. /\ m # NoPts /\ m \in {u, t}
        /\ u # NoPts => m <= u
    BY <2>4
  <2>. HIDE DEF m
  <2>6. /\ u = NoPts => m = t
        /\ u # NoPts /\ u <= t => m = u
    BY <2>5
  <2>. QED BY <2>1, <2>5, <2>6 DEF m
<1>. QED BY <1>1, <1>2, BoundedPts

(* No packet before the latest keyframe.                                   *)
Later(q, t) == q.keyframe_latest # 0 => Time(q.packets[q.keyframe_latest]) <= t

(* The third of them, for the time of a packet that is not before the      *)
(* latest keyframe.                                                        *)
LEMMA TimeAdded ==
  ASSUME NEW x, Shape(x), NEW s \in Streams, NEW t \in Nat,
         Media(s) => Later(Queue(x, s), t),
         NEW y, y = AddTime(x, s, t)
  PROVE  Trimmed(x, y)
<1> DEFINE q == Queue(x, s)
           a == PtsMin({q.keyframe_pts, t})
           b == PtsMax({q.keyframe_end_pts, t})
           q1 == [q EXCEPT !.keyframe_pts = a, !.keyframe_end_pts = b]
<1>1. q \in Queues /\ y = SetQueue(x, s, q1)
  BY QueueInRange DEF AddTime
<1>6. Media(s) => Later(q, t) /\ Dated(q)
  <2>1. QueueFit(q, s, x.ds[s].selected)
    BY QueueInRange
  <2>. QED BY <2>1 DEF QueueFit, InFileOrder
<1>. HIDE DEF q
<1>2. /\ a \in Int /\ b \in Int /\ a # NoPts
      /\ q.keyframe_pts # NoPts /\ q.keyframe_pts <= t => a = q.keyframe_pts
  <2>1. q.keyframe_pts \in Int /\ q.keyframe_end_pts \in Int
    BY <1>1 DEF Queues, QueueRecords
  <2>2. t # NoPts
    BY DEF NoPts
  <2> DEFINE k == q.keyframe_pts
             e == q.keyframe_end_pts
  <2>. HIDE DEF k, e
  <2>3. k \in Int /\ e \in Int
    BY <2>1 DEF k, e
  <2>4. /\ PtsMin({k, t}) \in Int /\ PtsMin({k, t}) # NoPts
        /\ k # NoPts /\ k <= t => PtsMin({k, t}) = k
    BY <2>2, <2>3, PtsOfTwo
  <2>5. PtsMin({e, t}) \in Int /\ PtsMax({e, t}) \in Int
    BY <2>3, PtsOfTwo
  <2>. QED BY <2>4, <2>5 DEF k, e
<1>. HIDE DEF a, b
<1>3. /\ q1 \in QueueRecords /\ q1.packets = q.packets /\ q1.last_dts = q.last_dts
      /\ q1.correct = q.correct /\ q1.keyframe_latest = q.keyframe_latest
      /\ q1.keyframe_pts = a
      /\ q1.index = q.index /\ q1.index_distance = q.index_distance
      /\ q1.next_prune_target = q.next_prune_target
  BY <1>1, <1>2 DEF Queues, QueueRecords
<1>. HIDE DEF q1
<1>4. q1 \in Queues
  <2>1. PointersIn(q) /\ IndexIn(q)
    BY <1>1 DEF Queues
  <2>2. PointersIn(q1)
    BY <1>2, <1>3, <2>1 DEF PointersIn
  <2>3. IndexIn(q1)
    BY <1>3, <2>1 DEF IndexIn
  <2>. QED BY <1>3, <2>2, <2>3 DEF Queues
<1>5. Same(q, q1)
  BY <1>3 DEF Same
<1>7. ASSUME Media(s) PROVE Dated(q1)
  <2>1. q.keyframe_latest # 0 => a = q.keyframe_pts
    BY <1>1, <1>2, <1>6, <1>7 DEF Later, Dated, Queues, PointersIn
  <2>. QED BY <1>3, <1>6, <1>7, <2>1 DEF Dated
<1>. QED BY <1>1, <1>3, <1>4, <1>5, <1>7, QueueNoted DEF q

(* What is overwritten does not matter.                                    *)
LEMMA Overwritten ==
  ASSUME NEW f, NEW a, NEW b, NEW c
  PROVE  [[f EXCEPT ![a] = b] EXCEPT ![a] = c] = [f EXCEPT ![a] = c]
OBVIOUS

(* The same for the queue of a stream in the current range.                *)
LEMMA QueueOverwritten ==
  ASSUME NEW x, Shape(x), NEW s \in Streams, NEW q1, NEW q2,
         NEW y, y = SetQueue(x, s, q1)
  PROVE  SetQueue(y, s, q2) = SetQueue(x, s, q2) /\ Queue(y, s) = q1
<1> DEFINE c  == Len(x.ranges)
           r  == x.ranges[c]
           Q(q) == [r.queues EXCEPT ![s] = q]
           W(q) == [r EXCEPT !.queues = Q(q)]
           R(q) == [x.ranges EXCEPT ![c] = W(q)]
           X(q) == [x EXCEPT !.ranges = R(q)]
<1>1. /\ DOMAIN x = Fields /\ x.ranges \in Seq(Ranges) /\ c \in 1 .. c /\ c \in Nat
      /\ r \in Ranges /\ r.queues \in [Streams -> Queues] /\ DOMAIN x.ranges = 1 .. c
  BY RangesTypes, QueueInRange DEF Shape, Current
<1>2. ASSUME NEW q PROVE SetQueue(x, s, q) = X(q)
  BY DEF SetQueue, Current
<1>3. y = X(q1)
  BY <1>2
<1>4. Q(q1)[s] = q1
  BY <1>1
<1>5. W(q1).queues = Q(q1)
  <2>. HIDE DEF Q
  <2>. QED BY <1>1 DEF Ranges
<1>6. R(q1)[c] = W(q1) /\ Len(R(q1)) = c
  <2>. HIDE DEF W, r
  <2>1. R(q1)[c] = W(q1) /\ DOMAIN R(q1) = 1 .. c /\ R(q1) = [i \in 1 .. c |-> R(q1)[i]]
    BY <1>1
  <2>. HIDE DEF R
  <2>. QED BY <1>1, <2>1, LenProperties
<1>7. y.ranges = R(q1)
  <2>. HIDE DEF R
  <2>. QED BY <1>1, <1>3 DEF Fields
<1>8. Current(y) = c
  BY <1>6, <1>7 DEF Current
<1>9. Queue(y, s) = q1
  BY <1>4, <1>5, <1>6, <1>7, <1>8 DEF Queue
<1>10. SetQueue(y, s, q2) = X(q2)
  <2>1. SetQueue(y, s, q2) =
          [y EXCEPT !.ranges = [y.ranges EXCEPT ![c] = [y.ranges[c] EXCEPT
             !.queues = [y.ranges[c].queues EXCEPT ![s] = q2]]]]
    BY <1>8 DEF SetQueue
  <2>2. [y.ranges[c].queues EXCEPT ![s] = q2] = Q(q2)
    BY <1>4, <1>5, <1>6, <1>7, Overwritten
  <2>3. [y.ranges[c] EXCEPT !.queues = Q(q2)] = W(q2)
    <3>. HIDE DEF Q
    <3>. QED BY <1>6, <1>7, Overwritten
  <2>4. [y.ranges EXCEPT ![c] = W(q2)] = R(q2)
    <3>. HIDE DEF W
    <3>. QED BY <1>7, Overwritten
  <2>5. [y EXCEPT !.ranges = R(q2)] = X(q2)
    <3>. HIDE DEF R
    <3>. QED BY <1>3, Overwritten
  <2>. QED BY Zenon, <2>1, <2>2, <2>3, <2>4, <2>5
<1>. QED BY <1>2, <1>9, <1>10

(* The second and the third for a keyframe at the end of the queue.        *)
LEMMA KeyframeBegun ==
  ASSUME NEW x, Shape(x), NEW s \in Streams,
         NEW tail, tail = Len(Queue(x, s).packets), tail # 0,
         Keyframe(Queue(x, s).packets[tail]),
         NEW t \in Nat, t = Time(Queue(x, s).packets[tail]),
         NEW y, y = AddTime(StartKeyframe(x, s, tail), s, t)
  PROVE  Trimmed(x, y)
<1> DEFINE q == Queue(x, s)
           q1 == [q EXCEPT !.keyframe_latest = tail,
                           !.keyframe_pts = NoPts, !.keyframe_end_pts = NoPts]
           x1 == SetQueue(x, s, q1)
           a == PtsMin({q1.keyframe_pts, t})
           b == PtsMax({q1.keyframe_end_pts, t})
           q2 == [q1 EXCEPT !.keyframe_pts = a, !.keyframe_end_pts = b]
<1>1. q \in Queues
  BY QueueInRange
<1>2. /\ tail \in Nat /\ tail = Len(q.packets) /\ Keyframe(q.packets[tail])
      /\ t = Time(q.packets[tail])
  BY <1>1, QueueTypes
<1>3. y = AddTime(x1, s, t)
  BY DEF StartKeyframe
<1>11. Media(s) => Dated(q)
  <2>1. QueueFit(q, s, x.ds[s].selected)
    BY QueueInRange
  <2>. QED BY <2>1 DEF QueueFit, InFileOrder
<1>. HIDE DEF q
<1>4. SetQueue(x1, s, q2) = SetQueue(x, s, q2) /\ Queue(x1, s) = q1
  BY QueueOverwritten
<1>5. y = SetQueue(x, s, q2)
  BY <1>3, <1>4 DEF AddTime
<1>. HIDE DEF x1
<1>6. /\ q1 \in QueueRecords /\ q1.packets = q.packets /\ q1.last_dts = q.last_dts
      /\ q1.correct = q.correct /\ q1.keyframe_latest = tail
      /\ q1.keyframe_pts = NoPts
      /\ q1.index = q.index /\ q1.index_distance = q.index_distance
      /\ q1.next_prune_target = q.next_prune_target
  <2>1. NoPts \in Int
    BY DEF NoPts
  <2>. QED BY <1>1, <1>2, <2>1 DEF Queues, QueueRecords
<1>. HIDE DEF q1
<1>7. a \in Int /\ b \in Int /\ a # NoPts /\ a = t
  <2> DEFINE k == q1.keyframe_pts
             e == q1.keyframe_end_pts
  <2>1. k \in Int /\ e \in Int /\ k = NoPts
    BY <1>6 DEF QueueRecords
  <2>2. t # NoPts
    BY DEF NoPts
  <2>. HIDE DEF k, e
  <2>3. PtsMin({k, t}) \in Int /\ PtsMin({k, t}) # NoPts /\ PtsMin({k, t}) = t
    BY <2>1, <2>2, PtsOfTwo
  <2>4. PtsMin({e, t}) \in Int /\ PtsMax({e, t}) \in Int
    BY <2>1, PtsOfTwo
  <2>. QED BY <2>3, <2>4 DEF k, e
<1>. HIDE DEF a, b
<1>8. /\ q2 \in QueueRecords /\ q2.packets = q.packets /\ q2.last_dts = q.last_dts
      /\ q2.correct = q.correct /\ q2.keyframe_latest = tail /\ q2.keyframe_pts = a
      /\ q2.index = q.index /\ q2.index_distance = q.index_distance
      /\ q2.next_prune_target = q.next_prune_target
  BY <1>6, <1>7 DEF QueueRecords
<1>. HIDE DEF q2
<1>9. q2 \in Queues
  <2>1. PointersIn(q) /\ IndexIn(q)
    BY <1>1 DEF Queues
  <2>2. PointersIn(q2)
    BY <1>2, <1>7, <1>8, <2>1 DEF PointersIn
  <2>3. IndexIn(q2)
    BY <1>2, <1>8, <2>1 DEF IndexIn
  <2>. QED BY <1>8, <2>2, <2>3 DEF Queues
<1>10. Same(q, q2)
  BY <1>8 DEF Same
<1>12. Media(s) => Dated(q2)
  BY <1>2, <1>7, <1>8, <1>11 DEF Dated
<1>. QED BY <1>5, <1>8, <1>9, <1>10, <1>12, QueueNoted DEF q

(* The attempt to join that follows when the seek range has grown.         *)
LEMMA JoinIfLongerFits ==
  ASSUME NEW x, NEW last, NEW next, LastFit(last), Fit(x, last, next),
         NEW old, NEW y, y = JoinIfLonger(old, x)
  PROVE  Fit(y, last, next)
<1>1. y = AttemptRangeJoining(x) \/ y = x
  BY DEF JoinIfLonger
<1>. QED BY <1>1, RangesJoinedFits

(* adjust_seek_range_on_packet() with a packet ...                         *)
LEMMA AdjustedOnPacket ==
  ASSUME NEW x, NEW last, NEW next, LastFit(last), Fit(x, last, next),
         NEW s \in Streams, Queue(x, s).packets # <<>>,
         NEW y, y = AdjustOnPacket(x, s)
  PROVE  Fit(y, last, next)
<1> DEFINE tail == Len(Queue(x, s).packets)
           dp   == Queue(x, s).packets[tail]
           t    == Time(dp)
           x1   == CloseKeyframe(x, s)
           x3   == AddTime(StartKeyframe(x1, s, tail), s, t)
<1>1. Shape(x) /\ Queue(x, s) \in Queues
  BY QueueInRange DEF Fit
<1>2. tail \in Nat /\ t \in Nat /\ tail # 0 /\ tail \in 1 .. tail
  <2>1. tail \in 1 .. tail /\ tail \in Nat
    BY <1>1, QueueTypes
  <2>. QED BY <1>1, <2>1, QueueTypes
<1>3. y = x \/ y = AddTime(x, s, t) \/ (Keyframe(dp) /\ y = JoinIfLonger(x, x3))
  BY Zenon DEF AdjustOnPacket
<1>9. ASSUME Media(s) PROVE Later(Queue(x, s), t)
  <2> DEFINE q == Queue(x, s)
             kf == q.keyframe_latest
  <2>. SUFFICES ASSUME kf # 0 PROVE Time(q.packets[kf]) <= Time(q.packets[tail])
    BY DEF Later
  <2>1. InFileOrder(q, s)
    <3>1. QueueFit(q, s, x.ds[s].selected)
      BY <1>1, QueueInRange
    <3>. QED BY <1>9, <3>1 DEF QueueFit
  <2>. HIDE DEF q
  <2>2. q \in Queues /\ tail = Len(q.packets)
    BY <1>1 DEF q
  <2>. HIDE DEF tail
  <2>3. kf \in 1 .. tail
    BY <1>2, <2>2 DEF Queues, QueueRecords, PointersIn
  <2>. HIDE DEF kf
  <2>4. \A i \in 1 .. tail : /\ q.packets[i].at \in DOMAIN File
                             /\ File[q.packets[i].at].stream = s
                             /\ Time(q.packets[i]) \in Nat
    BY <2>1, <2>2, QueueTypes DEF InFileOrder
  <2>5. CASE kf = tail
    BY <1>2, <2>4, <2>5
  <2>6. CASE kf < tail
    <3>1. q.packets[kf].at < q.packets[tail].at
      BY <1>2, <2>1, <2>2, <2>3, <2>6, QueueTypes DEF InFileOrder
    <3>2. Time(q.packets[kf]) < Time(q.packets[tail])
      BY <1>2, <2>3, <2>4, <3>1, FileFacts, ZenonT(40) DEF Time
    <3>. QED BY <1>2, <2>3, <2>4, <3>2
  <2>. QED BY <1>2, <2>3, <2>5, <2>6
<1>10. t = Time(dp)
  OBVIOUS
<1>. HIDE DEF t
<1>4. Trimmed(x, AddTime(x, s, t))
  BY <1>1, <1>2, <1>9, TimeAdded
<1>5. Trimmed(x, x1)
  BY <1>1, KeyframeClosed
<1>. HIDE DEF x1
<1>6. /\ Shape(x1) /\ Len(Queue(x1, s).packets) = tail
      /\ Queue(x1, s).packets[tail].at = dp.at
  BY <1>1, <1>2, <1>5, TrimmedShape DEF Trimmed, Same
<1>7. ASSUME Keyframe(dp), y = JoinIfLonger(x, x3)
      PROVE  Fit(y, last, next)
  <2>1. /\ Keyframe(Queue(x1, s).packets[tail])
        /\ t = Time(Queue(x1, s).packets[tail])
    BY <1>6, <1>7, <1>10 DEF Keyframe, Time
  <2>. HIDE DEF tail, dp
  <2>2. Trimmed(x1, x3)
    BY <1>2, <1>6, <2>1, KeyframeBegun
  <2>. HIDE DEF x3
  <2>3. Fit(x3, last, next)
    BY <1>5, <2>2, TrimmedFits
  <2>. QED BY <1>7, <2>3, JoinIfLongerFits
<1>8. CASE y = AddTime(x, s, t)
  BY <1>4, <1>8, TrimmedFits
<1>. QED BY <1>3, <1>7, <1>8

(* ... and at the end of the file.                                         *)
LEMMA AdjustedOnEof ==
  ASSUME NEW x, NEW last, NEW next, LastFit(last), Fit(x, last, next),
         NEW s \in Streams, NEW y, y = AdjustOnEof(x, s)
  PROVE  Fit(y, last, next)
<1> DEFINE x1 == CloseKeyframe(x, s)
           x2 == StartKeyframe(x1, s, 0)
<1>1. y = x \/ y = JoinIfLonger(x, x2)
  BY Zenon DEF AdjustOnEof
<1>2. Trimmed(x, x1) /\ Shape(x)
  BY KeyframeClosed DEF Fit
<1>. HIDE DEF x1
<1>3. Trimmed(x1, x2)
  BY <1>2, TrimmedShape, KeyframeStarted
<1>. HIDE DEF x2
<1>4. Fit(x2, last, next)
  BY <1>2, <1>3, TrimmedFits
<1>5. CASE y = JoinIfLonger(x, x2)
  BY <1>4, <1>5, JoinIfLongerFits
<1>. QED BY <1>1, <1>5

(* Streams that differ in what does not matter here.                       *)
LEMMA OtherDs ==
  ASSUME NEW x, NEW last, NEW next, Fit(x, last, next),
         NEW y, DOMAIN y = Fields, y.ranges = x.ranges, y.seeking = x.seeking,
         y.ds \in [Streams -> DemuxStreams],
         \A s \in Streams : /\ y.ds[s].selected = x.ds[s].selected
                            /\ y.ds[s].eager = x.ds[s].eager
                            /\ y.ds[s].refreshing = x.ds[s].refreshing
                            /\ y.ds[s].reader_head = x.ds[s].reader_head
  PROVE  Fit(y, last, next)
<1>1. Shape(y)
  BY DEF Fit, Shape, DsFit, RangesFit, RangeFit
<1>2. StreamsFit(y.ranges, y.ds, y.seeking, last, next)
  BY DEF Fit, StreamsFit, StreamFit, AheadFit
<1>. QED BY <1>1, <1>2 DEF Fit

(* read_packet() at the end of the file, for one stream ...                *)
LEMMA StreamClosed ==
  ASSUME NEW x, NEW last, NEW next, LastFit(last), Fit(x, last, next),
         NEW s \in Streams, NEW y, y = CloseStream(x, s)
  PROVE  Fit(y, last, next)
<1> DEFINE x1 == IF x.ds[s].eof THEN x ELSE AdjustOnEof(x, s)
<1>1. y = [x1 EXCEPT !.ds[s].eof = TRUE]
  BY DEF CloseStream
<1>2. Fit(x1, last, next)
  BY AdjustedOnEof
<1>. HIDE DEF x1
<1>3. DOMAIN x1 = Fields /\ x1.ds \in [Streams -> DemuxStreams]
  BY <1>2 DEF Fit, Shape, DsFit
<1> DEFINE d == [x1.ds[s] EXCEPT !.eof = TRUE]
<1>4. /\ DOMAIN y = Fields /\ y.ranges = x1.ranges /\ y.seeking = x1.seeking
      /\ y.ds = [x1.ds EXCEPT ![s] = d]
  BY <1>1, <1>3 DEF Fields
<1>5. /\ d \in DemuxStreams /\ d.selected = x1.ds[s].selected
      /\ d.eager = x1.ds[s].eager /\ d.refreshing = x1.ds[s].refreshing
      /\ d.reader_head = x1.ds[s].reader_head
  BY <1>3 DEF DemuxStreams
<1>. HIDE DEF d
<1>6. /\ y.ds \in [Streams -> DemuxStreams]
      /\ \A i \in Streams : y.ds[i] = IF i = s THEN d ELSE x1.ds[i]
  BY <1>3, <1>4, <1>5
<1>7. \A i \in Streams : /\ y.ds[i].selected = x1.ds[i].selected
                         /\ y.ds[i].eager = x1.ds[i].eager
                         /\ y.ds[i].refreshing = x1.ds[i].refreshing
                         /\ y.ds[i].reader_head = x1.ds[i].reader_head
  BY <1>5, <1>6
<1>. QED BY <1>2, <1>4, <1>6, <1>7, OtherDs

(* ... and for all of them, one after the other.                           *)
LEMMA FileEnded ==
  ASSUME NEW x, NEW last, NEW next, LastFit(last), Fit(x, last, next),
         NEW y, y = EndOfFile(x)
  PROVE  Fit(y, last, next)
<1> DEFINE m == NumStreams
           Step(f, i) == IF i = 0 THEN x ELSE CloseStream(f[i - 1], i)
           G(f, k) == [i \in 0 .. k |-> Step(f, i)]
           P == {k \in Nat : \E f : f = G(f, k)}
<1>1. m \in Nat /\ Streams = 1 .. m
  BY FileFacts
<1>. HIDE DEF m
<1>2. 0 \in P
  <2> DEFINE f == [i \in 0 .. 0 |-> x]
  <2>1. f = G(f, 0)
    <3>1. \A i \in 0 .. 0 : Step(f, i) = x
      OBVIOUS
    <3>. HIDE DEF Step
    <3>. QED BY <3>1
  <2>. QED BY <2>1
<1>3. ASSUME NEW k \in Nat, k \in P PROVE k + 1 \in P
  <2>1. PICK f : f = G(f, k)
    BY <1>3
  <2>2. \A i \in 0 .. k : f[i] = Step(f, i)
    BY <2>1
  <2> DEFINE g == [i \in 0 .. k + 1 |->
                     IF i = k + 1 THEN CloseStream(f[k], k + 1) ELSE f[i]]
  <2>3. \A i \in 0 .. k : g[i] = f[i]
    OBVIOUS
  <2>4. g[k + 1] = CloseStream(f[k], k + 1)
    OBVIOUS
  <2>5. DOMAIN g = 0 .. k + 1 /\ g = [i \in 0 .. k + 1 |-> g[i]]
    OBVIOUS
  <2>. HIDE DEF g
  <2>6. ASSUME NEW i \in 0 .. k + 1 PROVE g[i] = Step(g, i)
    <3>1. CASE i = k + 1
      BY <2>3, <2>4, <3>1
    <3>2. CASE i \in 0 .. k
      <4>1. f[i] = Step(f, i)
        BY <2>2, <3>2
      <4>2. i # 0 => i - 1 \in 0 .. k
        BY <3>2
      <4>3. Step(g, i) = Step(f, i)
        BY <2>3, <4>2
      <4>. QED BY <2>3, <3>2, <4>1, <4>3
    <3>. QED BY <3>1, <3>2
  <2>7. g = G(g, k + 1)
    <3>. HIDE DEF Step
    <3>. QED BY <2>5, <2>6
  <2>. QED BY <2>7
<1>4. m \in P
  <2>. HIDE DEF P
  <2>. QED BY <1>1, <1>2, <1>3, Induction
<1> DEFINE h == CHOOSE f : f = G(f, m)
<1>5. y = h[m]
  BY DEF EndOfFile, m
<1>6. h = G(h, m)
  <2>1. \E f : f = G(f, m)
    BY <1>4
  <2>. HIDE DEF G
  <2>. QED BY <2>1
<1>. HIDE DEF h
<1>7. \A i \in 0 .. m : h[i] = Step(h, i)
  BY <1>6
<1> DEFINE Q == {k \in Nat : k <= m => Fit(h[k], last, next)}
<1>8. 0 \in Q
  BY <1>1, <1>7
<1>9. ASSUME NEW k \in Nat, k \in Q PROVE k + 1 \in Q
  <2>. SUFFICES ASSUME k + 1 <= m PROVE Fit(h[k + 1], last, next)
    OBVIOUS
  <2>1. Fit(h[k], last, next) /\ k + 1 \in Streams
    BY <1>1, <1>9
  <2>2. h[k + 1] = CloseStream(h[k], k + 1)
    BY <1>1, <1>7
  <2>. QED BY <2>1, <2>2, StreamClosed
<1>10. m \in Q
  <2>. HIDE DEF Q
  <2>. QED BY <1>1, <1>8, <1>9, Induction
<1>. QED BY <1>1, <1>5, <1>10

-----------------------------------------------------------------------------
(* What is said of a stream depends on its queue in the current range.     *)
LEMMA OneStream ==
  ASSUME NEW x, NEW last, NEW next \in Int, Fit(x, last, next),
         NEW s \in Streams, NEW d \in DemuxStreams,
         d.selected = x.ds[s].selected, d.eager = x.ds[s].eager,
         NEW y, DOMAIN y = Fields, y.seeking = x.seeking,
         y.ds = [x.ds EXCEPT ![s] = d],
         RangesFit(y.ranges, x.ds), Len(x.ranges) = 1 => Len(y.ranges) = 1,
         \A i \in Streams \ {s} : Queue(y, i) = Queue(x, i),
         NEW last2, \A i \in Streams \ {s} : last2[i] = last[i],
         NEW next2 \in Int, next <= next2,
         StreamFit(Queue(y, s), d, s, Len(y.ranges) = 1, x.seeking, last2[s], next2)
  PROVE  Fit(y, last2, next2)
<1>1. /\ DOMAIN x = Fields /\ x.seeking \in BOOLEAN /\ DsFit(x.ds)
      /\ x.ds \in [Streams -> DemuxStreams]
  BY DEF Fit, Shape, DsFit
<1>2. /\ y.ds \in [Streams -> DemuxStreams]
      /\ \A i \in Streams : y.ds[i] = IF i = s THEN d ELSE x.ds[i]
  BY <1>1
<1>3. /\ DsFit(y.ds)
      /\ \A i \in Streams : y.ds[i].selected = x.ds[i].selected
  BY <1>1, <1>2 DEF DsFit
<1>4. RangesFit(y.ranges, y.ds)
  BY <1>3 DEF RangesFit, RangeFit
<1>5. Shape(y)
  BY <1>1, <1>3, <1>4 DEF Shape
<1>6. ASSUME NEW i \in Streams \ {s}
      PROVE  StreamFit(Queue(y, i), y.ds[i], i, Len(y.ranges) = 1, y.seeking,
                       last2[i], next2)
  <2>1. StreamFit(Queue(x, i), x.ds[i], i, Len(x.ranges) = 1, x.seeking,
                  last[i], next)
    BY DEF Fit, StreamsFit, Queue, Current
  <2>2. ASSUME NEW dts, Beyond(next, i, dts) PROVE Beyond(next2, i, dts)
    BY <2>2, FileFacts DEF Beyond
  <2>3. ASSUME Media(i)
        PROVE  HeadFit(Queue(x, i), x.ds[i].reader_head, last[i], Len(y.ranges) = 1)
    BY <2>1, <2>3 DEF StreamFit, HeadFit
  <2>4. ASSUME Media(i) PROVE AheadFit(Queue(x, i), x.ds[i], i, x.seeking, next2)
    BY <2>1, <2>2, <2>4 DEF StreamFit, AheadFit
  <2>5. x.ds[i].reader_head <= Len(Queue(x, i).packets)
    BY <2>1 DEF StreamFit
  <2>6. /\ Queue(y, i) = Queue(x, i) /\ y.ds[i] = x.ds[i] /\ last2[i] = last[i]
    BY <1>2
  <2>. QED BY <2>3, <2>4, <2>5, <2>6 DEF StreamFit
<1>7. y.ds[s] = d
  BY <1>2
<1>8. \A i \in Streams : StreamFit(Queue(y, i), y.ds[i], i, Len(y.ranges) = 1,
                                   y.seeking, last2[i], next2)
  BY <1>6, <1>7
<1>. QED BY <1>5, <1>8 DEF Fit, StreamsFit, Queue, Current

(* Nothing but the queue of stream s differs, in the current range.        *)
QueueWritten(x, s, q, y) ==
  y.ranges = [x.ranges EXCEPT ![Current(x)].queues[s] = q]
QueueOnly(x, s, q, y) ==
  /\ RangesFit(y.ranges, x.ds) /\ Len(y.ranges) = Len(x.ranges)
  /\ \A i \in Streams : Queue(y, i) = IF i = s THEN q ELSE Queue(x, i)

(* Another queue of a stream in the current range.                         *)
LEMMA QueueReplaced ==
  ASSUME NEW x, Shape(x), NEW s \in Streams,
         NEW q, QueueFit(q, s, x.ds[s].selected),
         NEW y, QueueWritten(x, s, q, y)
  PROVE  QueueOnly(x, s, q, y)
<1> DEFINE c == Current(x)
           r == x.ranges[c]
           t == WithQueue(r, s, q)
<1>1. RangesFit(x.ranges, x.ds) /\ c \in 1 .. Len(x.ranges) /\ c = Len(x.ranges)
  BY QueueInRange DEF Shape, Current
<1>2. RangeFit(r, x.ds)
  BY <1>1, RangesTypes
<1>3. y.ranges = [x.ranges EXCEPT ![c] = t]
  BY DEF WithQueue, QueueWritten
<1>. HIDE DEF r, t
<1>4. /\ RangeFit(t, x.ds)
      /\ \A i \in Streams : t.queues[i] = IF i = s THEN q ELSE r.queues[i]
  BY <1>2, QueueSet DEF t
<1>. HIDE DEF c
<1>5. /\ RangesFit(y.ranges, x.ds) /\ Len(y.ranges) = Len(x.ranges)
      /\ \A i \in 1 .. Len(x.ranges) : y.ranges[i] = IF i = c THEN t ELSE x.ranges[i]
  BY <1>1, <1>3, <1>4, RangeSet
<1>6. \A i \in Streams : Queue(y, i) = IF i = s THEN q ELSE Queue(x, i)
  BY <1>1, <1>4, <1>5 DEF Queue, Current, r, c
<1>. QED BY <1>5, <1>6 DEF QueueOnly

(* The demuxer goes on in the file.                                        *)
LEMMA GoneOn ==
  ASSUME NEW x, NEW last, NEW next \in Int, Fit(x, last, next)
  PROVE  Fit(x, last, next + 1)
<1>1. ASSUME NEW s, NEW dts, Beyond(next, s, dts) PROVE Beyond(next + 1, s, dts)
  BY <1>1, FileFacts DEF Beyond
<1>. QED BY <1>1 DEF Fit, StreamsFit, StreamFit, AheadFit

(* The first packet after the last one is later than all before it.        *)
LEMMA Passed ==
  ASSUME NEW at \in DOMAIN File, NEW dts \in Int, dts <= File[at].time
  PROVE  Beyond(at + 1, File[at].stream, dts)
BY FileFacts DEF Beyond

(* demux_add_packet(): the queue with another packet; and what that is.    *)
WithPacket(q, at, ts) ==
  [q EXCEPT !.packets = Append(q.packets, Packet(at)),
            !.correct = q.correct /\ File[at].time > q.last_dts,
            !.last_dts = File[at].time, !.last_ts = ts]
Appends(q, q1, at, s) ==
  /\ QueueFit(q1, s, TRUE) /\ q1.last_dts = File[at].time
  /\ Len(q1.packets) = Len(q.packets) + 1
  /\ q1.packets[Len(q.packets) + 1].at = at
  /\ \A i \in 1 .. Len(q.packets) : q1.packets[i] = q.packets[i]

(* A packet that is later than all of its stream goes to the end of the    *)
(* queue.                                                                  *)
LEMMA PacketAppended ==
  ASSUME NEW at \in DOMAIN File, NEW s, s = File[at].stream,
         NEW q, QueueFit(q, s, TRUE), NEW q1,
         Media(s) => Beyond(at, s, q.last_dts),
         NEW ts \in Int, q1 = WithPacket(q, at, ts)
  PROVE  Appends(q, q1, at, s)
<1> DEFINE n == Len(q.packets)
           ok == q.correct /\ File[at].time > q.last_dts
           ps == Append(q.packets, Packet(at))
           t  == File[at].time
<1>1. q \in Queues /\ q.packets \in Seq(Packets) /\ n \in Nat
      /\ q.last_dts \in Int /\ DOMAIN q.packets = 1 .. n
  BY QueueTypes DEF QueueFit, Queues, QueueRecords
<1>2. t \in Int /\ Packet(at) \in Packets /\ Packet(at).at = at
  <2>1. NoPts \in Int
    BY DEF NoPts
  <2>. QED BY <2>1, FileFacts DEF Packet, Packets
<1>3. /\ ps \in Seq(Packets) /\ Len(ps) = n + 1 /\ ps[n + 1] = Packet(at)
      /\ \A i \in 1 .. n : ps[i] = q.packets[i]
  BY <1>1, <1>2, AppendProperties
<1>4. DOMAIN ps = 1 .. n + 1 /\ ps # <<>>
  <2>1. DOMAIN ps = 1 .. n + 1
    BY <1>3, LenProperties
  <2>2. n + 1 # 0
    BY <1>1
  <2>. QED BY <1>3, <2>1, <2>2, EmptySeq
<1>. HIDE DEF ps, t, ok
<1>5. q1 = [q EXCEPT !.packets = ps, !.correct = ok, !.last_dts = t, !.last_ts = ts]
  BY DEF ps, t, ok, WithPacket
<1>6. ok \in BOOLEAN
  BY DEF ok
<1>10. /\ q1 \in QueueRecords
       /\ q1.packets = ps /\ q1.correct = ok /\ q1.last_dts = t
       /\ q1.keyframe_latest = q.keyframe_latest /\ q1.keyframe_pts = q.keyframe_pts
       /\ q1.index = q.index /\ q1.index_distance = q.index_distance
       /\ q1.next_prune_target = q.next_prune_target
  BY <1>1, <1>2, <1>3, <1>5, <1>6 DEF Queues, QueueRecords
<1>11. /\ PointersIn(q) /\ IndexIn(q)
       /\ q.next_prune_target \in Nat /\ q.keyframe_latest \in Nat
  BY <1>1 DEF Queues, QueueRecords
<1>12. PointersIn(q1)
  <2>1. q.keyframe_latest # 0 => ps[q.keyframe_latest] = q.packets[q.keyframe_latest]
    BY <1>1, <1>3, <1>11 DEF PointersIn
  <2>2. q.next_prune_target <= Len(ps) /\ q.keyframe_latest <= Len(ps)
    BY <1>1, <1>3, <1>11 DEF PointersIn
  <2>. QED BY <1>10, <1>11, <2>1, <2>2 DEF PointersIn
<1>13. IndexIn(q1)
  <2>1. ASSUME NEW i \in DOMAIN q.index
        PROVE  q.index[i] \in 1 .. Len(ps) /\ ps[q.index[i]].kf_seek_pts # NoPts
    <3>1. q.index[i] \in 1 .. n /\ q.packets[q.index[i]].kf_seek_pts # NoPts
      BY <1>11 DEF IndexIn
    <3>. QED BY <1>1, <1>3, <3>1
  <2>. QED BY <1>10, <1>11, <2>1 DEF IndexIn
<1>7. /\ q1 \in Queues /\ q1.packets = ps /\ q1.correct = ok /\ q1.last_dts = t
  BY <1>10, <1>12, <1>13 DEF Queues
<1>8. ASSUME Media(s) PROVE InFileOrder(q1, s)
  <2>1. InFileOrder(q, s) /\ Beyond(at, s, q.last_dts)
    BY <1>8 DEF QueueFit
  <2>2. t > q.last_dts
    BY <2>1, FileFacts DEF Beyond, t
  <2>3. ok
    BY <2>1, <2>2 DEF InFileOrder, ok, t
  <2>4. ASSUME NEW i \in 1 .. n + 1 PROVE File[ps[i].at].stream = s
    <3>1. i = n + 1 \/ i \in 1 .. n
      BY <1>1
    <3>. QED BY <1>1, <1>2, <1>3, <2>1, <3>1 DEF InFileOrder
  <2>5. ASSUME NEW i \in 1 .. n PROVE q.packets[i].at < at
    <3>1. /\ \A k \in 1 .. n : /\ q.packets[k].at \in DOMAIN File
                               /\ File[q.packets[k].at].stream = s
          /\ \A j, k \in 1 .. n : j < k => q.packets[j].at < q.packets[k].at
      BY <1>1, <2>1, QueueTypes DEF InFileOrder
    <3>2. n \in 1 .. n /\ q.packets # <<>>
      BY <1>1, <2>5, QueueTypes
    <3>3. q.last_dts = File[q.packets[n].at].time
      BY <2>1, <3>2 DEF InFileOrder, Time, Last
    <3>4. q.packets[n].at < at
      BY <2>2, <3>1, <3>2, <3>3, FileFacts DEF t
    <3>. QED BY <2>5, <3>1, <3>2, <3>4, FileFacts, SMTT(40)
  <2>6. \A i, j \in 1 .. n + 1 : i < j => ps[i].at < ps[j].at
    <3>. SUFFICES ASSUME NEW i \in 1 .. n + 1, NEW j \in 1 .. n + 1, i < j
                  PROVE  ps[i].at < ps[j].at
      OBVIOUS
    <3>1. CASE j = n + 1
      <4>1. i \in 1 .. n
        BY <1>1, <3>1
      <4>. QED BY <1>2, <1>3, <2>5, <3>1, <4>1
    <3>2. CASE j \in 1 .. n
      <4>1. i \in 1 .. n
        BY <1>1, <3>2
      <4>. QED BY <1>1, <1>3, <2>1, <3>2, <4>1 DEF InFileOrder
    <3>. QED BY <1>1, <3>1, <3>2
  <2>7. Time(Last(ps)) = t
    BY <1>2, <1>3 DEF Time, Last, t
  <2>8. Dated(q1)
    <3>1. Dated(q)
      BY <2>1 DEF InFileOrder
    <3>2. Packet(at).kf_seek_pts = NoPts
      BY DEF Packet
    <3>3. ASSUME NEW i \in 1 .. n + 1 PROVE ps[i].kf_seek_pts \in {NoPts, Time(ps[i])}
      <4>1. i = n + 1 \/ i \in 1 .. n
        BY <1>1
      <4>. QED BY <1>1, <1>3, <3>1, <3>2, <4>1 DEF Dated
    <3>4. q.keyframe_latest # 0 => q.keyframe_pts = Time(ps[q.keyframe_latest])
      <4>1. q.keyframe_latest # 0 => q.keyframe_latest \in 1 .. n
        BY <1>1, <1>11 DEF PointersIn
      <4>. QED BY <1>3, <3>1, <4>1 DEF Dated
    <3>. QED BY <1>4, <1>10, <3>3, <3>4 DEF Dated
  <2>. QED BY <1>4, <1>7, <2>3, <2>4, <2>6, <2>7, <2>8 DEF InFileOrder
<1>9. QueueFit(q1, s, TRUE)
  BY <1>7, <1>8 DEF QueueFit
<1>. QED BY <1>2, <1>3, <1>7, <1>9 DEF t, Appends

(* demux_add_packet() keeps what was said of the packets before the one it *)
(* adds for those before the next one.                                     *)
LEMMA Appended ==
  ASSUME NEW at \in DOMAIN File, NEW x, NEW last, LastFit(last), Fit(x, last, at),
         NEW s, s = File[at].stream, x.ds[s].selected, ~x.ds[s].refreshing,
         ~x.seeking, NEW y, y = Append1(x, s, at)
  PROVE  Fit(y, last, at + 1) /\ Queue(y, s).packets # <<>>
<1> DEFINE q    == Queue(x, s)
           t    == File[at].time
           d    == x.ds[s]
           ok   == q.correct /\ t > q.last_dts
           tail == Len(q.packets) + 1
           head == IF d.reader_head = 0 /\ (~d.skip_to_keyframe \/ File[at].keyframe)
                   THEN tail ELSE d.reader_head
           fw   == IF head # 0 THEN 1 ELSE 0
           ts   == IF t > q.last_ts \/ t + 10 * Second < q.last_ts THEN t
                   ELSE q.last_ts
           q1   == [q EXCEPT !.packets = Append(q.packets, Packet(at)),
                             !.correct = ok, !.last_dts = t, !.last_ts = ts]
           d1   == [d EXCEPT !.correct = @ /\ ok, !.reader_head = head,
                             !.skip_to_keyframe = @ /\ head # tail,
                             !.fw_bytes = @ + fw, !.eof = FALSE,
                             !.base_ts = IF @ = NoPts THEN ts ELSE @]
<1>1. /\ Shape(x) /\ DOMAIN x = Fields /\ RangesFit(x.ranges, x.ds)
      /\ DsFit(x.ds) /\ x.ds \in [Streams -> DemuxStreams]
      /\ s \in Streams /\ at \in Int
  BY FileFacts DEF Fit, Shape, DsFit
<1>2. /\ q \in Queues /\ d \in DemuxStreams /\ QueueFit(q, s, d.selected)
      /\ d.selected = TRUE /\ q = x.ranges[Len(x.ranges)].queues[s]
  BY <1>1, QueueInRange, DsTypes
<1>3. StreamFit(q, d, s, Len(x.ranges) = 1, x.seeking, last[s], at)
  BY <1>1, <1>2 DEF Fit, StreamsFit
<1>4. /\ y.ranges = [x.ranges EXCEPT ![Current(x)].queues[s] = q1]
      /\ y.ds = [x.ds EXCEPT ![s] = d1]
      /\ DOMAIN y = Fields /\ y.seeking = x.seeking
  <2> DEFINE z == SetQueue(x, s, q1)
  <2>1. y = [z EXCEPT !.ds[s] = d1, !.fw_bytes = @ + fw,
                      !.total_bytes = @ + 1, !.eof = FALSE, !.last_eof = FALSE]
    BY Zenon DEF Append1
  <2>2. /\ DOMAIN z = Fields /\ z.ds = x.ds /\ z.seeking = x.seeking
        /\ z.ranges = [x.ranges EXCEPT ![Current(x)].queues[s] = q1]
    <3>. HIDE DEF q1
    <3>. QED BY <1>1 DEF SetQueue, Fields
  <2>. HIDE DEF z, q1, fw, d1
  <2>. QED BY <2>1, <2>2 DEF Fields
<1>5. t \in Int /\ q.last_dts \in Int /\ q.last_ts \in Int /\ Second \in Int
      /\ tail \in Nat /\ Len(q.packets) \in Nat
  <2>1. q.last_dts \in Int /\ q.last_ts \in Int
    BY <1>2 DEF Queues, QueueRecords
  <2>2. Len(q.packets) \in Nat
    BY <1>2, QueueTypes
  <2>3. t \in Int /\ Second \in Int
    BY <1>1, FileFacts DEF Second
  <2>. QED BY <2>1, <2>2, <2>3
<1>6. ts \in Int /\ head \in Nat /\ fw \in Int /\ d.reader_head \in Nat
  <2>1. d.reader_head \in Nat
    BY <1>1, DsTypes
  <2> DEFINE h == d.reader_head
             n == tail
             l == q.last_ts
             v == t
  <2>. HIDE DEF h, n, l, v
  <2>2. h \in Nat /\ n \in Nat /\ l \in Int /\ v \in Int
    BY <1>5, <2>1 DEF h, n, l, v
  <2>3. ts \in {l, v} /\ head \in {h, n} /\ fw \in {0, 1}
    BY DEF h, n, l, v
  <2>. QED BY <2>1, <2>2, <2>3
<1>7. Media(s) => Beyond(at, s, q.last_dts)
  BY <1>2, <1>3 DEF StreamFit, AheadFit
<1>8. /\ QueueFit(q1, s, TRUE) /\ q1.last_dts = t
      /\ Len(q1.packets) = tail /\ q1.packets[tail].at = at
      /\ \A i \in 1 .. Len(q.packets) : q1.packets[i] = q.packets[i]
  <2>1. QueueFit(q, s, TRUE)
    BY <1>2
  <2>2. q1 = WithPacket(q, at, ts)
    BY DEF WithPacket
  <2>3. ts \in Int
    BY <1>6
  <2>. HIDE DEF q1, q, ts
  <2>4. Appends(q, q1, at, s)
    BY <1>7, <2>1, <2>2, <2>3, PacketAppended
  <2>. QED BY <2>4 DEF Appends
<1>. HIDE DEF q1, ts, fw
<1>9. /\ d1 \in DemuxStreams /\ d1.selected = d.selected /\ d1.eager = d.eager
      /\ d1.reader_head = head /\ d1.refreshing = d.refreshing
  <2>1. /\ (d.correct /\ ok) \in BOOLEAN
        /\ (d.skip_to_keyframe /\ head # tail) \in BOOLEAN
        /\ d.fw_bytes + fw \in Int
        /\ (IF d.base_ts = NoPts THEN ts ELSE d.base_ts) \in Int
    <3>. HIDE DEF head, tail, d, ok
    <3>. QED BY <1>2, <1>6 DEF DemuxStreams
  <2> DEFINE b1 == d.correct /\ ok
             b2 == d.skip_to_keyframe /\ head # tail
             b3 == d.fw_bytes + fw
             b4 == IF d.base_ts = NoPts THEN ts ELSE d.base_ts
  <2>2. d1 = [d EXCEPT !.correct = b1, !.reader_head = head,
                       !.skip_to_keyframe = b2, !.fw_bytes = b3, !.eof = FALSE,
                       !.base_ts = b4]
    OBVIOUS
  <2>. HIDE DEF head, tail, d, ok, b1, b2, b3, b4, d1
  <2>. QED BY <1>2, <1>6, <2>1, <2>2, ZenonT(40) DEF DemuxStreams, b1, b2, b3, b4
<1>. HIDE DEF d1
<1>23. QueueFit(q1, s, x.ds[s].selected)
  BY <1>2, <1>8
<1>10. /\ RangesFit(y.ranges, x.ds) /\ Len(y.ranges) = Len(x.ranges)
       /\ \A i \in Streams : Queue(y, i) = IF i = s THEN q1 ELSE Queue(x, i)
  <2>1. QueueWritten(x, s, q1, y)
    BY <1>4 DEF QueueWritten
  <2>2. Shape(x) /\ s \in Streams
    BY <1>1
  <2>. HIDE DEF q, t, d, ok, tail, head
  <2>3. QueueOnly(x, s, q1, y)
    BY <1>23, <2>1, <2>2, QueueReplaced
  <2>. QED BY <2>3 DEF QueueOnly
<1>11. q1.packets # <<>>
  BY <1>5, <1>8, QueueTypes DEF QueueFit
<1>12. ASSUME Media(s), last[s] # 0, head # 0
       PROVE  q1.packets[head].at > last[s]
  <2>1. HeadFit(q, d.reader_head, last[s], Len(x.ranges) = 1)
    BY <1>3, <1>12 DEF StreamFit
  <2>2. CASE head = d.reader_head
    <3>1. d.reader_head \in 1 .. Len(q.packets)
      <4>1. d.reader_head <= Len(q.packets) /\ d.reader_head # 0
        BY <1>3, <1>12, <2>2 DEF StreamFit
      <4>2. d.reader_head \in Nat /\ Len(q.packets) \in Nat
        BY <1>5, <1>6
      <4>. QED BY <4>1, <4>2
    <3>. QED BY <1>8, <1>12, <2>1, <2>2, <3>1 DEF HeadFit
  <2>3. CASE d.reader_head = 0 /\ head = tail
    <3>1. File[last[s]].time <= q.last_dts
      BY <1>12, <2>1, <2>3 DEF HeadFit
    <3>2. t > q.last_dts
      BY <1>7, <1>12, FileFacts DEF Beyond
    <3>3. last[s] \in DOMAIN File /\ File[last[s]].stream = s
      BY <1>1, <1>12, FileFacts DEF LastFit
    <3>4. last[s] < at
      BY <1>5, <3>1, <3>2, <3>3, FileFacts
    <3>. QED BY <1>8, <2>3, <3>4
  <2>. QED BY <2>2, <2>3
<1>13. ASSUME Media(s), last[s] # 0, head = 0
       PROVE  File[last[s]].time <= t
  <2>1. d.reader_head = 0
    BY <1>5, <1>13
  <2>2. File[last[s]].time <= q.last_dts
    BY <1>3, <1>13, <2>1 DEF StreamFit, HeadFit
  <2>3. t > q.last_dts
    BY <1>7, <1>13, FileFacts DEF Beyond
  <2>4. File[last[s]].time \in Int
    BY <1>1, <1>13, FileFacts DEF LastFit
  <2>. QED BY <1>5, <2>2, <2>3, <2>4
<1>14. head <= Len(q1.packets)
  <2>1. d.reader_head <= Len(q.packets)
    BY <1>3 DEF StreamFit
  <2> DEFINE n == Len(q.packets)
             n1 == Len(q1.packets)
  <2>. SUFFICES head <= n1
    OBVIOUS
  <2>2. d.reader_head <= n /\ n1 = n + 1 /\ n \in Nat /\ head \in {n + 1, d.reader_head}
    BY <1>5, <1>8, <2>1
  <2>. HIDE DEF n, n1, d, head
  <2>. QED BY <1>6, <2>2
<1>15. Beyond(at + 1, s, t)
  BY <1>5, Passed
<1>. HIDE DEF q, d, t, head, tail
<1>16. StreamFit(q1, d1, s, Len(y.ranges) = 1, x.seeking, last[s], at + 1)
  BY <1>8, <1>9, <1>11, <1>12, <1>13, <1>14, <1>15 DEF StreamFit, HeadFit, AheadFit
<1>17. Queue(y, s) = q1 /\ \A i \in Streams \ {s} : Queue(y, i) = Queue(x, i)
  BY <1>1, <1>10
<1>18. at + 1 \in Int /\ at <= at + 1
  BY <1>1
<1>19. d1.selected = x.ds[s].selected /\ d1.eager = x.ds[s].eager
  BY <1>9 DEF d
<1>20. Len(x.ranges) = 1 => Len(y.ranges) = 1
  BY <1>10
<1>21. StreamFit(Queue(y, s), d1, s, Len(y.ranges) = 1, x.seeking, last[s], at + 1)
  BY <1>16, <1>17
<1>22. Fit(y, last, at + 1)
  BY <1>1, <1>4, <1>9, <1>10, <1>17, <1>18, <1>19, <1>20, <1>21, OneStream, ZenonT(40)
<1>. QED BY <1>11, <1>17, <1>22

(* demux_add_packet(): the packet is dropped or added, and what is next is *)
(* after it.  With refreshing set it is dropped up to the last one that    *)
(* the queue has.                                                          *)
LEMMA PacketAdded ==
  ASSUME NEW at \in DOMAIN File, NEW x, NEW last, LastFit(last), Fit(x, last, at),
         NEW y, y = AddPacket(x, at)
  PROVE  Fit(y, last, at + 1)
<1> DEFINE s == File[at].stream
           d == x.ds[s]
           q == Queue(x, s)
           stays == q.correct /\ File[at].time < q.last_dts
           d1 == [d EXCEPT !.refreshing = stays]
<1>1. /\ Shape(x) /\ DOMAIN x = Fields /\ RangesFit(x.ranges, x.ds)
      /\ DsFit(x.ds) /\ x.ds \in [Streams -> DemuxStreams]
      /\ s \in Streams /\ at \in Int
  BY FileFacts DEF Fit, Shape, DsFit
<1>2. CASE ~d.selected \/ x.seeking
  <2>1. y = x
    BY <1>2 DEF AddPacket
  <2>. QED BY <1>1, <2>1, GoneOn
<1>3. CASE d.selected /\ ~x.seeking /\ d.refreshing
  <2>1. y = [x EXCEPT !.ds[s].refreshing = stays]
    BY <1>3, Zenon DEF AddPacket
  <2>2. /\ y.ds = [x.ds EXCEPT ![s] = d1] /\ y.ranges = x.ranges
        /\ DOMAIN y = Fields /\ y.seeking = x.seeking
    BY <1>1, <2>1 DEF Fields
  <2>3. /\ q \in Queues /\ QueueFit(q, s, d.selected) /\ d \in DemuxStreams
        /\ q = x.ranges[Len(x.ranges)].queues[s]
    BY <1>1, QueueInRange, DsTypes
  <2>4. q.last_dts \in Int /\ q.correct \in BOOLEAN /\ File[at].time \in Int
    <3>1. File[at].time \in Nat
      BY FileFacts
    <3>2. q.last_dts \in Int /\ q.correct \in BOOLEAN
      <4>. HIDE DEF q
      <4>. QED BY <2>3 DEF Queues, QueueRecords
    <3>. QED BY <3>1, <3>2
  <2>5. stays \in BOOLEAN
    OBVIOUS
  <2>6. Media(s) => q.correct
    BY <2>3, Zenon DEF QueueFit, InFileOrder
  <2>7. StreamFit(q, d, s, Len(x.ranges) = 1, x.seeking, last[s], at)
    BY <1>1, <2>3 DEF Fit, StreamsFit
  <2>8. ASSUME Media(s), ~stays PROVE Beyond(at + 1, s, q.last_dts)
    BY <2>4, <2>6, <2>8, Passed
  <2>. HIDE DEF stays, s
  <2>9. /\ d1 \in DemuxStreams /\ d1.selected = d.selected /\ d1.eager = d.eager
        /\ d1.refreshing = stays /\ d1.reader_head = d.reader_head
    BY <2>3, <2>5 DEF DemuxStreams
  <2>. HIDE DEF d1
  <2>10. StreamFit(q, d1, s, Len(y.ranges) = 1, x.seeking, last[s], at + 1)
    BY <1>3, <2>2, <2>7, <2>8, <2>9 DEF StreamFit, AheadFit
  <2>11. \A i \in Streams : Queue(y, i) = Queue(x, i)
    BY <2>2 DEF Queue, Current
  <2>12. at + 1 \in Int /\ at <= at + 1
    BY <1>1
  <2>13. StreamFit(Queue(y, s), d1, s, Len(y.ranges) = 1, x.seeking, last[s], at + 1)
    BY <1>1, <2>10, <2>11
  <2>. QED BY <1>1, <2>2, <2>9, <2>11, <2>12, <2>13, OneStream
<1>4. CASE d.selected /\ ~x.seeking /\ ~d.refreshing
  <2> DEFINE z == Append1(x, s, at)
  <2>1. y = AdjustOnPacket(z, s)
    BY <1>4, Zenon DEF AddPacket
  <2>2. Fit(z, last, at + 1) /\ Queue(z, s).packets # <<>>
    BY <1>4, Appended
  <2>. HIDE DEF z
  <2>. QED BY <1>1, <2>1, <2>2, AdjustedOnPacket
<1>. QED BY <1>2, <1>3, <1>4

(* read_packet() after fill_buffer() returned.                             *)
LEMMA BufferFilled ==
  ASSUME NEW x, NEW last, NEW next, LastFit(last), Fit(x, last, next),
         NEW eof, NEW y, y = FillBufferReturned(x, eof)
  PROVE  Fit(y, last, next)
<1> DEFINE z == IF eof THEN EndOfFile(x) ELSE x
<1>1. y = x \/ y = [z EXCEPT !.eof = eof, !.last_eof = eof]
  BY DEF FillBufferReturned
<1>2. Fit(z, last, next)
  BY FileEnded
<1>. HIDE DEF z
<1>3. CASE y = [z EXCEPT !.eof = eof, !.last_eof = eof]
  <2>1. DOMAIN z = Fields /\ z.ds \in [Streams -> DemuxStreams]
    BY <1>2 DEF Fit, Shape, DsFit
  <2>2. /\ DOMAIN y = Fields /\ y.ranges = z.ranges /\ y.seeking = z.seeking
        /\ y.ds = z.ds
    BY <1>3, <2>1 DEF Fields
  <2>. QED BY <1>2, <2>1, <2>2, OtherDs
<1>. QED BY <1>1, <1>3

-----------------------------------------------------------------------------
(* Another queue in the first range, the one that is pruned.               *)
FirstQueue(R, T, ds, s, q) ==
  /\ RangesFit(T, ds) /\ Len(T) = Len(R)
  /\ \A i \in Streams : T[1].queues[i] = IF i = s THEN q ELSE R[1].queues[i]
  /\ \A n \in 2 .. Len(R) : T[n] = R[n]

(* Another queue for a stream in the first range.                          *)
LEMMA FirstQueueSet ==
  ASSUME NEW R, NEW ds, RangesFit(R, ds), NEW s \in Streams,
         NEW q, QueueFit(q, s, ds[s].selected),
         NEW T, T = [R EXCEPT ![1].queues[s] = q]
  PROVE  FirstQueue(R, T, ds, s, q)
<1> DEFINE r == R[1]
           t == WithQueue(r, s, q)
<1>1. 1 \in 1 .. Len(R) /\ RangeFit(r, ds) /\ Len(R) \in Nat
  BY RangesTypes
<1>2. T = [R EXCEPT ![1] = t]
  BY DEF WithQueue
<1>. HIDE DEF r, t
<1>3. /\ RangeFit(t, ds)
      /\ \A i \in Streams : t.queues[i] = IF i = s THEN q ELSE r.queues[i]
  BY <1>1, QueueSet DEF t
<1>4. /\ RangesFit(T, ds) /\ Len(T) = Len(R)
      /\ \A i \in 1 .. Len(R) : T[i] = IF i = 1 THEN t ELSE R[i]
  <2>1. RangeFit(t, ds) /\ 1 \in 1 .. Len(R)
    BY <1>1, <1>3
  <2>2. RangeOnly(R, T, ds, 1, t)
    BY <1>2, <2>1, RangeWritten
  <2>. QED BY <2>2 DEF RangeOnly
<1>5. T[1] = t /\ \A i \in 2 .. Len(R) : T[i] = R[i]
  BY <1>1, <1>4
<1>. QED BY <1>3, <1>4, <1>5 DEF FirstQueue, r

(* The seek range of the first range, after that.                          *)
LEMMA FirstRangeUpdated ==
  ASSUME NEW R, NEW ds, RangesFit(R, ds), DsFit(ds), NEW s, NEW q, NEW T,
         FirstQueue(R, T, ds, s, q),
         NEW U, U = [T EXCEPT ![1] = UpdateSeekRanges(ds, T[1])]
  PROVE  FirstQueue(R, U, ds, s, q)
<1> DEFINE t == UpdateSeekRanges(ds, T[1])
<1>1. RangesFit(T, ds) /\ Len(T) = Len(R)
  BY DEF FirstQueue
<1>2. 1 \in 1 .. Len(T) /\ RangeFit(T[1], ds) /\ T[1] \in Ranges /\ Len(T) \in Nat
  BY <1>1, RangesTypes
<1>3. t \in Ranges /\ t.queues = T[1].queues
  BY <1>2, SeekRangesUpdated
<1>. HIDE DEF t
<1>4. RangeFit(t, ds)
  BY <1>2, <1>3 DEF RangeFit
<1>5. U = [T EXCEPT ![1] = t]
  BY DEF t
<1>6. /\ RangesFit(U, ds) /\ Len(U) = Len(T)
      /\ \A i \in 1 .. Len(T) : U[i] = IF i = 1 THEN t ELSE T[i]
  <2>1. 1 \in 1 .. Len(T)
    BY <1>2
  <2>2. RangeOnly(T, U, ds, 1, t)
    BY <1>1, <1>4, <1>5, <2>1, RangeWritten
  <2>. QED BY <2>2 DEF RangeOnly
<1>7. U[1].queues = T[1].queues /\ \A i \in 2 .. Len(R) : U[i] = T[i]
  BY <1>1, <1>2, <1>3, <1>6
<1>. QED BY <1>1, <1>6, <1>7 DEF FirstQueue

(* Two such changes are one.                                               *)
LEMMA FirstTwice ==
  ASSUME NEW R, NEW T, NEW U, NEW ds, NEW s, NEW q1, NEW q2,
         FirstQueue(R, T, ds, s, q1), FirstQueue(T, U, ds, s, q2)
  PROVE  FirstQueue(R, U, ds, s, q2)
BY DEF FirstQueue

(* Where to stop pruning is noted, and nothing else of the packets.        *)
LEMMA TargetNoted ==
  ASSUME NEW q \in Queues, NEW r, r = PruneTarget(q)
  PROVE  Noted(q, r)
<1> DEFINE kf == {p \in 2 .. Len(q.packets) :
                    Keyframe(q.packets[p]) /\ q.packets[p].kf_seek_pts # NoPts}
           a  == IF q.seek_start # NoPts THEN q.seek_start ELSE q.last_pruned
           q1 == [q EXCEPT !.last_pruned = a]
           k  == Min(kf)
           b  == q.packets[k].kf_seek_pts
           n  == Len(q.packets)
           F(u, v) == [q1 EXCEPT !.seek_start = u, !.next_prune_target = v]
<1>1. r = IF kf = {} THEN F(NoPts, n) ELSE F(b, k - 1)
  BY DEF PruneTarget
<1>2. NoPts \in Int
  BY DEF NoPts
<1>3. n \in Nat /\ a \in Int /\ kf \subseteq 2 .. n
  <2>1. n \in Nat
    BY QueueTypes
  <2>2. a \in Int
    BY DEF Queues, QueueRecords
  <2>. QED BY <2>1, <2>2
<1>4. ASSUME kf # {} PROVE k - 1 \in 0 .. n /\ b \in Int
  <2>1. k \in 2 .. n
    <3>. HIDE DEF kf, n
    <3>1. kf \subseteq Nat
      BY <1>3
    <3>2. k \in kf
      BY <1>4, <3>1, LeastNumber
    <3>. QED BY <1>3, <3>2
  <2>. HIDE DEF k, n
  <2>2. k \in 1 .. n /\ k - 1 \in 0 .. n
    BY <1>3, <2>1
  <2>. QED BY <2>2, QueueTypes DEF n
<1>7. n = Len(q.packets) /\ n \in 0 .. n
  BY <1>3
<1>. HIDE DEF a, b, k, n, kf, F
<1>5. /\ q1 \in QueueRecords /\ q1.packets = q.packets
      /\ q1.last_dts = q.last_dts /\ q1.correct = q.correct
      /\ q1.keyframe_latest = q.keyframe_latest /\ q1.keyframe_pts = q.keyframe_pts
      /\ q1.index = q.index /\ q1.index_distance = q.index_distance
  BY <1>3 DEF Queues, QueueRecords
<1>. HIDE DEF q1
<1>6. ASSUME NEW u \in Int, NEW v \in 0 .. n
      PROVE  Noted(q, F(u, v))
  <2> DEFINE z == F(u, v)
  <2>1. /\ z \in QueueRecords /\ z.packets = q.packets
        /\ z.last_dts = q.last_dts /\ z.correct = q.correct
        /\ z.keyframe_latest = q.keyframe_latest /\ z.keyframe_pts = q.keyframe_pts
        /\ z.index = q.index /\ z.index_distance = q.index_distance
        /\ z.next_prune_target = v
    <3>1. v \in Nat
      BY <1>3
    <3>. QED BY <1>5, <3>1 DEF QueueRecords, F
  <2>. HIDE DEF z
  <2>2. PointersIn(q) /\ IndexIn(q)
    BY DEF Queues
  <2>3. PointersIn(z)
    BY <1>3, <1>7, <2>1, <2>2 DEF PointersIn
  <2>4. IndexIn(z)
    BY <2>1, <2>2 DEF IndexIn
  <2>5. Noted(q, z)
    BY <2>1, <2>3, <2>4 DEF Noted, Queues
  <2>. QED BY <2>5 DEF z
<1>. QED BY <1>1, <1>2, <1>4, <1>6, <1>7

(* The same of a stream after n packets that it does not need are gone.    *)
LEMMA HeadPruned ==
  ASSUME NEW s \in Streams, NEW q, NEW d \in DemuxStreams,
         QueueFit(q, s, d.selected), NEW seeking, NEW last, NEW next,
         StreamFit(q, d, s, TRUE, seeking, last, next),
         NEW n \in Nat, n <= Len(q.packets), d.reader_head # 0 => n < d.reader_head,
         NEW r, r = RemoveHead(q, n),
         NEW head, head = IF d.reader_head = 0 THEN 0 ELSE d.reader_head - n
  PROVE  StreamFit(r, [d EXCEPT !.reader_head = head], s, TRUE, seeking, last, next)
<1> DEFINE m == Len(q.packets)
           l == Len(r.packets)
           h == d.reader_head
           d1 == [d EXCEPT !.reader_head = head]
<1>1. q \in Queues
  BY DEF QueueFit
<1>2. m \in Nat /\ h \in Nat /\ h <= m
  BY <1>1, QueueTypes DEF DemuxStreams, StreamFit
<1>3. /\ l = IF n < m THEN m - n ELSE 0
      /\ \A i \in 1 .. l : r.packets[i] = q.packets[i + n]
      /\ r.last_dts = q.last_dts
  BY <1>1, HeadRemoved
<1>4. head \in Nat /\ d1.reader_head = head /\ d1.selected = d.selected
      /\ d1.refreshing = d.refreshing
  <2>1. head \in Nat
    BY <1>2
  <2>. QED BY <2>1 DEF DemuxStreams
<1>. HIDE DEF d1, m, l
<1>5. head <= l
  <2>1. n <= m
    BY DEF m
  <2>. HIDE DEF h
  <2>2. head = (IF h = 0 THEN 0 ELSE h - n) /\ (h # 0 => n < h)
    BY DEF h
  <2>. QED BY <1>2, <1>3, <2>1, <2>2
<1>6. ASSUME head # 0 PROVE r.packets[head] = q.packets[h]
  <2>1. head \in 1 .. l /\ head + n = h
    BY <1>2, <1>4, <1>5, <1>6
  <2>. QED BY <1>3, <2>1
<1>7. head = 0 <=> h = 0
  BY <1>2
<1>. QED BY <1>3, <1>4, <1>5, <1>6, <1>7 DEF StreamFit, HeadFit, AheadFit, l, d1

(* prune_old_packets() stops before the reader's head.                     *)
LEMMA PruneLength ==
  ASSUME NEW a \in Nat, NEW h \in Nat, NEW m \in Nat, h # 1,
         NEW n, n = Min(({a, h - 1} \ {0, -1}) \cup {m})
  PROVE  n \in Nat /\ n <= m /\ (h # 0 => n < h)
<1> DEFINE T == ({a, h - 1} \ {0, -1}) \cup {m}
<1>1. T \in SUBSET Nat /\ m \in T /\ (h # 0 => h - 1 \in T)
  OBVIOUS
<1>. HIDE DEF T
<1>2. n \in T /\ \A t \in T : n <= t
  BY <1>1, LeastNumber DEF T
<1>3. n \in Nat /\ n <= m
  BY <1>1, <1>2
<1>4. ASSUME h # 0 PROVE n < h
  <2>1. n <= h - 1
    BY <1>1, <1>2, <1>4
  <2>. QED BY <1>3, <2>1
<1>. QED BY <1>3, <1>4

(* The stream that is pruned: one of those that can be.                    *)
Chosen(able, always, f) ==
  IF always # {} THEN Min(always)
  ELSE Min({i \in able : \A t \in able : f[i] <= f[t]})

(* It has a stream to prune from if one can be pruned.                     *)
LEMMA PrunedStream ==
  ASSUME NEW able \in SUBSET Streams, able # {}, NEW always \in SUBSET able,
         NEW f, \A s \in able : f[s] \in Int
  PROVE  Chosen(able, always, f) \in able
<1> DEFINE s == Chosen(able, always, f)
           early == {i \in able : \A t \in able : f[i] <= f[t]}
           g == [i \in Streams |-> IF i \in able THEN f[i] ELSE 0]
<1>1. NumStreams \in Nat /\ Streams = 1 .. NumStreams
  BY FileFacts
<1>2. \A i \in 1 .. NumStreams : g[i] \in Int
  BY <1>1
<1>3. \A i \in able : g[i] = f[i]
  OBVIOUS
<1>. HIDE DEF g
<1>4. PICK i \in able : \A t \in able : g[i] <= g[t]
  BY <1>1, <1>2, LeastValue
<1>5. early # {}
  BY <1>3, <1>4
<1>6. able \subseteq Nat
  BY <1>1
<1>7. CASE always # {}
  BY <1>6, <1>7, LeastNumber DEF Chosen
<1>8. CASE always = {}
  <2>1. early \in SUBSET Nat
    BY <1>6
  <2>2. s = Min(early)
    BY <1>8 DEF Chosen
  <2>. HIDE DEF early, s
  <2>3. s \in early
    BY <1>5, <2>1, <2>2, LeastNumber
  <2>. QED BY <2>3 DEF early, s
<1>. QED BY <1>7, <1>8

(* One round of its loop: packets at the start of a queue are gone, none   *)
(* of them what the player reads next.                                     *)
LEMMA RoundPruned ==
  ASSUME NEW x, NEW last, NEW next \in Int, Fit(x, last, next),
         NEW y, y = PruneRound(x)
  PROVE  Fit(y, last, next)
<1> DEFINE Head1(i)  == x.ranges[1].queues[i].packets[1]
           able      == {i \in Streams : Prunable(x, i)}
           always    == {i \in able : \/ ~x.seekable_cache
                                      \/ Head1(i).kf_seek_pts = NoPts
                                      \/ ~Keyframe(Head1(i))}
           early     == {i \in able : \A t \in able :
                           Head1(i).kf_seek_pts <= Head1(t).kf_seek_pts}
           s         == IF always # {} THEN Min(always) ELSE Min(early)
           q         == x.ranges[1].queues[s]
           seekable  == x.seekable_cache /\ q.next_prune_target = 0
           q1        == IF seekable THEN PruneTarget(q) ELSE q
           x1        == IF seekable
                        THEN UpdateRange([x EXCEPT !.ranges[1].queues[s] = q1], 1)
                        ELSE x
           reader0   == IF Current(x) = 1 THEN x.ds[s].reader_head ELSE 0
           n         == Min(({q1.next_prune_target, reader0 - 1} \ {0, -1})
                              \cup {Len(q.packets)})
           r         == RemoveHead(q1, n)
           x2        == [x1 EXCEPT !.ranges[1].queues[s] = r,
                                   !.total_bytes = @ - n,
                                   !.ds[s].reader_head = IF reader0 = 0 THEN @
                                                         ELSE @ - n]
           c         == Len(x.ranges)
           d         == x.ds[s]
           head      == IF reader0 = 0 THEN d.reader_head ELSE d.reader_head - n
           d1        == [d EXCEPT !.reader_head = head]
<1>1. y = IF able = {} THEN [x EXCEPT !.assert_failed = TRUE]
          ELSE IF Current(x) > 1 /\ x2.ranges[1].seek_start = NoPts
               THEN FreeEmptyRanges(x2) ELSE x2
  BY Zenon DEF PruneRound
<1>2. /\ Shape(x) /\ DOMAIN x = Fields /\ RangesFit(x.ranges, x.ds)
      /\ DsFit(x.ds) /\ x.ds \in [Streams -> DemuxStreams]
  BY DEF Fit, Shape, DsFit
<1>3. CASE able = {}
  <2>1. y = [x EXCEPT !.assert_failed = TRUE]
    <3>. HIDE DEF able, x2
    <3>. QED BY <1>1, <1>3
  <2>2. /\ DOMAIN y = Fields /\ y.ranges = x.ranges /\ y.seeking = x.seeking
        /\ y.ds = x.ds
    BY <1>2, <2>1 DEF Fields
  <2>. QED BY <1>2, <2>2, OtherDs
<1>4. CASE able # {}
  <2>1. /\ c \in Nat \ {0} /\ 1 \in 1 .. c /\ x.ranges[1] \in Ranges
        /\ \A i \in Streams : /\ x.ranges[1].queues[i] \in Queues
                              /\ QueueFit(x.ranges[1].queues[i], i, x.ds[i].selected)
    BY <1>2, RangesTypes
  <2>2. s \in able
    <3> DEFINE f == [i \in Streams |-> Head1(i).kf_seek_pts]
    <3>1. ASSUME NEW i \in able PROVE f[i] \in Int
      <4>1. x.ranges[1].queues[i].packets # <<>>
        BY DEF Prunable
      <4> DEFINE p == x.ranges[1].queues[i]
      <4>2. p \in Queues
        BY <2>1
      <4>. HIDE DEF p
      <4>3. 1 \in 1 .. Len(p.packets)
        <5>1. Len(p.packets) \in Nat /\ Len(p.packets) # 0
          BY <4>1, <4>2, QueueTypes DEF p
        <5>. QED BY <5>1
      <4>4. p.packets[1].kf_seek_pts \in Int
        BY <4>2, <4>3, QueueTypes
      <4>. QED BY <4>4 DEF p
    <3>2. early = {i \in able : \A t \in able : f[i] <= f[t]}
      OBVIOUS
    <3>3. always \in SUBSET able /\ able \in SUBSET Streams
      OBVIOUS
    <3>4. s = Chosen(able, always, f)
      <4>. HIDE DEF f, able, always, early
      <4>. QED BY <3>2 DEF Chosen
    <3>. HIDE DEF f, able, always, early, s
    <3>. QED BY <1>4, <3>1, <3>3, <3>4, PrunedStream
  <2>. HIDE DEF always, early, s
  <2>3. s \in Streams /\ q.packets # <<>> /\ (c = 1 => x.ds[s].reader_head # 1)
    BY <2>2 DEF Prunable, Current
  <2>. HIDE DEF able
  <2>4. q \in Queues /\ QueueFit(q, s, d.selected) /\ d \in DemuxStreams
        /\ d.reader_head \in Nat /\ d.selected \in BOOLEAN
    BY <1>2, <2>1, <2>3, DsTypes
  <2>5. Noted(q, q1)
    <3>1. Noted(q, q)
      BY <2>4 DEF Noted
    <3>. QED BY <2>4, <3>1, TargetNoted
  <2>6. q1 \in Queues /\ QueueFit(q1, s, d.selected) /\ q1.next_prune_target \in Nat
    <3>. HIDE DEF q1
    <3>1. /\ q1 \in Queues /\ Same(q, q1) /\ q1.correct = q.correct
          /\ Media(s) => Dated(q1)
      BY <2>4, <2>5, NotedSame DEF Noted, QueueFit, InFileOrder
    <3>2. q1.next_prune_target \in Nat
      BY <3>1 DEF Queues, QueueRecords
    <3>. QED BY <2>4, <3>1, <3>2, SameFits
  <2>7. n \in Nat /\ n <= Len(q.packets) /\ (reader0 # 0 => n < reader0)
    <3>1. reader0 \in Nat /\ reader0 # 1
      BY <2>3, <2>4 DEF Current
    <3>2. Len(q.packets) \in Nat
      BY <2>4, QueueTypes
    <3>. HIDE DEF reader0, q1, q
    <3>. QED BY <2>6, <3>1, <3>2, PruneLength
  <2>. HIDE DEF n
  <2>8. /\ DOMAIN x1 = Fields /\ x1.ds = x.ds /\ x1.seeking = x.seeking
        /\ FirstQueue(x.ranges, x1.ranges, x.ds, s, q1)
    <3>1. CASE ~seekable
      <4>1. x1 = x /\ q1 = q
        BY <3>1
      <4>2. FirstQueue(x.ranges, x.ranges, x.ds, s, q)
        BY <1>2 DEF FirstQueue
      <4>. QED BY <1>2, <4>1, <4>2
    <3>2. CASE seekable
      <4> DEFINE T == [x.ranges EXCEPT ![1].queues[s] = q1]
                 U == [T EXCEPT ![1] = UpdateSeekRanges(x.ds, T[1])]
      <4>. HIDE DEF q1
      <4>1. /\ DOMAIN x1 = Fields /\ x1.ds = x.ds /\ x1.seeking = x.seeking
            /\ x1.ranges = U
        <5> DEFINE z == [x EXCEPT !.ranges[1].queues[s] = q1]
        <5>1. x1 = [z EXCEPT !.ranges[1] = UpdateSeekRanges(z.ds, @)]
          BY <3>2 DEF UpdateRange
        <5>2. DOMAIN z = Fields /\ z.ds = x.ds /\ z.seeking = x.seeking /\ z.ranges = T
          BY <1>2 DEF Fields
        <5>. HIDE DEF z, T, seekable, x1
        <5>. QED BY <5>1, <5>2 DEF Fields
      <4>2. FirstQueue(x.ranges, T, x.ds, s, q1)
        BY <1>2, <2>3, <2>6, FirstQueueSet
      <4>. HIDE DEF T
      <4>3. FirstQueue(x.ranges, U, x.ds, s, q1)
        BY <1>2, <4>2, FirstRangeUpdated
      <4>. QED BY <4>1, <4>3
    <3>. QED BY <3>1, <3>2
  <2>. HIDE DEF x1
  <2>9. QueueFit(r, s, d.selected)
    BY <2>4, <2>6, <2>7, HeadRemovedFits
  <2>10. /\ DOMAIN x2 = Fields /\ x2.ds = [x.ds EXCEPT ![s] = d1]
         /\ x2.seeking = x.seeking
         /\ x2.ranges = [x1.ranges EXCEPT ![1].queues[s] = r]
    <3>. HIDE DEF r, reader0, c, q, q1
    <3>. QED BY <2>8 DEF Fields
  <2>. HIDE DEF x2
  <2>11. FirstQueue(x.ranges, x2.ranges, x.ds, s, r)
    <3>1. RangesFit(x1.ranges, x.ds)
      BY <2>8 DEF FirstQueue
    <3>2. FirstQueue(x1.ranges, x2.ranges, x.ds, s, r)
      <4>. HIDE DEF r
      <4>. QED BY <2>3, <2>9, <2>10, <3>1, FirstQueueSet
    <3>. QED BY <2>8, <3>2, FirstTwice
  <2>12. /\ RangesFit(x2.ranges, x.ds) /\ Len(x2.ranges) = c
         /\ \A i \in Streams : x2.ranges[1].queues[i] =
                                 IF i = s THEN r ELSE x.ranges[1].queues[i]
         /\ \A k \in 2 .. c : x2.ranges[k] = x.ranges[k]
    BY <2>11 DEF FirstQueue
  <2>13. StreamFit(Queue(x, s), d, s, c = 1, x.seeking, last[s], next)
    BY <1>2, <2>3, QueueInRange DEF Fit, StreamsFit
  <2>14. /\ head \in Nat /\ d1 \in DemuxStreams /\ d1.selected = d.selected
         /\ d1.eager = d.eager
    <3>1. head \in Nat
      BY <2>4, <2>7
    <3>. HIDE DEF head, d
    <3>. QED BY <2>4, <3>1 DEF DemuxStreams
  <2>15. /\ StreamFit(Queue(x2, s), d1, s, c = 1, x.seeking, last[s], next)
         /\ \A i \in Streams \ {s} : Queue(x2, i) = Queue(x, i)
    <3>1. CASE c = 1
      <4>1. /\ Queue(x, s) = q /\ Queue(x2, s) = r
            /\ \A i \in Streams \ {s} : Queue(x2, i) = Queue(x, i)
        BY <2>3, <2>12, <3>1 DEF Queue, Current
      <4>2. reader0 = d.reader_head
        BY <3>1 DEF Current
      <4>3. head = IF d.reader_head = 0 THEN 0 ELSE d.reader_head - n
        BY <4>2
      <4>4. StreamFit(q, d, s, TRUE, x.seeking, last[s], next)
        <5>1. (c = 1) = TRUE
          BY <3>1
        <5>. QED BY <2>13, <4>1, <5>1
      <4>5. StreamFit(r, d1, s, TRUE, x.seeking, last[s], next)
        <5>1. QueueFit(q1, s, d.selected) /\ StreamFit(q1, d, s, TRUE, x.seeking, last[s], next)
              /\ Len(q1.packets) = Len(q.packets)
          <6>. HIDE DEF q1, q, d
          <6>. QED BY <2>5, <2>6, <4>4 DEF Noted, StreamFit, HeadFit, AheadFit
        <5>2. d.reader_head # 0 => n < d.reader_head
          BY <2>7, <4>2
        <5>. HIDE DEF q1, q, d, head
        <5>. QED BY <2>3, <2>4, <2>7, <4>3, <5>1, <5>2, HeadPruned
      <4>6. (c = 1) = TRUE
        BY <3>1
      <4>. QED BY <4>1, <4>5, <4>6
    <3>2. CASE c # 1
      <4>1. c \in 2 .. c
        <5>. HIDE DEF c
        <5>. QED BY <2>1, <3>2
      <4>2. \A i \in Streams : Queue(x2, i) = Queue(x, i)
        BY <2>12, <4>1 DEF Queue, Current
      <4>3. head = d.reader_head
        BY <3>2 DEF Current
      <4>4. d1.refreshing = d.refreshing /\ d1.reader_head = d.reader_head
        <5>. HIDE DEF head, d
        <5>. QED BY <2>4, <4>3 DEF DemuxStreams
      <4>. HIDE DEF d1, d, c
      <4>. QED BY <2>3, <2>13, <2>14, <4>2, <4>4 DEF StreamFit, HeadFit, AheadFit
    <3>. QED BY <3>1, <3>2
  <2>16. Fit(x2, last, next)
    <3>1. /\ d1.selected = x.ds[s].selected /\ d1.eager = x.ds[s].eager
          /\ Len(x.ranges) = 1 => Len(x2.ranges) = 1
          /\ StreamFit(Queue(x2, s), d1, s, Len(x2.ranges) = 1, x.seeking, last[s], next)
          /\ next <= next
      BY <2>12, <2>14, <2>15
    <3>. HIDE DEF d1
    <3>. QED BY <2>3, <2>10, <2>12, <2>14, <2>15, <3>1, OneStream, Zenon
  <2>17. y = x2 \/ y = FreeEmptyRanges(x2)
    BY <1>1, <1>4
  <2>18. Shape(x2)
    BY <2>16 DEF Fit
  <2>. QED BY <2>16, <2>17, <2>18, FreedTrimmed, TrimmedFits
<1>. QED BY <1>3, <1>4

(* Sizes of things add up to one.                                          *)
LEMMA TotalNat ==
  ASSUME NEW m \in Nat, NEW f \in [1 .. m -> Nat]
  PROVE  Total(f) \in Nat
<1> DEFINE Step(g, i) == IF i = 0 THEN 0 ELSE g[i - 1] + f[i]
           G(g, k) == [i \in 0 .. k |-> Step(g, i)]
           P == {k \in Nat : k <= m => \E g \in [0 .. k -> Nat] : g = G(g, k)}
<1>1. Len(f) = m
  BY FunctionIsSeq
<1>2. 0 \in P
  <2> DEFINE g == [i \in 0 .. 0 |-> 0]
  <2>1. g = G(g, 0) /\ g \in [0 .. 0 -> Nat]
    <3>1. \A i \in 0 .. 0 : Step(g, i) = 0
      OBVIOUS
    <3>. HIDE DEF Step
    <3>. QED BY <3>1
  <2>. HIDE DEF g, G
  <2>. QED BY <2>1
<1>3. ASSUME NEW k \in Nat, k \in P PROVE k + 1 \in P
  <2>. SUFFICES ASSUME k + 1 <= m
                PROVE  \E g \in [0 .. k + 1 -> Nat] : g = G(g, k + 1)
    OBVIOUS
  <2>. HIDE DEF G
  <2>7. \E g \in [0 .. k -> Nat] : g = G(g, k)
    BY <1>3
  <2>1. PICK h \in [0 .. k -> Nat] : h = G(h, k)
    BY <2>7
  <2>2. \A i \in 0 .. k : h[i] = Step(h, i)
    BY <2>1 DEF G
  <2> DEFINE g == [i \in 0 .. k + 1 |-> IF i = k + 1 THEN h[k] + f[k + 1] ELSE h[i]]
  <2>3. g \in [0 .. k + 1 -> Nat]
    <3>1. k + 1 \in 1 .. m /\ k \in 0 .. k
      OBVIOUS
    <3>2. h[k] + f[k + 1] \in Nat
      BY <3>1
    <3>3. \A i \in 0 .. k + 1 : i # k + 1 => h[i] \in Nat
      OBVIOUS
    <3>. QED BY <3>2, <3>3
  <2>4. /\ \A i \in 0 .. k : g[i] = h[i]
        /\ g[k + 1] = h[k] + f[k + 1]
    OBVIOUS
  <2>. HIDE DEF g
  <2>5. ASSUME NEW i \in 0 .. k + 1 PROVE g[i] = Step(g, i)
    <3>1. CASE i = k + 1
      BY <2>4, <3>1
    <3>2. CASE i \in 0 .. k
      <4>1. i # 0 => i - 1 \in 0 .. k
        BY <3>2
      <4>. QED BY <2>2, <2>4, <3>2, <4>1
    <3>. QED BY <3>1, <3>2
  <2>6. g = G(g, k + 1)
    <3>. HIDE DEF Step
    <3>. QED BY <2>3, <2>5 DEF G
  <2>. QED BY <2>3, <2>6
<1>4. m \in P
  <2>. HIDE DEF P
  <2>. QED BY <1>2, <1>3, Induction
<1>5. PICK g \in [0 .. m -> Nat] : g = G(g, m)
  <2>. HIDE DEF G
  <2>. QED BY <1>4
<1> DEFINE H == CHOOSE h : h = G(h, m)
<1>6. Total(f) = H[m]
  BY <1>1 DEF Total
<1>7. H = G(H, m)
  <2>. HIDE DEF G
  <2>. QED BY <1>5
<1>. HIDE DEF H
<1>8. /\ \A i \in 0 .. m : H[i] = Step(H, i)
      /\ \A i \in 0 .. m : g[i] = Step(g, i)
  BY <1>5, <1>7
<1> DEFINE Q == {k \in Nat : k <= m => H[k] \in Nat}
<1>9. 0 \in Q
  BY <1>8
<1>10. ASSUME NEW k \in Nat, k \in Q PROVE k + 1 \in Q
  <2>. SUFFICES ASSUME k + 1 <= m PROVE H[k + 1] \in Nat
    OBVIOUS
  <2>1. H[k] \in Nat /\ f[k + 1] \in Nat
    BY <1>10
  <2>2. H[k + 1] = H[k] + f[k + 1]
    BY <1>8
  <2>. QED BY <2>1, <2>2
<1>11. m \in Q
  <2>. HIDE DEF Q
  <2>. QED BY <1>9, <1>10, Induction
<1>. QED BY <1>6, <1>11

(* The packets of all ranges can be counted.                               *)
LEMMA BytesCounted ==
  ASSUME NEW R, NEW ds, RangesFit(R, ds)
  PROVE  CacheBytes(R) \in Nat
<1> DEFINE m == Len(R)
           f == [n \in DOMAIN R |-> IF n \in DOMAIN R THEN RangeBytes(R[n]) ELSE 0]
<1>1. /\ m \in Nat /\ DOMAIN R = 1 .. m
      /\ \A n \in 1 .. m : \A s \in Streams : R[n].queues[s] \in Queues
  BY RangesTypes
<1>. HIDE DEF m
<1>2. ASSUME NEW n \in 1 .. m PROVE RangeBytes(R[n]) \in Nat
  <2> DEFINE g == [s \in Streams |-> QueueBytes(R[n].queues[s])]
  <2>1. \A s \in Streams : QueueBytes(R[n].queues[s]) \in Nat
    BY <1>1, QueueTypes DEF QueueBytes
  <2>2. NumStreams \in Nat /\ g \in [1 .. NumStreams -> Nat]
    BY <2>1, FileFacts
  <2>3. RangeBytes(R[n]) = Total(g)
    BY DEF RangeBytes
  <2>. HIDE DEF g
  <2>. QED BY <2>2, <2>3, TotalNat
<1>3. f \in [1 .. m -> Nat]
  BY <1>1, <1>2
<1>4. CacheBytes(R) = Total(f)
  BY DEF CacheBytes, BytesOf
<1>. HIDE DEF f
<1>. QED BY <1>1, <1>3, <1>4, TotalNat

(* prune_old_packets(): all of its rounds.                                 *)
LEMMA OldPacketsPruned ==
  ASSUME NEW x, NEW last, NEW next \in Int, Fit(x, last, next),
         NEW y, y = PruneOldPackets(x)
  PROVE  Fit(y, last, next)
<1> DEFINE m == CacheBytes(x.ranges)
           limit == IF x.seekable_cache THEN x.max_bytes_bw ELSE 0
           Round(z) == IF z.total_bytes - z.fw_bytes > limit /\ ~z.assert_failed
                       THEN PruneRound(z) ELSE z
           Step(f, i) == IF i = 0 THEN x ELSE Round(f[i - 1])
           G(f, k) == [i \in 0 .. k |-> Step(f, i)]
           P == {k \in Nat : \E f : f = G(f, k)}
<1>1. m \in Nat
  BY BytesCounted DEF Fit, Shape
<1> DEFINE h == CHOOSE f : f = G(f, m)
<1>2. y = h[m]
  BY DEF PruneOldPackets
<1>. HIDE DEF m, limit, Round
<1>3. 0 \in P
  <2> DEFINE f == [i \in 0 .. 0 |-> x]
  <2>1. f = G(f, 0)
    <3>1. \A i \in 0 .. 0 : Step(f, i) = x
      OBVIOUS
    <3>. HIDE DEF Step
    <3>. QED BY <3>1
  <2>. QED BY <2>1
<1>4. ASSUME NEW k \in Nat, k \in P PROVE k + 1 \in P
  <2>1. PICK f : f = G(f, k)
    BY <1>4
  <2>2. \A i \in 0 .. k : f[i] = Step(f, i)
    BY <2>1
  <2> DEFINE g == [i \in 0 .. k + 1 |-> IF i = k + 1 THEN Round(f[k]) ELSE f[i]]
  <2>3. \A i \in 0 .. k : g[i] = f[i]
    OBVIOUS
  <2>4. g[k + 1] = Round(f[k])
    OBVIOUS
  <2>5. DOMAIN g = 0 .. k + 1 /\ g = [i \in 0 .. k + 1 |-> g[i]]
    OBVIOUS
  <2>. HIDE DEF g
  <2>6. ASSUME NEW i \in 0 .. k + 1 PROVE g[i] = Step(g, i)
    <3>1. CASE i = k + 1
      BY <2>3, <2>4, <3>1
    <3>2. CASE i \in 0 .. k
      <4>1. f[i] = Step(f, i)
        BY <2>2, <3>2
      <4>2. i # 0 => i - 1 \in 0 .. k
        BY <3>2
      <4>3. Step(g, i) = Step(f, i)
        BY <2>3, <4>2
      <4>. QED BY <2>3, <3>2, <4>1, <4>3
    <3>. QED BY <3>1, <3>2
  <2>7. g = G(g, k + 1)
    <3>. HIDE DEF Step
    <3>. QED BY <2>5, <2>6
  <2>. QED BY <2>7
<1>5. m \in P
  <2>. HIDE DEF P
  <2>. QED BY <1>1, <1>3, <1>4, Induction
<1>6. h = G(h, m)
  <2>1. \E f : f = G(f, m)
    BY <1>5
  <2>. HIDE DEF G
  <2>. QED BY <2>1
<1>. HIDE DEF h
<1>7. \A i \in 0 .. m : h[i] = Step(h, i)
  BY <1>6
<1> DEFINE Q == {k \in Nat : k <= m => Fit(h[k], last, next)}
<1>8. 0 \in Q
  BY <1>1, <1>7
<1>9. ASSUME NEW k \in Nat, k \in Q PROVE k + 1 \in Q
  <2>. SUFFICES ASSUME k + 1 <= m PROVE Fit(h[k + 1], last, next)
    OBVIOUS
  <2>1. Fit(h[k], last, next)
    BY <1>1, <1>9
  <2>2. h[k + 1] = Round(h[k])
    BY <1>1, <1>7
  <2>3. Round(h[k]) = h[k] \/ Round(h[k]) = PruneRound(h[k])
    BY DEF Round
  <2>. QED BY <2>1, <2>2, <2>3, RoundPruned
<1>10. m \in Q
  <2>. HIDE DEF Q
  <2>. QED BY <1>1, <1>8, <1>9, Induction
<1>. QED BY <1>1, <1>2, <1>10
=============================================================================
