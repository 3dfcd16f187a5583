------------------------- MODULE StreamCacheProofs --------------------------
(***************************************************************************)
(* Proofs about StreamCache for files, rings and requests of any size, and *)
(* any number of seeks, controls and failures.                             *)
(*                                                                         *)
(* The ring holds what a reader may be given: positions that are less than *)
(* a ring apart have different slots, and the cached range and what the    *)
(* thread is writing behind it never span more than a ring.  Whose the     *)
(* request is that the thread carries out, and that an end was only seen   *)
(* where the file ends, makes of that a file for the reader (ByteStream).  *)
(***************************************************************************)
EXTENDS StreamCache, TLAPS

(* The fields of struct priv.                                              *)
Fields == {"buffer", "buffer_size", "back_size", "seek_limit", "seekable",
           "min_filepos", "max_filepos", "offset", "eof", "eof_pos", "idle",
           "stream_size", "enable_readahead", "read_filepos", "read_min",
           "bytes_until_wakeup", "control", "control_arg", "control_res",
           "control_flush", "asserted"}

RingFields == {"buffer", "buffer_size", "min_filepos", "max_filepos", "offset"}

Bytes == 0..FileSize - 1 \cup {Junk}

(* The ring of a state c of the cache: offset is where its first slot is,  *)
(* or a ring before that.                                                  *)
Ring(c) ==
  /\ c.buffer_size \in Nat \ {0}
  /\ c.buffer \in [0..c.buffer_size - 1 -> Bytes]
  /\ c.min_filepos \in 0..FileSize /\ c.max_filepos \in 0..FileSize
  /\ c.offset \in Nat /\ c.offset =< c.max_filepos
  /\ c.max_filepos < c.offset + c.buffer_size + c.buffer_size
  /\ c.max_filepos - c.min_filepos =< c.buffer_size
  /\ \A p \in c.min_filepos..c.max_filepos - 1 : c.buffer[Slot(c, p)] = p

(* What the parameters and the requests are, next to the ring.             *)
Params(c) ==
  /\ c.back_size \in Nat /\ c.back_size < c.buffer_size
  /\ c.seek_limit \in Nat /\ c.stream_size \in -1..FileSize
  /\ c.read_filepos \in 0..FileSize /\ c.read_min \in Nat
  /\ c.eof_pos \in -1..FileSize /\ c.bytes_until_wakeup \in Int
  /\ c.control_arg \in Nat
  /\ c.control \in {"none", "ping", "seek", "resize", "move", "quit"}
  /\ c.eof \in BOOLEAN /\ c.idle \in BOOLEAN /\ c.enable_readahead \in BOOLEAN
  /\ c.seekable \in BOOLEAN /\ c.control_res \in BOOLEAN
  /\ c.control_flush \in BOOLEAN /\ c.asserted \in BOOLEAN

Cache(c) == DOMAIN c = Fields /\ Ring(c) /\ Params(c)

ThreadPlaces ==
  thread \in [at : {"lock", "loop", "reading", "asleep", "done", "aborted"},
              pos : Nat, space : Nat]

ReaderPlaces ==
  /\ reader \in [call : {"none", "open", "read", "seek", "control", "close",
                         "join", "gone"},
                 at : {"run", "ping", "asleep", "woken"}, len : 0..MaxRead]
  /\ reader.at = "ping" => reader.call = "open"
  /\ reader.call \in {"read", "seek", "control"} => reader.at \in {"asleep", "woken"}
  /\ reader.call = "read" => reader.len >= 1

Places == ThreadPlaces /\ ReaderPlaces

World ==
  /\ tell \in 0..FileSize /\ pos \in 0..FileSize
  /\ setup \in Setups /\ cancelled \in BOOLEAN
  /\ calls \in 0..MaxCalls /\ faults \in 0..MaxFaults

(* Without the mutex the thread writes behind the cached range, what the   *)
(* stream has there, into slots that no byte of the range is in.           *)
Reading ==
  thread.at = "reading" =>
    /\ tell = s.max_filepos /\ thread.pos = FillPos(s)
    /\ thread.space \in 1..ReadChunk
    /\ thread.pos + thread.space =< s.buffer_size
    /\ s.max_filepos - s.min_filepos + thread.space =< s.buffer_size

(* The last fill met the end of the file where the cached range ends,      *)
(* unless the stream may have failed.                                      *)
AtEnd(c) == c.eof /\ ~cancelled /\ ~ReadFailed => c.max_filepos = FileSize

(* Whose the request is, and whether read_filepos is the reader's own.     *)
Owned(c) ==
  ~cancelled =>
    /\ reader.call \in {"none", "open", "read", "seek"} => c.read_filepos = pos
    /\ reader.call = "control" =>
         /\ c.control \in {"resize", "move", "none"}
         /\ c.control # "none" \/ ~c.control_flush => c.read_filepos = pos
    /\ c.control = "seek" => reader.call = "seek"
    /\ c.control \in {"resize", "move"} => reader.call = "control"

Asked == reader.call = "control" => got = <<FileSize>>

(* Bytes are given up for as many behind the reader, or all of them are.   *)
Roomy(c) ==
  /\ c.min_filepos > s.min_filepos
  /\ c.max_filepos > c.min_filepos
  /\ c.buffer_size = s.buffer_size
  => c.read_filepos - c.min_filepos >= c.back_size

IInv == Cache(s) /\ Places /\ World /\ Reading /\ AtEnd(s) /\ Owned(s) /\ Asked

-----------------------------------------------------------------------------
(* The numbers that the arithmetic below needs.                            *)
LEMMA SizeType == FileSize \in Nat /\ ReadChunk \in Nat \ {0}
  BY StreamCacheAssumption

(* read_buffer() finds a position within a ring of the offset.             *)
LEMMA SlotInside ==
  ASSUME NEW c, NEW p \in Int, c.offset \in Int, c.buffer_size \in Nat \ {0},
         c.offset - c.buffer_size =< p,
         p < c.offset + c.buffer_size + c.buffer_size
  PROVE  /\ Slot(c, p) \in 0..c.buffer_size - 1
         /\ Slot(c, p) \in {p - c.offset, p - c.offset + c.buffer_size,
                            p - c.offset - c.buffer_size}
  BY DEF Slot

(* Bytes that are less than a ring apart do not share a slot.              *)
LEMMA SlotsDiffer ==
  ASSUME NEW c, NEW p \in Int, NEW q \in Int,
         c.offset \in Int, c.buffer_size \in Nat \ {0},
         c.offset - c.buffer_size =< p, p < q, q - p < c.buffer_size,
         q < c.offset + c.buffer_size + c.buffer_size
  PROVE  Slot(c, p) # Slot(c, q)
  BY DEF Slot

(* Every position of the cached range has a slot.                          *)
LEMMA RingSlots ==
  ASSUME NEW c, Ring(c), NEW p \in c.min_filepos..c.max_filepos - 1
  PROVE  /\ Slot(c, p) \in 0..c.buffer_size - 1
         /\ p \in 0..FileSize - 1
<1>1. /\ p \in Int /\ p \in 0..FileSize - 1
      /\ c.offset - c.buffer_size =< p
      /\ p < c.offset + c.buffer_size + c.buffer_size
      /\ c.offset \in Int /\ c.buffer_size \in Nat \ {0}
  BY StreamCacheAssumption DEF Ring
<1>. QED BY <1>1, SlotInside

(* Only the fields of the ring matter for it.                              *)
LEMMA RingSame ==
  ASSUME NEW c, NEW d, Ring(c), \A f \in RingFields : d[f] = c[f]
  PROVE  Ring(d)
<1>1. /\ d.buffer = c.buffer /\ d.buffer_size = c.buffer_size
      /\ d.min_filepos = c.min_filepos /\ d.max_filepos = c.max_filepos
      /\ d.offset = c.offset
  BY DEF RingFields
<1>2. \A p : Slot(d, p) = Slot(c, p)
  BY <1>1 DEF Slot
<1>. QED BY <1>1, <1>2 DEF Ring

(* The numbers of a ring.                                                  *)
LEMMA RingTypes ==
  ASSUME NEW c, Ring(c)
  PROVE  /\ c.min_filepos \in Nat /\ c.max_filepos \in Nat
         /\ c.buffer_size \in Nat \ {0} /\ c.offset \in Nat
         /\ c.min_filepos =< FileSize /\ c.max_filepos =< FileSize
         /\ c.max_filepos - c.min_filepos =< c.buffer_size
  BY SizeType DEF Ring

(* What read_buffer() returns is the file.                                 *)
LEMMA ReadReturns ==
  ASSUME NEW c, Ring(c), NEW size \in Nat, NEW p \in Int
  PROVE  LET data == ReadBuffer(c, size, p)
         IN  /\ Len(data) = IF Cached(c, p) THEN Smaller(size, c.max_filepos - p)
                                            ELSE 0
             /\ Len(data) \in Nat /\ Len(data) =< size
             /\ \A i \in 1..Len(data) : data[i] = p + i - 1
             /\ data = [i \in 1..Len(data) |-> p + i - 1]
<1>. DEFINE n == Smaller(size, c.max_filepos - p)
            e(i) == c.buffer[Slot(c, p + i - 1)]
<1>1. CASE Cached(c, p)
  <2>1. n \in Nat /\ n =< size
    BY <1>1 DEF Cached, Smaller, Ring
  <2>2. \A i \in 1..n : e(i) = p + i - 1
    <3>1. ASSUME NEW i \in 1..n
          PROVE  p + i - 1 \in c.min_filepos..c.max_filepos - 1
      BY <1>1, <2>1 DEF Cached, Smaller, Ring
    <3>. QED BY <3>1 DEF Ring
  <2>3. ReadBuffer(c, size, p) = [i \in 1..n |-> e(i)]
    BY <1>1 DEF ReadBuffer
  <2>4. ReadBuffer(c, size, p) = [i \in 1..n |-> p + i - 1]
    BY <2>2, <2>3
  <2>5. [i \in 1..n |-> p + i - 1] \in Seq(Int) /\ Len([i \in 1..n |-> p + i - 1]) = n
    BY <2>1
  <2>. QED BY <1>1, <2>1, <2>4, <2>5
<1>2. CASE ~Cached(c, p)
  <2>1. ReadBuffer(c, size, p) = <<>>
    BY <1>2 DEF ReadBuffer
  <2>2. Len(<<>>) = 0 /\ <<>> = [i \in 1..0 |-> p + i - 1]
    OBVIOUS
  <2>. QED BY <1>2, <2>1, <2>2
<1>. QED BY <1>1, <1>2

-----------------------------------------------------------------------------
(* What the operations leave of the ring.                                  *)
LEMMA DropContentsFields ==
  ASSUME NEW c, DOMAIN c = Fields
  PROVE  LET d == DropContents(c)
         IN  /\ DOMAIN d = Fields
             /\ d.offset = c.read_filepos /\ d.min_filepos = c.read_filepos
             /\ d.max_filepos = c.read_filepos /\ d.eof = FALSE
             /\ \A f \in Fields \ {"offset", "min_filepos", "max_filepos", "eof"} :
                  d[f] = c[f]
  BY DEF DropContents, Fields

(* A range without bytes is a ring wherever it starts.                     *)
LEMMA DropContentsRing ==
  ASSUME NEW c, DOMAIN c = Fields, Ring(c), c.read_filepos \in 0..FileSize
  PROVE  Ring(DropContents(c))
<1>. DEFINE d == DropContents(c)
<1>1. /\ d.offset = c.read_filepos /\ d.min_filepos = c.read_filepos
      /\ d.max_filepos = c.read_filepos
      /\ d.buffer = c.buffer /\ d.buffer_size = c.buffer_size
  BY DropContentsFields DEF Fields
<1>. QED BY <1>1, StreamCacheAssumption DEF Ring

(* Slots that no byte of the range is in may hold anything.                *)
LEMMA ForgetFields ==
  ASSUME NEW c, DOMAIN c = Fields, Ring(c)
  PROVE  LET d == Forget(c)
         IN  /\ DOMAIN d = Fields
             /\ \A f \in Fields \ {"buffer"} : d[f] = c[f]
             /\ Ring(d)
<1>. DEFINE d == Forget(c)
<1>1. DOMAIN d = Fields /\ \A f \in Fields \ {"buffer"} : d[f] = c[f]
  BY DEF Forget, Fields
<1>2. /\ d.buffer_size = c.buffer_size /\ d.offset = c.offset
      /\ d.min_filepos = c.min_filepos /\ d.max_filepos = c.max_filepos
  BY <1>1 DEF Fields
<1>3. d.buffer = [i \in DOMAIN c.buffer |->
                    IF \E p \in c.min_filepos..c.max_filepos - 1 : Slot(c, p) = i
                    THEN c.buffer[i] ELSE Junk]
  BY DEF Forget, Fields
<1>4. d.buffer \in [0..c.buffer_size - 1 -> Bytes]
  <2>1. c.buffer \in [0..c.buffer_size - 1 -> Bytes] /\ Junk \in Bytes
    BY DEF Ring, Bytes
  <2>. QED BY <1>3, <2>1
<1>5. ASSUME NEW p \in c.min_filepos..c.max_filepos - 1
      PROVE  d.buffer[Slot(d, p)] = p
  <2>1. Slot(d, p) = Slot(c, p)
    BY <1>2 DEF Slot
  <2>2. Slot(c, p) \in DOMAIN c.buffer
    BY RingSlots DEF Ring
  <2>3. d.buffer[Slot(c, p)] = c.buffer[Slot(c, p)]
    BY <1>3, <2>2
  <2>. QED BY <2>1, <2>3 DEF Ring
<1>6. Ring(d)
  BY <1>2, <1>4, <1>5 DEF Ring
<1>. QED BY <1>1, <1>6

(* resize_cache() replaces the ring, resets eof, and leaves the requests   *)
(* alone.                                                                  *)
LEMMA ResizeFields ==
  ASSUME NEW c, DOMAIN c = Fields, NEW wanted
  PROVE  LET d == Resize(c, wanted)
         IN  /\ DOMAIN d = Fields /\ d.eof = FALSE
             /\ \A f \in Fields \ (RingFields \cup {"back_size", "idle", "eof",
                                                   "seek_limit", "asserted"}) :
                  d[f] = c[f]
  BY DEF Resize, Fields, RingFields

(* The sizes that resize_cache() computes fit each other.                  *)
LEMMA ResizeSizes ==
  ASSUME NEW c, DOMAIN c = Fields, NEW wanted \in Int,
         c.back_size \in Int, c.stream_size \in Int
  PROVE  LET d == Resize(c, wanted)
         IN  /\ d.back_size \in Nat /\ d.buffer_size \in Nat
             /\ d.back_size < d.buffer_size
             /\ d.seek_limit = Smaller(c.seek_limit, d.buffer_size - FILL_LIMIT)
<1>. DEFINE fits == c.stream_size > 0 /\ wanted >= c.stream_size
            back == Larger(IF fits THEN 0 ELSE c.back_size, 2 * FILL_LIMIT)
            size == Larger(IF fits THEN c.stream_size ELSE wanted, 2 * FILL_LIMIT) + back
<1>1. back \in Nat /\ size \in Nat /\ back < size
  BY DEF Larger, FILL_LIMIT
<1>2. Resize(c, wanted).buffer_size = size /\ Resize(c, wanted).back_size = back
  BY DEF Resize, Fields
<1>3. Resize(c, wanted).seek_limit = Smaller(c.seek_limit, size - FILL_LIMIT)
  BY DEF Resize, Fields
<1>. HIDE DEF back, size
<1>. QED BY <1>1, <1>2, <1>3

(* The new buffer: what follows the reader from its first slot on, what    *)
(* precedes it up to its last.                                             *)
LEMMA ResizeBuffer ==
  ASSUME NEW c, DOMAIN c = Fields, NEW wanted, NEW size,
         size = Resize(c, wanted).buffer_size, NEW ahead,
         ahead = ReadBuffer(c, size, c.read_filepos), NEW copy,
         copy = Clamp(c.read_filepos - c.min_filepos, 0, size - Len(ahead)),
         NEW behind, behind = ReadBuffer(c, copy, c.read_filepos - copy)
  PROVE  Resize(c, wanted).buffer =
           [i \in 0..size - 1 |->
              IF i < Len(ahead) THEN ahead[i + 1]
              ELSE IF i >= size - copy /\ i < size - copy + Len(behind)
                   THEN behind[i - (size - copy) + 1] ELSE Junk]
<1>. DEFINE fits == c.stream_size > 0 /\ wanted >= c.stream_size
            back == Larger(IF fits THEN 0 ELSE c.back_size, 2 * FILL_LIMIT)
            n    == Larger(IF fits THEN c.stream_size ELSE wanted, 2 * FILL_LIMIT) + back
            a    == ReadBuffer(c, n, c.read_filepos)
            k    == Clamp(c.read_filepos - c.min_filepos, 0, n - Len(a))
            b    == ReadBuffer(c, k, c.read_filepos - k)
<1>1. "buffer" \in DOMAIN c /\ "buffer_size" \in DOMAIN c
  BY DEF Fields
<1>2. size = n
  BY <1>1 DEF Resize
<1>3. Resize(c, wanted).buffer =
        [i \in 0..n - 1 |->
           IF i < Len(a) THEN a[i + 1]
           ELSE IF i >= n - k /\ i < n - k + Len(b) THEN b[i - (n - k) + 1] ELSE Junk]
  BY <1>1 DEF Resize
<1>. HIDE DEF n
<1>4. ahead = a
  BY <1>2
<1>. HIDE DEF a
<1>5. copy = k
  BY <1>2, <1>4
<1>. HIDE DEF k
<1>6. behind = b
  BY <1>5
<1>. HIDE DEF b
<1>. QED BY <1>2, <1>3, <1>4, <1>5, <1>6

(* If resize_cache()'s assertion holds, the new ring holds what it claims, *)
(* and if it has the old size no byte is dropped unless all are.           *)
LEMMA ResizeRing ==
  ASSUME NEW c, DOMAIN c = Fields, Ring(c), NEW wanted \in Int,
         c.read_filepos \in 0..FileSize, c.back_size \in Int, c.stream_size \in Int,
         Resize(c, wanted).asserted
  PROVE  LET d == Resize(c, wanted)
         IN  /\ Ring(d)
             /\ \/ d.buffer_size # c.buffer_size \/ d.max_filepos =< d.min_filepos
                \/ d.min_filepos =< c.min_filepos
<1>0. SUFFICES
       ASSUME NEW d, d = Resize(c, wanted), NEW size, size = d.buffer_size,
              NEW read, read = c.read_filepos,
              NEW ahead, ahead = ReadBuffer(c, size, read), NEW m, m = Len(ahead),
              NEW copy, copy = Clamp(read - c.min_filepos, 0, size - m),
              NEW from, from = read - copy,
              NEW behind, behind = ReadBuffer(c, copy, from)
       PROVE  /\ Ring(d)
              /\ \/ d.buffer_size # c.buffer_size \/ d.max_filepos =< d.min_filepos
                 \/ d.min_filepos =< c.min_filepos
  OBVIOUS
<1>1. d.offset = read /\ d.max_filepos = read + m
  BY <1>0 DEF Resize, Fields
<1>2. d.min_filepos = read - Len(behind) /\ d.asserted = (Len(behind) = copy)
  BY <1>0 DEF Resize, Fields
<1>3. d.buffer = [i \in 0..size - 1 |->
                    IF i < m THEN ahead[i + 1]
                    ELSE IF i >= size - copy /\ i < size - copy + Len(behind)
                         THEN behind[i - (size - copy) + 1] ELSE Junk]
  BY <1>0, ResizeBuffer
<1>4. /\ size \in Nat \ {0} /\ read \in Int /\ 0 =< read /\ read =< FileSize
      /\ FileSize \in Nat /\ Len(behind) = copy
  <2>1. d.buffer_size \in Nat /\ d.back_size \in Nat /\ d.back_size < d.buffer_size
    BY <1>0, ResizeSizes
  <2>2. size \in Nat \ {0}
    BY <1>0, <2>1
  <2>3. read \in Int /\ 0 =< read /\ read =< FileSize /\ FileSize \in Nat
    BY <1>0, SizeType
  <2>4. Len(behind) = copy
    BY <1>0, <1>2
  <2>. QED BY <2>2, <2>3, <2>4
<1>5. /\ m = IF Cached(c, read) THEN Smaller(size, c.max_filepos - read) ELSE 0
      /\ m \in Nat /\ \A i \in 1..m : ahead[i] = read + i - 1
  <2>1. ahead = ReadBuffer(c, size, read) /\ m = Len(ahead)
    BY <1>0
  <2>2. size \in Nat /\ read \in Int
    BY <1>4
  <2>. QED BY <2>1, <2>2, ReadReturns
<1>6. copy \in Nat /\ from \in Int
  BY <1>0, <1>4, <1>5 DEF Clamp, Larger, Smaller, Ring
<1>7. /\ copy = IF Cached(c, from) THEN Smaller(copy, c.max_filepos - from) ELSE 0
      /\ \A i \in 1..copy : behind[i] = from + i - 1
  <2>1. behind = ReadBuffer(c, copy, from)
    BY <1>0
  <2>2. /\ Len(behind) = IF Cached(c, from) THEN Smaller(copy, c.max_filepos - from) ELSE 0
        /\ \A i \in 1..Len(behind) : behind[i] = from + i - 1
    BY <1>6, <2>1, ReadReturns
  <2>. QED BY <1>4, <2>2
<1>. /\ size \in Nat \ {0} /\ read \in Int /\ 0 =< read /\ read =< FileSize
     /\ FileSize \in Nat /\ m \in Nat /\ copy \in Nat
  BY <1>4, <1>5, <1>6
<1>8. /\ m + copy =< size /\ copy =< read /\ read + m =< FileSize
      /\ size # c.buffer_size \/ m + copy = 0 \/ read - copy =< c.min_filepos
  <2>1. copy = Clamp(read - c.min_filepos, 0, size - m) /\ from = read - copy
    BY <1>0
  <2>2. copy = IF Cached(c, read - copy)
               THEN Smaller(copy, c.max_filepos - (read - copy)) ELSE 0
    BY <1>7, <2>1
  <2>3. /\ c.min_filepos \in Nat /\ c.max_filepos \in Nat /\ c.buffer_size \in Nat
        /\ c.min_filepos =< FileSize /\ c.max_filepos =< FileSize
        /\ c.max_filepos - c.min_filepos =< c.buffer_size
    BY DEF Ring
  <2>4. m =< size /\ read + m =< FileSize
    BY <1>5, <2>3 DEF Cached, Smaller
  <2>5. copy \in Nat /\ copy =< size - m /\ copy =< read
    BY <2>1, <2>3, <2>4 DEF Clamp, Larger, Smaller
  <2>6. size # c.buffer_size \/ m + copy = 0 \/ read - copy =< c.min_filepos
    <3>1. CASE Cached(c, read) /\ size = c.buffer_size
      <4>1. m = c.max_filepos - read /\ c.min_filepos =< read
        BY <1>5, <2>3, <3>1 DEF Cached, Smaller
      <4>2. read - c.min_filepos >= 0 /\ read - c.min_filepos =< size - m
        BY <2>3, <3>1, <4>1
      <4>3. copy = read - c.min_filepos
        BY <2>1, <2>3, <4>2 DEF Clamp, Larger, Smaller
      <4>. QED BY <2>3, <4>3
    <3>2. CASE ~Cached(c, read) /\ size = c.buffer_size /\ copy # 0
      <4>1. m = 0 /\ read = c.max_filepos /\ c.min_filepos =< read
        BY <1>5, <2>2, <2>3, <2>5, <3>2 DEF Cached, Smaller
      <4>2. copy = read - c.min_filepos
        BY <2>1, <2>3, <3>2, <4>1 DEF Clamp, Larger, Smaller
      <4>. QED BY <2>3, <4>2
    <3>. QED BY <1>5, <2>5, <3>1, <3>2
  <2>. QED BY <2>4, <2>5, <2>6
<1>9. d.buffer = [i \in 0..size - 1 |->
                    IF i < m THEN read + i
                    ELSE IF i >= size - copy THEN read + i - size ELSE Junk]
  <2>1. ASSUME NEW i \in 0..size - 1, i < m
        PROVE  ahead[i + 1] = read + i
    BY <1>4, <1>5, <2>1
  <2>2. ASSUME NEW i \in 0..size - 1, ~(i < m), i >= size - copy
        PROVE  behind[i - (size - copy) + 1] = read + i - size
    <3>1. i - (size - copy) + 1 \in 1..copy
      BY <1>4, <1>6, <2>2
    <3>e. from = read - copy
      BY <1>0
    <3>2. behind[i - (size - copy) + 1] = from + (i - (size - copy) + 1) - 1
      BY <1>7, <3>1
    <3>. QED BY <1>4, <1>6, <3>1, <3>2, <3>e
  <2>3. \A i \in 0..size - 1 : i < size - copy + Len(behind)
    BY <1>4, <1>6
  <2>. QED BY <1>3, <2>1, <2>2, <2>3
<1>10. /\ m + copy =< size /\ read + m =< FileSize /\ copy =< read
       /\ d.offset = read /\ d.buffer_size = size
       /\ d.max_filepos = read + m /\ d.min_filepos = read - copy
  BY <1>0, <1>1, <1>2, <1>4, <1>8
<1>11. Ring(d)
  <2>1. d.buffer \in [0..size - 1 -> Bytes]
    <3>1. ASSUME NEW i \in 0..size - 1
          PROVE  (IF i < m THEN read + i
                  ELSE IF i >= size - copy THEN read + i - size ELSE Junk) \in Bytes
      BY <1>10 DEF Bytes, Junk
    <3>. QED BY <1>9, <3>1
  <2>2. ASSUME NEW p \in d.min_filepos..d.max_filepos - 1
        PROVE  d.buffer[Slot(d, p)] = p
    <3>1. CASE p >= read
      BY <1>9, <1>10, <3>1 DEF Slot
    <3>2. CASE p < read
      BY <1>9, <1>10, <3>2 DEF Slot
    <3>. QED BY <1>10, <3>1, <3>2
  <2>3. /\ d.min_filepos \in 0..FileSize /\ d.max_filepos \in 0..FileSize
        /\ d.offset \in Nat /\ d.offset =< d.max_filepos
        /\ d.max_filepos < d.offset + d.buffer_size + d.buffer_size
        /\ d.max_filepos - d.min_filepos =< d.buffer_size
    BY <1>10
  <2>. QED BY <1>10, <2>1, <2>2, <2>3 DEF Ring
<1>12. \/ d.buffer_size # c.buffer_size \/ d.max_filepos =< d.min_filepos
       \/ d.min_filepos =< c.min_filepos
  BY <1>8, <1>10
<1>. QED BY <1>11, <1>12

-----------------------------------------------------------------------------
(* cache_fill(): where it may write, and what it reserves behind the reader. *)
LEMMA FillFacts ==
  ASSUME NEW c, Ring(c), c.read_filepos \in Nat, c.back_size \in Nat
  PROVE  /\ Back(c) \in Nat /\ Ahead(c) \in Nat /\ Space(c) \in Int
         /\ Space(c) = c.buffer_size - (Ahead(c) + Back(c))
         /\ c.read_filepos - c.min_filepos =< Back(c) \/ c.back_size =< Back(c)
         /\ FillPos(c) \in 0..c.buffer_size - 1
         /\ FillPos(c) \in {c.max_filepos - c.offset,
                            c.max_filepos - c.offset - c.buffer_size}
         /\ Space(c) >= FILL_LIMIT =>
              /\ FillSpace(c) \in 1..ReadChunk /\ FillSpace(c) =< Space(c)
              /\ FillPos(c) + FillSpace(c) =< c.buffer_size
<1>1. /\ c.min_filepos \in Nat /\ c.max_filepos \in Nat /\ c.offset \in Nat
      /\ c.buffer_size \in Nat \ {0} /\ ReadChunk \in Nat \ {0}
      /\ c.offset =< c.max_filepos
      /\ c.max_filepos < c.offset + c.buffer_size + c.buffer_size
  BY StreamCacheAssumption DEF Ring
<1>2. /\ Back(c) \in Nat
      /\ c.read_filepos - c.min_filepos =< Back(c) \/ c.back_size =< Back(c)
  BY <1>1 DEF Back, Clamp, Larger, Smaller
<1>3. Ahead(c) \in Nat
  BY <1>1 DEF Ahead, Larger
<1>4. Space(c) = c.buffer_size - (Ahead(c) + Back(c))
  BY DEF Space
<1>5. /\ FillPos(c) \in 0..c.buffer_size - 1
      /\ FillPos(c) \in {c.max_filepos - c.offset,
                         c.max_filepos - c.offset - c.buffer_size}
  BY <1>1 DEF FillPos
<1>6. ASSUME Space(c) >= FILL_LIMIT
      PROVE  /\ FillSpace(c) \in 1..ReadChunk /\ FillSpace(c) =< Space(c)
             /\ FillPos(c) + FillSpace(c) =< c.buffer_size
  <2>1. Space(c) \in Int /\ Space(c) >= 1
    BY <1>1, <1>2, <1>3, <1>4, <1>6 DEF FILL_LIMIT
  <2>. QED BY <1>1, <1>5, <2>1 DEF FillSpace, Smaller
<1>. QED BY <1>1, <1>2, <1>3, <1>4, <1>5, <1>6

(* The next byte that is read goes where read_buffer() will look for it.   *)
LEMMA FillSlots ==
  ASSUME NEW c, Ring(c), NEW j \in Nat, FillPos(c) + j < c.buffer_size,
         c.read_filepos \in Nat, c.back_size \in Nat
  PROVE  /\ Slot(c, c.max_filepos + j) = FillPos(c) + j
         /\ \A p \in c.min_filepos..c.max_filepos - 1 :
              c.max_filepos + j - p < c.buffer_size => Slot(c, p) # FillPos(c) + j
<1>1. /\ c.min_filepos \in Nat /\ c.max_filepos \in Nat /\ c.offset \in Nat
      /\ c.buffer_size \in Nat \ {0}
      /\ c.offset =< c.max_filepos
      /\ c.max_filepos < c.offset + c.buffer_size + c.buffer_size
      /\ c.max_filepos - c.min_filepos =< c.buffer_size
  BY SizeType DEF Ring
<1>2. Slot(c, c.max_filepos + j) = FillPos(c) + j
  BY <1>1 DEF Slot, FillPos
<1>3. ASSUME NEW p \in c.min_filepos..c.max_filepos - 1,
             c.max_filepos + j - p < c.buffer_size
      PROVE  Slot(c, p) # FillPos(c) + j
  BY <1>1, <1>3 DEF Slot, FillPos
<1>. QED BY <1>2, <1>3

(* A fill begins: it makes room for what it may read, and no more.         *)
LEMMA BeginReadRing ==
  ASSUME NEW c, DOMAIN c = Fields, Ring(c), c.read_filepos \in 0..FileSize,
         c.back_size \in Nat, Space(c) >= FILL_LIMIT, BeginRead(c)
  PROVE  /\ DOMAIN s' = Fields
         /\ \A f \in Fields \ {"buffer", "min_filepos"} : s'[f] = c[f]
         /\ Ring(s')
         /\ thread' = [at |-> "reading", pos |-> FillPos(c), space |-> FillSpace(c)]
         /\ reader' = reader
         /\ s'.max_filepos - s'.min_filepos + FillSpace(c) =< s'.buffer_size
         /\ s'.min_filepos = c.min_filepos
            \/ /\ c.read_filepos - s'.min_filepos >= c.back_size
               /\ s'.min_filepos >= c.min_filepos
<1>. DEFINE space == FillSpace(c)
            min   == Larger(c.min_filepos,
                            c.read_filepos - (c.buffer_size - (space + Ahead(c))))
            e     == [c EXCEPT !.min_filepos = min]
            d     == Forget(e)
<1>1. /\ thread' = [at |-> "reading", pos |-> FillPos(c), space |-> space]
      /\ reader' = reader
      /\ s' = [d EXCEPT !.buffer = [i \in DOMAIN @ |->
                 IF FillPos(c) <= i /\ i < FillPos(c) + space THEN Junk ELSE @[i]]]
  BY DEF BeginRead
<1>2. /\ space \in Nat \ {0} /\ space =< Space(c) /\ Space(c) \in Int
      /\ FillPos(c) + space =< c.buffer_size /\ FillPos(c) \in Nat
      /\ Ahead(c) \in Nat /\ Back(c) \in Nat
      /\ Space(c) = c.buffer_size - (Ahead(c) + Back(c))
      /\ c.read_filepos - c.min_filepos =< Back(c) \/ c.back_size =< Back(c)
  BY FillFacts, SizeType
<1>3. /\ DOMAIN e = Fields /\ e.min_filepos = min
      /\ \A f \in Fields \ {"min_filepos"} : e[f] = c[f]
  BY DEF Fields
<1>. HIDE DEF e, space
<1>4. /\ min \in 0..FileSize /\ c.min_filepos =< min
      /\ c.max_filepos - min + space =< c.buffer_size
      /\ min = c.min_filepos \/ c.read_filepos - min >= c.back_size
  <2>1. c.read_filepos \in Nat /\ c.read_filepos =< FileSize /\ FileSize \in Nat
    BY SizeType
  <2>2. Ahead(c) >= c.max_filepos - c.read_filepos
    BY <2>1, RingTypes DEF Ahead, Larger
  <2>. QED BY <1>2, <2>1, <2>2, RingTypes DEF Larger
<1>. HIDE DEF min
<1>5. Ring(e)
  <2>1. /\ e.buffer = c.buffer /\ e.buffer_size = c.buffer_size
        /\ e.max_filepos = c.max_filepos /\ e.offset = c.offset
    BY <1>3 DEF Fields
  <2>2. \A p : Slot(e, p) = Slot(c, p)
    BY <2>1 DEF Slot
  <2>3. \A p \in min..c.max_filepos - 1 : p \in c.min_filepos..c.max_filepos - 1
    BY <1>4, SizeType DEF Ring
  <2>4. c.max_filepos - min =< c.buffer_size
    BY <1>2, <1>4, SizeType, RingTypes
  <2>. QED BY <1>3, <1>4, <2>1, <2>2, <2>3, <2>4 DEF Ring
<1>6. /\ DOMAIN d = Fields /\ Ring(d)
      /\ \A f \in Fields \ {"buffer"} : d[f] = e[f]
  BY <1>3, <1>5, ForgetFields
<1>. HIDE DEF d
<1>7. /\ DOMAIN s' = Fields
      /\ \A f \in Fields \ {"buffer"} : s'[f] = d[f]
      /\ s'.buffer = [i \in DOMAIN d.buffer |->
            IF FillPos(c) <= i /\ i < FillPos(c) + space THEN Junk ELSE d.buffer[i]]
  BY <1>1, <1>6 DEF Fields
<1>8. /\ s'.min_filepos = min /\ s'.max_filepos = c.max_filepos
      /\ s'.buffer_size = c.buffer_size /\ s'.offset = c.offset
      /\ d.min_filepos = min /\ d.max_filepos = c.max_filepos
      /\ d.buffer_size = c.buffer_size /\ d.offset = c.offset
  BY <1>3, <1>6, <1>7 DEF Fields
<1>9. s'.buffer \in [0..c.buffer_size - 1 -> Bytes]
  BY <1>6, <1>7, <1>8 DEF Ring, Bytes
<1>10. ASSUME NEW p \in min..c.max_filepos - 1
       PROVE  s'.buffer[Slot(s', p)] = p
  <2>1. Slot(s', p) = Slot(c, p) /\ Slot(d, p) = Slot(c, p)
    BY <1>8 DEF Slot
  <2>2. Slot(d, p) \in 0..d.buffer_size - 1 /\ d.buffer[Slot(d, p)] = p
    BY <1>6, <1>8, RingSlots DEF Ring
  <2>3. ~(FillPos(c) <= Slot(c, p) /\ Slot(c, p) < FillPos(c) + space)
    <3>0. Slot(c, p) \in Int
      BY <1>8, <2>1, <2>2, RingTypes
    <3>1. SUFFICES ASSUME NEW j \in Nat, j < space, Slot(c, p) = FillPos(c) + j PROVE FALSE
      <4>1. FillPos(c) <= Slot(c, p) /\ Slot(c, p) < FillPos(c) + space =>
              /\ Slot(c, p) - FillPos(c) \in Nat /\ Slot(c, p) - FillPos(c) < space
              /\ Slot(c, p) = FillPos(c) + (Slot(c, p) - FillPos(c))
        BY <1>2, <3>0
      <4>. QED BY <4>1
    <3>2. p \in c.min_filepos..c.max_filepos - 1
      BY <1>4, SizeType DEF Ring
    <3>3. FillPos(c) + j < c.buffer_size /\ c.max_filepos + j - p < c.buffer_size
      <4>1. p \in Int /\ min \in Int /\ p >= min
        BY <1>4, SizeType, RingTypes
      <4>. QED BY <1>2, <1>4, <3>1, <4>1, RingTypes
    <3>. QED BY <3>1, <3>2, <3>3, FillSlots, SizeType
  <2>. QED BY <1>6, <1>7, <2>1, <2>2, <2>3 DEF Ring
<1>11. Ring(s')
  BY <1>6, <1>8, <1>9, <1>10 DEF Ring
<1>12. \A f \in Fields \ {"buffer", "min_filepos"} : s'[f] = c[f]
  BY <1>3, <1>6, <1>7
<1>. QED BY <1>1, <1>4, <1>7, <1>8, <1>11, <1>12 DEF space

-----------------------------------------------------------------------------
(* The state of the cache under its operations.                            *)
LEMMA FieldNames == RingFields \subseteq Fields
  BY DEF RingFields, Fields

(* Changes of requests do not touch the ring.                              *)
LEMMA CacheSame ==
  ASSUME NEW c, NEW d, Cache(c), DOMAIN d = Fields, Params(d),
         \A f \in RingFields : d[f] = c[f]
  PROVE  Cache(d)
  BY RingSame DEF Cache

(* A cache that dropped its contents is a cache.                           *)
LEMMA CacheDropped ==
  ASSUME NEW c, Cache(c)
  PROVE  Cache(DropContents(c))
<1>. DEFINE d == DropContents(c)
<1>1. /\ DOMAIN d = Fields /\ d.eof = FALSE
      /\ \A f \in Fields \ {"offset", "min_filepos", "max_filepos", "eof"} :
           d[f] = c[f]
  BY DropContentsFields DEF Cache
<1>2. Ring(d)
  BY DropContentsRing DEF Cache, Params
<1>3. Params(d)
  BY <1>1 DEF Cache, Params, Fields
<1>. QED BY <1>1, <1>2, <1>3 DEF Cache

(* Moving the cache to the reader keeps it, or empties it there.           *)
LEMMA CachePositioned ==
  ASSUME NEW c, Cache(c)
  PROVE  LET d == Positioned(c)
         IN  /\ Cache(d)
             /\ \A f \in Fields \ {"offset", "min_filepos", "max_filepos", "eof"} :
                  d[f] = c[f]
             /\ \/ d = c
                \/ d.eof = FALSE /\ d.min_filepos = d.max_filepos
<1>1. CASE NeedsSeek(c, c.read_filepos)
  <2>1. Positioned(c) = DropContents(c)
    BY <1>1 DEF Positioned
  <2>2. SUFFICES ASSUME NEW d, d = DropContents(c)
                 PROVE  /\ Cache(d)
                        /\ \A f \in Fields \ {"offset", "min_filepos",
                                             "max_filepos", "eof"} : d[f] = c[f]
                        /\ d.eof = FALSE /\ d.min_filepos = d.max_filepos
    BY <2>1
  <2>3. Cache(d)
    BY <2>2, CacheDropped
  <2>4. /\ d.min_filepos = c.read_filepos /\ d.max_filepos = c.read_filepos
        /\ d.eof = FALSE
        /\ \A f \in Fields \ {"offset", "min_filepos", "max_filepos", "eof"} :
             d[f] = c[f]
    BY <2>2, DropContentsFields DEF Cache
  <2>. QED BY <2>3, <2>4
<1>2. CASE ~NeedsSeek(c, c.read_filepos)
  <2>1. Positioned(c) = c
    BY <1>2 DEF Positioned
  <2>. QED BY <2>1
<1>. QED BY <1>1, <1>2

(* Asking the stream for its size changes nothing else.                    *)
LEMMA CacheRefreshed ==
  ASSUME NEW c, Cache(c)
  PROVE  LET d == Refresh(c)
         IN  Cache(d) /\ \A f \in Fields \ {"stream_size"} : d[f] = c[f]
<1>. DEFINE d == Refresh(c)
<1>1. /\ DOMAIN d = Fields /\ \A f \in Fields \ {"stream_size"} : d[f] = c[f]
      /\ d.stream_size = FileSize \/ d.stream_size = c.eof_pos
  BY DEF Cache, Refresh, Fields
<1>2. d.stream_size \in -1..FileSize
  BY <1>1, SizeType DEF Cache, Params
<1>3. Params(d)
  BY <1>1, <1>2 DEF Cache, Params, Fields
<1>4. \A f \in RingFields : d[f] = c[f]
  BY <1>1 DEF RingFields, Fields
<1>. QED BY <1>1, <1>3, <1>4, CacheSame

(* Forgetting what is outside of the range changes nothing else.           *)
LEMMA CacheForgotten ==
  ASSUME NEW c, Cache(c)
  PROVE  LET d == Forget(c)
         IN  Cache(d) /\ \A f \in Fields \ {"buffer"} : d[f] = c[f]
<1>. DEFINE d == Forget(c)
<1>1. /\ DOMAIN d = Fields /\ Ring(d)
      /\ \A f \in Fields \ {"buffer"} : d[f] = c[f]
  BY ForgetFields DEF Cache
<1>2. Params(d)
  BY <1>1 DEF Cache, Params, Fields
<1>. QED BY <1>1, <1>2 DEF Cache

(* A resize whose assertion holds leaves a cache, which has lost nothing   *)
(* behind the reader unless its size changed.                              *)
LEMMA CacheResized ==
  ASSUME NEW c, Cache(c), NEW wanted \in Nat, Resize(c, wanted).asserted
  PROVE  LET d == Resize(c, wanted)
         IN  /\ Cache(d) /\ d.eof = FALSE
             /\ \A f \in Fields \ (RingFields \cup {"back_size", "idle", "eof",
                                                   "seek_limit", "asserted"}) :
                  d[f] = c[f]
             /\ \/ d.buffer_size # c.buffer_size \/ d.max_filepos =< d.min_filepos
                \/ d.min_filepos =< c.min_filepos
<1>. DEFINE d == Resize(c, wanted)
<1>1. /\ DOMAIN d = Fields /\ d.eof = FALSE
      /\ \A f \in Fields \ (RingFields \cup {"back_size", "idle", "eof",
                                            "seek_limit", "asserted"}) : d[f] = c[f]
  BY ResizeFields DEF Cache
<1>2. /\ c.read_filepos \in 0..FileSize /\ c.back_size \in Int
      /\ c.stream_size \in Int /\ c.seek_limit \in Nat
  BY SizeType DEF Cache, Params
<1>3. /\ Ring(d)
      /\ \/ d.buffer_size # c.buffer_size \/ d.max_filepos =< d.min_filepos
         \/ d.min_filepos =< c.min_filepos
  BY <1>2, ResizeRing DEF Cache
<1>4. /\ d.back_size \in Nat /\ d.buffer_size \in Nat
      /\ d.back_size < d.buffer_size
      /\ d.seek_limit = Smaller(c.seek_limit, d.buffer_size - FILL_LIMIT)
  BY <1>2, ResizeSizes DEF Cache
<1>5. d.seek_limit \in Nat
  BY <1>2, <1>4 DEF Smaller, FILL_LIMIT
<1>6. d.idle \in BOOLEAN /\ d.asserted \in BOOLEAN
  BY DEF Cache, Resize, Fields
<1>7. Params(d)
  BY <1>1, <1>4, <1>5, <1>6 DEF Cache, Params, Fields, RingFields
<1>. QED BY <1>1, <1>3, <1>7 DEF Cache

-----------------------------------------------------------------------------
(* The end of a turn of the loop, with the cache in state c, or after an   *)
(* assertion failed.                                                       *)
EndTurnPlaces == {"asleep", "loop", "aborted"}

(* The end of the thread's turn answers a ping, and an assertion that      *)
(* failed leaves the state as it was.                                      *)
LEMMA TurnEnds ==
  ASSUME NEW c, Cache(s), Places, DOMAIN c = Fields, c.asserted \in BOOLEAN,
         c.asserted => Cache(c), EndTurn(c)
  PROVE  /\ Cache(s')
         /\ \/ /\ \A f \in Fields \ {"buffer", "control"} : s'[f] = c[f]
               /\ s'.control = IF c.control = "ping" THEN "none" ELSE c.control
               /\ c.asserted
            \/ /\ \A f \in Fields \ {"asserted"} : s'[f] = s[f]
               /\ ~c.asserted
         /\ Places' /\ thread'.at \in EndTurnPlaces
         /\ reader'.call = reader.call
<1>. DEFINE d == IF c.control = "ping" THEN [c EXCEPT !.control = "none"] ELSE c
<1>1. /\ DOMAIN d = Fields /\ \A f \in Fields \ {"control"} : d[f] = c[f]
      /\ d.control = IF c.control = "ping" THEN "none" ELSE c.control
  BY DEF Fields
<1>2. d.asserted = c.asserted
  BY <1>1 DEF Fields
<1>3. /\ s' = IF d.asserted THEN Forget(d) ELSE [s EXCEPT !.asserted = FALSE]
      /\ thread' = [thread EXCEPT !.at =
           CASE ~d.asserted -> "aborted"
             [] d.asserted /\ d.idle /\ d.control = "none" -> "asleep"
             [] OTHER -> "loop"]
      /\ SignalReader
  <2>1. PICK e \in {d} :
          /\ s' = IF e.asserted THEN Forget(e) ELSE [s EXCEPT !.asserted = FALSE]
          /\ thread' = [thread EXCEPT !.at =
               CASE ~e.asserted -> "aborted"
                 [] e.asserted /\ e.idle /\ e.control = "none" -> "asleep"
                 [] OTHER -> "loop"]
          /\ SignalReader
    BY Zenon DEF EndTurn
  <2>2. e = d
    BY <2>1
  <2>. QED BY <2>1, <2>2, Zenon
<1>. HIDE DEF d
<1>4. /\ thread'.at \in EndTurnPlaces
      /\ thread' \in [at : {"lock", "loop", "reading", "asleep", "done", "aborted"},
                      pos : Nat, space : Nat]
  BY <1>3 DEF Places, ThreadPlaces, ReaderPlaces, EndTurnPlaces
<1>5. /\ reader' = reader \/ reader' = [reader EXCEPT !.at = "woken"]
      /\ reader'.call = reader.call /\ Places'
  <2>1. reader' = reader \/ (reader.at = "asleep" /\ reader' = [reader EXCEPT !.at = "woken"])
    BY <1>3 DEF SignalReader
  <2>. QED BY <1>4, <2>1 DEF Places, ThreadPlaces, ReaderPlaces
<1>6. CASE c.asserted
  <2>1. Params(d)
    BY <1>1, <1>6 DEF Cache, Params, Fields
  <2>2. Cache(d)
    <3>1. \A f \in RingFields : d[f] = c[f]
      BY <1>1 DEF RingFields, Fields
    <3>. QED BY <1>1, <1>6, <2>1, <3>1, CacheSame
  <2>3. s' = Forget(d)
    BY <1>2, <1>3, <1>6
  <2>4. Cache(s') /\ \A f \in Fields \ {"buffer"} : s'[f] = d[f]
    BY <2>2, <2>3, CacheForgotten
  <2>5. s'.control = d.control
    BY <2>4 DEF Fields
  <2>. QED BY <1>1, <1>4, <1>5, <1>6, <2>4, <2>5
<1>7. CASE ~c.asserted
  <2>1. s' = [s EXCEPT !.asserted = FALSE]
    BY <1>2, <1>3, <1>7
  <2>2. /\ DOMAIN s' = Fields /\ \A f \in Fields \ {"asserted"} : s'[f] = s[f]
        /\ s'.asserted = FALSE
    BY <2>1 DEF Cache, Fields
  <2>3. Params(s')
    BY <2>2 DEF Cache, Params, Fields
  <2>4. \A f \in RingFields : s'[f] = s[f]
    BY <2>2 DEF RingFields, Fields
  <2>5. Cache(s')
    BY <2>2, <2>3, <2>4, CacheSame
  <2>. QED BY <1>4, <1>5, <1>7, <2>2, <2>5
<1>. QED BY <1>6, <1>7

(* A stream that has failed stays one that has.                            *)
LEMMA FailedStays ==
  ASSUME World, UNCHANGED setup, faults' \in faults..MaxFaults
  PROVE  ReadFailed => ReadFailed'
  BY DEF World, ReadFailed

(* A turn keeps the invariant if what it did to the cache does.            *)
LEMMA TurnKeeps ==
  ASSUME NEW c, IInv, DOMAIN c = Fields, c.asserted \in BOOLEAN,
         c.asserted => /\ Cache(c) /\ Owned(c) /\ Roomy(c)
                       /\ AtEnd(c) \/ ReadFailed',
         EndTurn(c), UNCHANGED <<setup, pos, got, cancelled, calls>>,
         tell' \in 0..FileSize, faults' \in faults..MaxFaults
  PROVE  IInv' /\ Roomy(s')
<1>1. /\ Cache(s') /\ Places' /\ thread'.at \in EndTurnPlaces
      /\ reader'.call = reader.call
      /\ \/ /\ \A f \in Fields \ {"buffer", "control"} : s'[f] = c[f]
            /\ s'.control = IF c.control = "ping" THEN "none" ELSE c.control
            /\ c.asserted
         \/ /\ \A f \in Fields \ {"asserted"} : s'[f] = s[f]
            /\ ~c.asserted
  BY TurnEnds DEF IInv
<1>2. World' /\ (ReadFailed => ReadFailed')
  BY FailedStays, StreamCacheAssumption DEF IInv, World
<1>3. Reading'
  BY <1>1 DEF Reading, EndTurnPlaces
<1>4. Asked'
  BY <1>1 DEF IInv, Asked
<1>5. CASE c.asserted
  <2>1. /\ s'.eof = c.eof /\ s'.max_filepos = c.max_filepos
        /\ s'.read_filepos = c.read_filepos /\ s'.control_flush = c.control_flush
        /\ s'.min_filepos = c.min_filepos /\ s'.buffer_size = c.buffer_size
        /\ s'.back_size = c.back_size
        /\ s'.control = IF c.control = "ping" THEN "none" ELSE c.control
    BY <1>1, <1>5 DEF Fields
  <2>2. AtEnd(s)' /\ Roomy(s')
    BY <1>2, <1>5, <2>1 DEF AtEnd, Roomy
  <2>3. Owned(s)'
    BY <1>1, <1>5, <2>1 DEF Owned
  <2>. QED BY <1>1, <1>2, <1>3, <1>4, <2>2, <2>3 DEF IInv
<1>6. CASE ~c.asserted
  <2>1. /\ s'.eof = s.eof /\ s'.max_filepos = s.max_filepos
        /\ s'.read_filepos = s.read_filepos /\ s'.control_flush = s.control_flush
        /\ s'.min_filepos = s.min_filepos /\ s'.control = s.control
    BY <1>1, <1>6 DEF Fields
  <2>2. AtEnd(s)' /\ Roomy(s')
    BY <1>2, <2>1, RingTypes DEF AtEnd, Roomy, IInv, Cache
  <2>3. Owned(s)'
    BY <1>1, <2>1 DEF Owned, IInv
  <2>. QED BY <1>1, <1>2, <1>3, <1>4, <2>2, <2>3 DEF IInv
<1>. QED BY <1>5, <1>6

-----------------------------------------------------------------------------
(* The turns of the thread.                                                *)
Turned == IInv' /\ Roomy(s')

(* A seek of the stream moves it or fails, up to the bound on failures.    *)
LEMMA StreamSought ==
  ASSUME NEW c, NEW fails \in BOOLEAN, World, SeekStream(c, fails),
         c.max_filepos \in 0..FileSize
  PROVE  tell' \in 0..FileSize /\ faults' \in faults..MaxFaults
<1>1. tell' = tell \/ tell' = c.max_filepos
  BY DEF SeekStream
<1>2. faults' = faults \/ (faults' = faults + 1 /\ faults < MaxFaults)
  BY DEF SeekStream, MayFail
<1>3. faults' \in faults..MaxFaults
  BY <1>2, StreamCacheAssumption DEF World
<1>. QED BY <1>1, <1>3 DEF World

(* Refresh() has the fields of a cache.                                    *)
LEMMA RefreshFields ==
  ASSUME NEW c, DOMAIN c = Fields
  PROVE  LET d == Refresh(c)
         IN  DOMAIN d = Fields /\ \A f \in Fields \ {"stream_size"} : d[f] = c[f]
  BY DEF Refresh, Fields

(* What the reader sees of the ring, and what tells whose the request is.  *)
LEMMA SameView ==
  ASSUME NEW c, NEW d,
         \A f \in {"eof", "max_filepos", "min_filepos", "buffer_size", "back_size",
                   "read_filepos", "control_flush", "control"} : d[f] = c[f]
  PROVE  /\ AtEnd(c) => AtEnd(d)
         /\ Owned(c) => Owned(d)
         /\ Roomy(c) => Roomy(d)
<1>1. /\ d.eof = c.eof /\ d.max_filepos = c.max_filepos
      /\ d.min_filepos = c.min_filepos /\ d.buffer_size = c.buffer_size
      /\ d.back_size = c.back_size /\ d.read_filepos = c.read_filepos
      /\ d.control_flush = c.control_flush /\ d.control = c.control
  OBVIOUS
<1>. QED BY <1>1 DEF AtEnd, Owned, Roomy

(* Before anything was dropped nothing was given up.                       *)
LEMMA StartRoomy ==
  ASSUME Cache(s)
  PROVE  Roomy(s)
  BY RingTypes DEF Cache, Roomy

(* Moving the cache to the reader keeps the invariant.                     *)
LEMMA Sought ==
  ASSUME NEW c, NEW d, Cache(c), AtEnd(c), Owned(c), Roomy(c), d = Positioned(c)
  PROVE  Cache(d) /\ AtEnd(d) /\ Owned(d) /\ Roomy(d)
<1>1. /\ Cache(d)
      /\ \A f \in Fields \ {"offset", "min_filepos", "max_filepos", "eof"} :
           d[f] = c[f]
      /\ \/ d = c
         \/ d.eof = FALSE /\ d.min_filepos = d.max_filepos
  BY CachePositioned
<1>2. CASE d = c
  BY <1>1, <1>2
<1>3. CASE d.eof = FALSE /\ d.min_filepos = d.max_filepos
  <2>1. /\ d.control = c.control /\ d.control_flush = c.control_flush
        /\ d.read_filepos = c.read_filepos
    BY <1>1 DEF Fields
  <2>2. Owned(d)
    BY <2>1 DEF Owned
  <2>3. ~(d.max_filepos > d.min_filepos)
    BY <1>1, <1>3, RingTypes DEF Cache
  <2>. QED BY <1>1, <1>3, <2>2, <2>3 DEF AtEnd, Roomy
<1>. QED BY <1>1, <1>2, <1>3

(* The answer to a request.                                                *)
LEMMA Answered ==
  ASSUME NEW f, NEW e, Cache(f), DOMAIN e = Fields, e.control_res \in BOOLEAN,
         e.control_flush \in BOOLEAN, e.control = "none",
         \A n \in Fields \ {"control_res", "control_flush", "control"} : e[n] = f[n]
  PROVE  Cache(e) /\ e.asserted \in BOOLEAN
<1>1. /\ e.buffer_size = f.buffer_size /\ e.back_size = f.back_size
      /\ e.seek_limit = f.seek_limit /\ e.stream_size = f.stream_size
      /\ e.read_filepos = f.read_filepos /\ e.read_min = f.read_min
      /\ e.eof_pos = f.eof_pos /\ e.bytes_until_wakeup = f.bytes_until_wakeup
      /\ e.control_arg = f.control_arg /\ e.eof = f.eof /\ e.idle = f.idle
      /\ e.enable_readahead = f.enable_readahead /\ e.seekable = f.seekable
      /\ e.asserted = f.asserted
  BY DEF Fields
<1>2. Params(f)
  BY DEF Cache
<1>3. Params(e) /\ e.asserted \in BOOLEAN
  BY <1>1, <1>2 DEF Params
<1>4. \A n \in RingFields : e[n] = f[n]
  BY DEF RingFields, Fields
<1>. QED BY <1>3, <1>4, CacheSame

(* The thread starts to fill, finds the end, or has no space.              *)
LEMMA FillTurns ==
  ASSUME NEW c, IInv, thread.at # "reading", Cache(c), AtEnd(c), Owned(c), Roomy(c),
         Fill(c), UNCHANGED <<setup, pos, got, cancelled, calls>>
  PROVE  Turned
<1>1. PICK fails \in BOOLEAN, d \in {Positioned(c)} :
         /\ SeekStream(d, fails)
         /\ \/ /\ tell' = d.max_filepos /\ Space(d) >= FILL_LIMIT
               /\ BeginRead(d)
            \/ EndTurn([d EXCEPT !.idle = TRUE])
  BY DEF Fill
<1>2. Cache(d) /\ AtEnd(d) /\ Owned(d) /\ Roomy(d)
  BY Sought
<1>3. tell' \in 0..FileSize /\ faults' \in faults..MaxFaults
  BY <1>1, <1>2, StreamSought DEF IInv, Cache, Ring
<1>4. CASE tell' = d.max_filepos /\ Space(d) >= FILL_LIMIT /\ BeginRead(d)
  <2>1. /\ DOMAIN s' = Fields
        /\ \A f \in Fields \ {"buffer", "min_filepos"} : s'[f] = d[f]
        /\ Ring(s')
        /\ thread' = [at |-> "reading", pos |-> FillPos(d), space |-> FillSpace(d)]
        /\ reader' = reader
        /\ s'.max_filepos - s'.min_filepos + FillSpace(d) =< s'.buffer_size
        /\ s'.min_filepos = d.min_filepos
           \/ /\ d.read_filepos - s'.min_filepos >= d.back_size
              /\ s'.min_filepos >= d.min_filepos
    BY <1>2, <1>4, BeginReadRing DEF Cache, Params
  <2>2. Params(s')
    BY <1>2, <2>1 DEF Cache, Params, Fields
  <2>3. /\ s'.max_filepos = d.max_filepos /\ s'.buffer_size = d.buffer_size
        /\ s'.offset = d.offset /\ s'.eof = d.eof
        /\ s'.read_filepos = d.read_filepos /\ s'.back_size = d.back_size
        /\ s'.control = d.control /\ s'.control_flush = d.control_flush
    BY <2>1 DEF Fields
  <2>4. /\ FillPos(d) \in Nat /\ FillSpace(d) \in 1..ReadChunk
        /\ FillPos(d) + FillSpace(d) =< d.buffer_size
    <3>1. d.read_filepos \in Nat /\ d.back_size \in Nat /\ Ring(d)
      BY <1>2, SizeType DEF Cache, Params
    <3>. QED BY <1>4, <3>1, FillFacts, RingTypes
  <2>5. FillPos(s') = FillPos(d)
    BY <2>3 DEF FillPos
  <2>6. Places'
    BY <2>1, <2>4, SizeType DEF Places, ThreadPlaces, ReaderPlaces, IInv
  <2>7. Reading'
    BY <1>4, <2>1, <2>3, <2>4, <2>5 DEF Reading
  <2>8. World' /\ Asked' /\ AtEnd(s)'
    BY <1>2, <1>3, <2>1, <2>3, FailedStays, StreamCacheAssumption
    DEF World, Asked, AtEnd, IInv
  <2>9. Owned(s)'
    BY <1>2, <2>1, <2>3 DEF Owned
  <2>10. Roomy(s')
    BY <1>2, <2>1, <2>3 DEF Roomy
  <2>. QED BY <2>1, <2>2, <2>6, <2>7, <2>8, <2>9, <2>10 DEF Turned, IInv, Cache
<1>5. CASE EndTurn([d EXCEPT !.idle = TRUE])
  <2>1. SUFFICES ASSUME NEW e, e = [d EXCEPT !.idle = TRUE], EndTurn(e)
                 PROVE  Turned
    BY <1>5
  <2>2. DOMAIN e = Fields /\ e.idle = TRUE /\ \A f \in Fields \ {"idle"} : e[f] = d[f]
    BY <1>2, <2>1 DEF Cache, Fields
  <2>3. Params(e)
    BY <1>2, <2>2 DEF Cache, Params, Fields
  <2>4. Cache(e)
    <3>1. \A f \in RingFields : e[f] = d[f]
      BY <2>2 DEF RingFields, Fields
    <3>. QED BY <1>2, <2>2, <2>3, <3>1, CacheSame
  <2>5. AtEnd(e) /\ Owned(e) /\ Roomy(e)
    <3>1. \A f \in {"eof", "max_filepos", "min_filepos", "buffer_size", "back_size",
                    "read_filepos", "control_flush", "control"} : e[f] = d[f]
      BY <2>2 DEF Fields
    <3>. QED BY <1>2, <3>1, SameView
  <2>6. e.asserted \in BOOLEAN
    BY <2>3 DEF Params
  <2>. QED BY <1>3, <2>1, <2>2, <2>4, <2>5, <2>6, TurnKeeps DEF Turned
<1>. QED BY <1>1, <1>4, <1>5

(* The thread seeks for the reader that waits for it.                      *)
LEMMA SeekTurns ==
  ASSUME NEW c, IInv, s.control = "seek", Cache(c), AtEnd(c), Owned(c), Roomy(c),
         c.control = "seek",
         SeekControl(c), UNCHANGED <<setup, pos, got, cancelled, calls>>
  PROVE  Turned
<1>1. PICK fails \in BOOLEAN :
         /\ SeekStream(Positioned(c), fails)
         /\ EndTurn([Positioned(c) EXCEPT !.control_res = tell' = Positioned(c).max_filepos,
                                          !.control = "none"])
  BY DEF SeekControl
<1>2. SUFFICES ASSUME NEW d, d = Positioned(c), NEW res \in BOOLEAN,
                      NEW e, e = [d EXCEPT !.control_res = res, !.control = "none"],
                      SeekStream(d, fails), EndTurn(e)
               PROVE  Turned
  <2>1. (tell' = Positioned(c).max_filepos) \in BOOLEAN
    OBVIOUS
  <2>. QED BY <1>1, <2>1
<1>3. Cache(d) /\ AtEnd(d) /\ Owned(d) /\ Roomy(d) /\ d.control = "seek"
  <2>1. Cache(d) /\ AtEnd(d) /\ Owned(d) /\ Roomy(d)
    BY <1>2, Sought
  <2>2. d.control = c.control
    BY <1>2, CachePositioned DEF Fields
  <2>. QED BY <2>1, <2>2
<1>4. tell' \in 0..FileSize /\ faults' \in faults..MaxFaults
  BY <1>2, <1>3, StreamSought DEF IInv, Cache, Ring
<1>5. /\ DOMAIN e = Fields /\ e.control_res = res /\ e.control = "none"
      /\ \A f \in Fields \ {"control_res", "control"} : e[f] = d[f]
  BY <1>2, <1>3 DEF Cache, Fields
<1>6. /\ e.control_res \in BOOLEAN /\ e.control_flush \in BOOLEAN
      /\ \A n \in Fields \ {"control_res", "control_flush", "control"} : e[n] = d[n]
  BY <1>3, <1>5 DEF Cache, Params, Fields
<1>7. Cache(e) /\ e.asserted \in BOOLEAN
  BY <1>3, <1>5, <1>6, Answered
<1>8. AtEnd(e) /\ Owned(e) /\ Roomy(e)
  <2>1. /\ e.eof = d.eof /\ e.max_filepos = d.max_filepos
        /\ e.min_filepos = d.min_filepos /\ e.buffer_size = d.buffer_size
        /\ e.back_size = d.back_size /\ e.read_filepos = d.read_filepos
        /\ e.control_flush = d.control_flush /\ e.control = "none"
    BY <1>5 DEF Fields
  <2>. QED BY <1>3, <2>1 DEF AtEnd, Owned, Roomy
<1>. QED BY <1>2, <1>4, <1>5, <1>7, <1>8, TurnKeeps DEF Turned

(* The thread resizes the ring for the reader that waits for it.           *)
LEMMA ResizeTurns ==
  ASSUME NEW c, IInv, Cache(c), Owned(c), c.control = "resize",
         c.buffer_size = s.buffer_size, c.min_filepos = s.min_filepos,
         ExecuteResize(c), UNCHANGED <<setup, pos, got, cancelled, calls>>
  PROVE  Turned
<1>1. SUFFICES ASSUME NEW d, d = Resize(c, c.control_arg), NEW f, f = Refresh(d),
                      NEW e, e = [f EXCEPT !.control_res = TRUE, !.control_flush = FALSE,
                                           !.control = "none"],
                      EndTurn(e)
               PROVE  Turned
  BY DEF ExecuteResize
<1>2. DOMAIN d = Fields /\ d.asserted \in BOOLEAN
  BY <1>1, ResizeFields DEF Cache, Resize, Fields
<1>3. DOMAIN f = Fields /\ \A n \in Fields \ {"stream_size"} : f[n] = d[n]
  BY <1>1, <1>2, RefreshFields
<1>4. /\ DOMAIN e = Fields /\ e.control_res = TRUE /\ e.control_flush = FALSE
      /\ e.control = "none"
      /\ \A n \in Fields \ {"control_res", "control_flush", "control"} : e[n] = f[n]
  BY <1>1, <1>3 DEF Fields
<1>5. e.asserted = d.asserted
  BY <1>3, <1>4 DEF Fields
<1>6. ASSUME d.asserted
      PROVE  Cache(e) /\ AtEnd(e) /\ Owned(e) /\ Roomy(e)
  <2>1. /\ Cache(d) /\ d.eof = FALSE
        /\ \A n \in Fields \ (RingFields \cup {"back_size", "idle", "eof",
                                              "seek_limit", "asserted"}) : d[n] = c[n]
        /\ \/ d.buffer_size # c.buffer_size \/ d.max_filepos =< d.min_filepos
           \/ d.min_filepos =< c.min_filepos
    <3>1. c.control_arg \in Nat
      BY DEF Cache, Params
    <3>. QED BY <1>1, <1>6, <3>1, CacheResized
  <2>2. Cache(f)
    BY <1>1, <2>1, CacheRefreshed
  <2>4. Cache(e)
    BY <1>4, <2>2, Answered
  <2>5. /\ e.eof = FALSE /\ e.max_filepos = d.max_filepos
        /\ e.min_filepos = d.min_filepos /\ e.buffer_size = d.buffer_size
        /\ e.read_filepos = d.read_filepos
    BY <1>3, <1>4, <2>1 DEF Fields
  <2>6. d.read_filepos = c.read_filepos
    BY <2>1 DEF Fields, RingFields
  <2>7. Owned(e)
    BY <1>4, <2>5, <2>6 DEF Owned
  <2>8. Roomy(e)
    BY <2>1, <2>5, RingTypes DEF Roomy, Cache, IInv
  <2>. QED BY <2>4, <2>5, <2>7, <2>8 DEF AtEnd
<1>7. tell' \in 0..FileSize /\ faults' \in faults..MaxFaults
  BY DEF ExecuteResize, IInv, World
<1>. QED BY <1>1, <1>2, <1>4, <1>5, <1>6, <1>7, TurnKeeps DEF Turned

(* The thread moves the stream by a control, and drops the contents.       *)
LEMMA MoveTurns ==
  ASSUME NEW c, IInv, Cache(c), AtEnd(c), Owned(c), Roomy(c), c.control = "move",
         ExecuteMove(c), UNCHANGED <<setup, pos, got, cancelled, calls>>
  PROVE  Turned
<1>1. CASE \E p \in Targets :
         /\ tell' = p
         /\ EndTurn([Refresh(DropContents([c EXCEPT !.read_filepos = p, !.read_min = p]))
                      EXCEPT !.control_res = TRUE, !.control_flush = TRUE, !.control = "none"])
         /\ UNCHANGED faults
  <2>1. PICK p \in Targets :
           /\ tell' = p
           /\ EndTurn([Refresh(DropContents([c EXCEPT !.read_filepos = p, !.read_min = p]))
                        EXCEPT !.control_res = TRUE, !.control_flush = TRUE, !.control = "none"])
           /\ UNCHANGED faults
    BY <1>1
  <2>2. SUFFICES
          ASSUME NEW a, a = [c EXCEPT !.read_filepos = p, !.read_min = p],
                 NEW d, d = DropContents(a), NEW f, f = Refresh(d),
                 NEW e, e = [f EXCEPT !.control_res = TRUE, !.control_flush = TRUE,
                                      !.control = "none"],
                 EndTurn(e)
          PROVE  Turned
    BY <2>1
  <2>3. p \in 0..FileSize /\ p \in Nat
    BY StreamCacheAssumption
  <2>4. /\ DOMAIN a = Fields /\ a.read_filepos = p /\ a.read_min = p
        /\ \A n \in Fields \ {"read_filepos", "read_min"} : a[n] = c[n]
    BY <2>2 DEF Cache, Fields
  <2>5. Params(a)
    BY <2>3, <2>4 DEF Cache, Params, Fields
  <2>6. Cache(a)
    <3>1. \A n \in RingFields : a[n] = c[n]
      BY <2>4 DEF RingFields, Fields
    <3>. QED BY <2>4, <2>5, <3>1, CacheSame
  <2>7. /\ Cache(d) /\ d.min_filepos = p /\ d.max_filepos = p /\ d.eof = FALSE
        /\ \A n \in Fields \ {"offset", "min_filepos", "max_filepos", "eof"} : d[n] = a[n]
    BY <2>2, <2>4, <2>6, CacheDropped, DropContentsFields
  <2>8. Cache(f) /\ \A n \in Fields \ {"stream_size"} : f[n] = d[n]
    BY <2>2, <2>7, CacheRefreshed
  <2>9. /\ DOMAIN e = Fields /\ e.control_res = TRUE /\ e.control_flush = TRUE
        /\ e.control = "none"
        /\ \A n \in Fields \ {"control_res", "control_flush", "control"} : e[n] = f[n]
    BY <2>2, <2>8 DEF Cache, Fields
  <2>11. Cache(e) /\ e.asserted \in BOOLEAN
    BY <2>8, <2>9, Answered
  <2>12. e.eof = FALSE /\ e.max_filepos = p /\ e.min_filepos = p
    BY <2>7, <2>8, <2>9 DEF Fields
  <2>13. Owned(e)
    BY <2>9 DEF Owned
  <2>14. AtEnd(e) /\ Roomy(e)
    BY <2>3, <2>12 DEF AtEnd, Roomy
  <2>15. tell' \in 0..FileSize /\ faults' \in faults..MaxFaults
    BY <2>1, <2>3 DEF IInv, World
  <2>. QED BY <2>2, <2>9, <2>11, <2>13, <2>14, <2>15, TurnKeeps DEF Turned
<1>2. CASE /\ MayFail("moves")
           /\ faults' = faults + 1
           /\ EndTurn([Refresh(c) EXCEPT !.control_res = FALSE, !.control_flush = FALSE,
                                         !.control = "none"])
           /\ UNCHANGED tell
  <2>1. SUFFICES
          ASSUME NEW f, f = Refresh(c),
                 NEW e, e = [f EXCEPT !.control_res = FALSE, !.control_flush = FALSE,
                                      !.control = "none"],
                 EndTurn(e)
          PROVE  Turned
    BY <1>2
  <2>2. Cache(f) /\ \A n \in Fields \ {"stream_size"} : f[n] = c[n]
    BY <2>1, CacheRefreshed
  <2>3. /\ DOMAIN e = Fields /\ e.control_res = FALSE /\ e.control_flush = FALSE
        /\ e.control = "none"
        /\ \A n \in Fields \ {"control_res", "control_flush", "control"} : e[n] = f[n]
    BY <2>1, <2>2 DEF Cache, Fields
  <2>5. Cache(e) /\ e.asserted \in BOOLEAN
    BY <2>2, <2>3, Answered
  <2>6. /\ e.eof = c.eof /\ e.max_filepos = c.max_filepos
        /\ e.min_filepos = c.min_filepos /\ e.buffer_size = c.buffer_size
        /\ e.back_size = c.back_size /\ e.read_filepos = c.read_filepos
    BY <2>2, <2>3 DEF Fields
  <2>7. AtEnd(e) /\ Roomy(e)
    BY <2>6 DEF AtEnd, Roomy
  <2>8. Owned(e)
    BY <2>3, <2>6 DEF Owned
  <2>9. tell' \in 0..FileSize /\ faults' \in faults..MaxFaults
    BY <1>2, StreamCacheAssumption DEF IInv, World, MayFail
  <2>. QED BY <2>1, <2>3, <2>5, <2>7, <2>8, <2>9, TurnKeeps DEF Turned
<1>. QED BY <1>1, <1>2 DEF ExecuteMove

(* The cache stays as it is.                                               *)
LEMMA CacheStays ==
  ASSUME IInv, UNCHANGED <<s, tell, setup>>, Places', Reading',
         pos' \in 0..FileSize, cancelled' \in BOOLEAN, cancelled => cancelled',
         calls' \in 0..MaxCalls, faults' \in faults..MaxFaults,
         Owned(s)', Asked'
  PROVE  Turned
<1>1. Cache(s') /\ AtEnd(s)' /\ World'
  BY FailedStays, StreamCacheAssumption DEF IInv, AtEnd, World
<1>2. Roomy(s')
  BY StartRoomy DEF IInv
<1>. QED BY <1>1, <1>2 DEF Turned, IInv

(* The thread ends.                                                        *)
LEMMA QuitTurns ==
  ASSUME IInv, Quit, UNCHANGED <<setup, pos, got, cancelled, calls>>
  PROVE  Turned
<1>1. /\ thread' = [thread EXCEPT !.at = "done"]
      /\ reader' = reader \/ (reader.at = "asleep" /\ reader' = [reader EXCEPT !.at = "woken"])
      /\ UNCHANGED <<s, tell, faults>>
  BY DEF Quit, SignalReader
<1>2. /\ thread'.at = "done"
      /\ thread' \in [at : {"lock", "loop", "reading", "asleep", "done", "aborted"},
                      pos : Nat, space : Nat]
  BY <1>1 DEF IInv, Places, ThreadPlaces, ReaderPlaces
<1>3. Places' /\ reader'.call = reader.call
  BY <1>1, <1>2 DEF IInv, Places, ThreadPlaces, ReaderPlaces
<1>4. Reading'
  BY <1>2 DEF Reading
<1>5. Owned(s)' /\ Asked'
  BY <1>1, <1>3 DEF IInv, Owned, Asked
<1>6. /\ pos' \in 0..FileSize /\ cancelled' \in BOOLEAN
      /\ cancelled => cancelled'
      /\ calls' \in 0..MaxCalls /\ faults' \in faults..MaxFaults
      /\ UNCHANGED <<s, tell, setup>>
  BY <1>1 DEF IInv, World
<1>. QED BY <1>3, <1>4, <1>5, <1>6, CacheStays

(* A turn of the thread, whatever it has to do.                            *)
LEMMA ThreadTurns ==
  ASSUME IInv, CacheThread
  PROVE  Turned
<1>1. PICK c \in {s, Refresh(s)} :
         \/ s.control = "quit" /\ Quit
         \/ s.control = "resize" /\ ExecuteResize(c)
         \/ s.control = "move" /\ ExecuteMove(c)
         \/ s.control = "seek" /\ SeekControl(c)
         \/ Fill(c)
  BY DEF CacheThread
<1>2. UNCHANGED <<setup, pos, got, cancelled, calls>> /\ thread.at # "reading"
  BY DEF CacheThread
<1>3. /\ Cache(c) /\ c.control = s.control /\ c.buffer_size = s.buffer_size
      /\ c.min_filepos = s.min_filepos /\ AtEnd(c) /\ Owned(c) /\ Roomy(c)
  <2>1. Cache(s) /\ AtEnd(s) /\ Owned(s) /\ Roomy(s)
    BY StartRoomy DEF IInv
  <2>2. CASE c = s
    BY <2>1, <2>2
  <2>3. CASE c = Refresh(s)
    <3>1. Cache(c) /\ \A n \in Fields \ {"stream_size"} : c[n] = s[n]
      BY <2>1, <2>3, CacheRefreshed
    <3>2. \A n \in {"eof", "max_filepos", "min_filepos", "buffer_size", "back_size",
                    "read_filepos", "control_flush", "control"} : c[n] = s[n]
      BY <3>1 DEF Fields
    <3>. QED BY <2>1, <3>1, <3>2, SameView
  <2>. QED BY <2>2, <2>3
<1>4. CASE Fill(c)
  BY <1>2, <1>3, <1>4, FillTurns
<1>5. CASE s.control = "quit" /\ Quit
  BY <1>2, <1>5, QuitTurns
<1>6. CASE s.control = "resize" /\ ExecuteResize(c)
  BY <1>2, <1>3, <1>6, ResizeTurns
<1>7. CASE s.control = "move" /\ ExecuteMove(c)
  BY <1>2, <1>3, <1>7, MoveTurns
<1>8. CASE s.control = "seek" /\ SeekControl(c)
  BY <1>2, <1>3, <1>8, SeekTurns
<1>. QED BY <1>1, <1>4, <1>5, <1>6, <1>7, <1>8

-----------------------------------------------------------------------------
(* cache_fill() after stream_read_partial(): the bytes that were read      *)
(* continue the cached range, and offset moves on when the ring wraps.     *)
LEMMA FilledRing ==
  ASSUME NEW c, Cache(c), NEW at, at = FillPos(c), NEW len \in Nat,
         c.max_filepos + len =< FileSize, at + len =< c.buffer_size,
         c.max_filepos - c.min_filepos + len =< c.buffer_size,
         NEW d, d.min_filepos = c.min_filepos, d.max_filepos = c.max_filepos + len,
         d.buffer_size = c.buffer_size,
         d.offset = IF at + len = c.buffer_size THEN c.offset + c.buffer_size
                                                ELSE c.offset,
         d.buffer = [i \in DOMAIN c.buffer |->
           IF at <= i /\ i < at + len THEN c.max_filepos + i - at ELSE c.buffer[i]]
  PROVE  Ring(d)
<1>1. Ring(c) /\ c.read_filepos \in Nat /\ c.back_size \in Nat
  BY SizeType DEF Cache, Params
<1>2. /\ c.min_filepos \in Nat /\ c.max_filepos \in Nat /\ c.offset \in Nat
      /\ c.buffer_size \in Nat \ {0} /\ FileSize \in Nat
      /\ c.min_filepos =< FileSize
      /\ c.offset =< c.max_filepos
      /\ c.max_filepos < c.offset + c.buffer_size + c.buffer_size
  BY <1>1, SizeType DEF Ring
<1>3. /\ at \in 0..c.buffer_size - 1
      /\ at \in {c.max_filepos - c.offset, c.max_filepos - c.offset - c.buffer_size}
  BY <1>1, FillFacts
<1>4. /\ d.offset \in Nat /\ d.offset =< d.max_filepos
      /\ d.max_filepos < d.offset + d.buffer_size + d.buffer_size
      /\ d.max_filepos \in 0..FileSize /\ d.min_filepos \in 0..FileSize
      /\ d.max_filepos - d.min_filepos =< d.buffer_size
  <2>1. CASE at + len = c.buffer_size
    BY <1>2, <1>3, <2>1
  <2>2. CASE at + len # c.buffer_size
    <3>1. d.offset = c.offset /\ at + len < c.buffer_size
      BY <1>2, <1>3, <2>2
    <3>2. c.max_filepos + len < c.offset + c.buffer_size + c.buffer_size
      BY <1>2, <1>3, <3>1
    <3>. QED BY <1>2, <3>1, <3>2
  <2>. QED BY <2>1, <2>2
<1>5. ASSUME NEW p \in d.min_filepos..d.max_filepos - 1
      PROVE  Slot(d, p) = Slot(c, p)
  <2>1. /\ p \in Int /\ c.min_filepos =< p /\ p < c.max_filepos + len
    BY <1>2
  <2>2. CASE at + len # c.buffer_size
    BY <2>2 DEF Slot
  <2>3. CASE at + len = c.buffer_size
    <3>1. d.offset = c.offset + c.buffer_size
      BY <2>3
    <3>2. CASE at = c.max_filepos - c.offset
      BY <1>2, <1>3, <2>1, <2>3, <3>1, <3>2 DEF Slot
    <3>3. CASE at = c.max_filepos - c.offset - c.buffer_size
      BY <1>2, <1>3, <2>1, <2>3, <3>1, <3>3 DEF Slot
    <3>. QED BY <1>3, <3>2, <3>3
  <2>. QED BY <2>2, <2>3
<1>6. ASSUME NEW p \in d.min_filepos..d.max_filepos - 1, p < c.max_filepos
      PROVE  d.buffer[Slot(d, p)] = p
  <2>1. p \in c.min_filepos..c.max_filepos - 1 /\ p \in Int /\ p >= c.min_filepos
    BY <1>2, <1>6
  <2>2. Slot(c, p) \in 0..c.buffer_size - 1 /\ c.buffer[Slot(c, p)] = p
    BY <1>1, <2>1, RingSlots DEF Ring
  <2>3. ~(at <= Slot(c, p) /\ Slot(c, p) < at + len)
    <3>1. SUFFICES ASSUME NEW j \in Nat, j < len, Slot(c, p) = at + j
                   PROVE  FALSE
      <4>1. at <= Slot(c, p) /\ Slot(c, p) < at + len =>
              /\ Slot(c, p) - at \in Nat /\ Slot(c, p) - at < len
              /\ Slot(c, p) = at + (Slot(c, p) - at)
        BY <1>2, <1>3, <2>2
      <4>. QED BY <4>1
    <3>2. FillPos(c) + j < c.buffer_size /\ c.max_filepos + j - p < c.buffer_size
      BY <1>2, <1>3, <2>1, <3>1
    <3>. QED BY <1>1, <2>1, <3>1, <3>2, FillSlots
  <2>4. Slot(c, p) \in DOMAIN c.buffer
    BY <1>1, <2>2 DEF Ring
  <2>. QED BY <1>5, <2>2, <2>3, <2>4
<1>7. ASSUME NEW p \in d.min_filepos..d.max_filepos - 1, ~(p < c.max_filepos)
      PROVE  d.buffer[Slot(d, p)] = p
  <2>1. PICK j \in Nat : p = c.max_filepos + j /\ j < len
    <3>1. p - c.max_filepos \in Nat /\ p = c.max_filepos + (p - c.max_filepos)
          /\ p - c.max_filepos < len
      BY <1>2, <1>7
    <3>. QED BY <3>1
  <2>2. FillPos(c) + j < c.buffer_size
    BY <1>2, <1>3, <2>1
  <2>3. Slot(c, p) = at + j
    BY <1>1, <2>1, <2>2, FillSlots
  <2>4. at + j \in 0..c.buffer_size - 1 /\ at <= at + j /\ at + j < at + len
        /\ c.max_filepos + (at + j) - at = p
    BY <1>2, <1>3, <2>1, <2>2
  <2>5. at + j \in DOMAIN c.buffer
    BY <1>1, <2>4 DEF Ring
  <2>. QED BY <1>5, <2>3, <2>4, <2>5
<1>8. d.buffer \in [0..c.buffer_size - 1 -> Bytes]
  <2>1. c.buffer \in [0..c.buffer_size - 1 -> Bytes]
    BY <1>1 DEF Ring
  <2>2. ASSUME NEW i \in 0..c.buffer_size - 1, at <= i, i < at + len
        PROVE  c.max_filepos + i - at \in Bytes
    BY <1>2, <1>3, <2>2 DEF Bytes
  <2>. QED BY <2>1, <2>2
<1>. QED BY <1>2, <1>4, <1>6, <1>7, <1>8 DEF Ring

(* The thread publishes what it read without the mutex.                    *)
LEMMA FinishTurns ==
  ASSUME IInv, FinishRead
  PROVE  Turned
<1>1. /\ thread.at = "reading" /\ tell = s.max_filepos /\ thread.pos = FillPos(s)
      /\ s.max_filepos - s.min_filepos + thread.space =< s.buffer_size
      /\ thread.pos + thread.space =< s.buffer_size /\ thread.space \in Nat
      /\ UNCHANGED <<setup, pos, got, cancelled, calls>>
  BY SizeType DEF FinishRead, IInv, Reading
<1>2. PICK len \in 0..Smaller(thread.space, FileSize - tell) :
       /\ \/ (len > 0 \/ tell >= FileSize \/ cancelled) /\ UNCHANGED faults
          \/ len = 0 /\ MayFail("reads") /\ faults' = faults + 1
       /\ tell' = tell + len
       /\ EndTurn([s EXCEPT
            !.buffer = [i \in DOMAIN @ |->
               IF thread.pos <= i /\ i < thread.pos + len THEN tell + i - thread.pos ELSE @[i]],
            !.max_filepos = @ + len,
            !.offset = IF thread.pos + len = s.buffer_size THEN @ + s.buffer_size ELSE @,
            !.eof = len = 0,
            !.eof_pos = IF ~s.eof /\ len = 0 THEN tell ELSE @,
            !.idle = len = 0])
  BY DEF FinishRead
<1>3. SUFFICES
        ASSUME NEW e,
               e = [s EXCEPT
                 !.buffer = [i \in DOMAIN @ |->
                    IF thread.pos <= i /\ i < thread.pos + len
                    THEN tell + i - thread.pos ELSE @[i]],
                 !.max_filepos = @ + len,
                 !.offset = IF thread.pos + len = s.buffer_size
                            THEN @ + s.buffer_size ELSE @,
                 !.eof = len = 0,
                 !.eof_pos = IF ~s.eof /\ len = 0 THEN tell ELSE @,
                 !.idle = len = 0],
               EndTurn(e)
        PROVE  Turned
  BY <1>2
<1>4. /\ DOMAIN e = Fields /\ e.max_filepos = s.max_filepos + len
      /\ e.offset = IF thread.pos + len = s.buffer_size
                    THEN s.offset + s.buffer_size ELSE s.offset
      /\ e.eof = (len = 0) /\ e.idle = (len = 0)
      /\ e.eof_pos = IF ~s.eof /\ len = 0 THEN tell ELSE s.eof_pos
      /\ \A f \in Fields \ {"buffer", "max_filepos", "offset", "eof", "eof_pos", "idle"} :
           e[f] = s[f]
  BY <1>3 DEF Fields, IInv, Cache
<1>5. e.buffer = [i \in DOMAIN s.buffer |->
                    IF thread.pos <= i /\ i < thread.pos + len
                    THEN s.max_filepos + i - thread.pos ELSE s.buffer[i]]
  BY <1>1, <1>3 DEF Fields, IInv, Cache
<1>6. /\ e.min_filepos = s.min_filepos /\ e.buffer_size = s.buffer_size
      /\ e.back_size = s.back_size /\ e.read_filepos = s.read_filepos
      /\ e.control = s.control /\ e.control_flush = s.control_flush
  BY <1>4 DEF Fields
<1>7. /\ len \in Nat /\ len =< thread.space /\ tell + len =< FileSize
      /\ len = 0 => tell = FileSize \/ cancelled \/ ReadFailed'
      /\ tell \in Nat /\ tell =< FileSize
  <2>1. tell \in Nat /\ tell =< FileSize
    BY SizeType DEF IInv, World
  <2>2. MayFail("reads") /\ faults' = faults + 1 => ReadFailed'
    BY <1>1 DEF MayFail, ReadFailed, IInv, World
  <2>. QED BY <1>1, <1>2, <2>1, <2>2, SizeType DEF Smaller
<1>8. Ring(e)
  <2>1. /\ s.max_filepos + len =< FileSize /\ thread.pos + len =< s.buffer_size
        /\ s.max_filepos - s.min_filepos + len =< s.buffer_size
    <3>1. s.max_filepos \in Nat /\ s.min_filepos \in Nat /\ s.buffer_size \in Nat
      BY RingTypes DEF IInv, Cache
    <3>2. thread.pos \in Nat
      BY DEF IInv, Places, ThreadPlaces, ReaderPlaces
    <3>. QED BY <1>1, <1>7, <3>1, <3>2
  <2>. QED BY <1>1, <1>4, <1>5, <1>6, <1>7, <2>1, FilledRing DEF IInv
<1>9. Params(e)
  <2>1. e.eof_pos \in -1..FileSize
    BY <1>4, <1>7, SizeType DEF IInv, Cache, Params
  <2>2. e.eof \in BOOLEAN /\ e.idle \in BOOLEAN
    BY <1>4
  <2>. QED BY <1>4, <1>6, <2>1, <2>2 DEF Fields, IInv, Cache, Params
<1>10. AtEnd(e) \/ ReadFailed'
  <2>1. len = 0 => e.max_filepos = tell
    BY <1>1, <1>4, <1>7
  <2>2. e.eof => len = 0
    BY <1>4
  <2>. QED BY <1>7, <2>1, <2>2, Zenon DEF AtEnd
<1>11. Owned(e)
  BY <1>6 DEF Owned, IInv
<1>12. Roomy(e)
  BY <1>6, RingTypes DEF Roomy, IInv, Cache
<1>13. tell' \in 0..FileSize /\ faults' \in faults..MaxFaults
  <2>1. /\ tell' = tell + len
        /\ faults' = faults \/ (faults' = faults + 1 /\ faults < MaxFaults)
    BY <1>1, <1>2 DEF MayFail
  <2>. QED BY <1>7, <2>1, SizeType, StreamCacheAssumption DEF IInv, World
<1>14. e.asserted \in BOOLEAN
  BY <1>9 DEF Params
<1>15. Cache(e)
  BY <1>4, <1>8, <1>9 DEF Cache
<1>. QED BY <1>1, <1>3, <1>4, <1>10, <1>11, <1>12, <1>13, <1>14, <1>15, TurnKeeps DEF Turned

-----------------------------------------------------------------------------
(* The reader.  It changes no more than these:                             *)
Requests == {"read_filepos", "read_min", "bytes_until_wakeup", "control",
             "control_arg", "control_res", "eof", "idle", "enable_readahead"}

Signalled == thread' = thread \/ SignalThread

(* A step of the reader changes requests only.                             *)
LEMMA ReaderKeeps ==
  ASSUME IInv, DOMAIN s' = Fields, \A f \in Fields \ Requests : s'[f] = s[f],
         Params(s'), cancelled \/ (s'.eof => s.eof), Owned(s)', Asked',
         Signalled, ReaderPlaces', UNCHANGED <<tell, setup, cancelled, faults>>,
         calls' \in 0..MaxCalls, pos' \in 0..FileSize
  PROVE  Turned
<1>1. /\ s'.buffer = s.buffer /\ s'.buffer_size = s.buffer_size
      /\ s'.min_filepos = s.min_filepos /\ s'.max_filepos = s.max_filepos
      /\ s'.offset = s.offset
  BY DEF Fields, Requests
<1>2. Ring(s')
  <2>1. \A f \in RingFields : s'[f] = s[f]
    BY DEF RingFields, Fields, Requests
  <2>. QED BY <2>1, RingSame DEF IInv, Cache
<1>3. World' /\ Roomy(s')
  BY <1>1, RingTypes DEF IInv, World, Roomy, Cache
<1>4. AtEnd(s)'
  BY <1>1 DEF IInv, AtEnd, ReadFailed
<1>5. ThreadPlaces' /\ (thread'.at = "reading" => thread' = thread)
  BY DEF Signalled, SignalThread, IInv, Places, ThreadPlaces
<1>6. FillPos(s') = FillPos(s)
  BY <1>1 DEF FillPos
<1>7. Reading'
  BY <1>1, <1>5, <1>6 DEF Reading, IInv
<1>. QED BY <1>2, <1>3, <1>4, <1>5, <1>7 DEF Turned, IInv, Cache, Places

(* A step of the reader that changes no field of the cache.                *)
LEMMA ReaderStays ==
  ASSUME IInv, s' = s, Owned(s)', Asked',
         Signalled, ReaderPlaces', UNCHANGED <<tell, setup, cancelled, faults>>,
         calls' \in 0..MaxCalls, pos' \in 0..FileSize
  PROVE  Turned
<1>1. /\ DOMAIN s' = Fields /\ \A f \in Fields \ Requests : s'[f] = s[f]
      /\ Params(s')
  BY DEF IInv, Cache
<1>2. cancelled \/ (s'.eof => s.eof)
  OBVIOUS
<1>. QED BY <1>1, <1>2, ReaderKeeps

(* What a call of read_buffer() by the reader finds.                       *)
LEMMA ReadFacts ==
  ASSUME Cache(s), NEW len \in 1..MaxRead, NEW data,
         data = ReadBuffer(s, len, s.read_filepos)
  PROVE  /\ Len(data) \in Nat /\ Len(data) =< MaxRead
         /\ s.read_filepos + Len(data) =< FileSize
         /\ data = [i \in 1..Len(data) |-> s.read_filepos + i - 1]
         /\ Len(data) = 0 <=> data = <<>>
<1>1. len \in Nat /\ len =< MaxRead /\ MaxRead \in Nat
  BY StreamCacheAssumption
<1>2. s.read_filepos \in Int /\ s.read_filepos =< FileSize /\ FileSize \in Nat
  BY SizeType DEF Cache, Params
<1>3. /\ Len(data) = IF Cached(s, s.read_filepos)
                     THEN Smaller(len, s.max_filepos - s.read_filepos) ELSE 0
      /\ Len(data) \in Nat /\ Len(data) =< len
      /\ data = [i \in 1..Len(data) |-> s.read_filepos + i - 1]
  <2>1. Ring(s) /\ len \in Nat /\ s.read_filepos \in Int
    BY <1>1, <1>2 DEF Cache
  <2>. QED BY <2>1, ReadReturns
<1>4. s.read_filepos + Len(data) =< FileSize
  BY <1>2, <1>3, RingTypes DEF Cached, Smaller, Cache
<1>5. Len(data) =< MaxRead
  BY <1>1, <1>3
<1>6. Len(data) = 0 => data = <<>>
  <2>1. SUFFICES ASSUME NEW n, n = Len(data), n = 0 PROVE data = <<>>
    OBVIOUS
  <2>2. data = [i \in 1..0 |-> s.read_filepos + i - 1]
    BY <1>3, <2>1
  <2>3. [i \in 1..0 |-> s.read_filepos + i - 1] = <<>>
    OBVIOUS
  <2>. QED BY <2>2, <2>3
<1>7. data = <<>> => Len(data) = 0
  OBVIOUS
<1>. QED BY <1>3, <1>4, <1>5, <1>6, <1>7

(* A call that returns leaves no call.                                     *)
LEMMA Returns ==
  ASSUME Return
  PROVE  ReaderPlaces' /\ reader'.call = "none" /\ Asked'
<1>1. reader' = [call |-> "none", at |-> "run", len |-> 0]
  BY DEF Return
<1>2. 0 \in 0..MaxRead
  BY StreamCacheAssumption
<1>. QED BY <1>1, <1>2 DEF ReaderPlaces, Asked

(* A call that waits signals the thread.                                   *)
LEMMA Waits ==
  ASSUME NEW call \in {"open", "read", "seek", "control"}, NEW len \in 0..MaxRead,
         call = "read" => len >= 1, Wait(call, len)
  PROVE  ReaderPlaces' /\ reader'.call = call /\ Signalled
<1>1. reader' = [call |-> call, at |-> "asleep", len |-> len] /\ SignalThread
  BY DEF Wait
<1>. QED BY <1>1 DEF ReaderPlaces, Signalled

(* The counter of calls keeps to its bound.                                *)
LEMMA CallsGoOn ==
  ASSUME IInv, UNCHANGED calls \/ Count
  PROVE  calls' \in 0..MaxCalls
  BY StreamCacheAssumption DEF IInv, World, Count

(* A read returns with what it got and moves the reader by that much.      *)
LEMMA ReadReturning ==
  ASSUME IInv, NEW c, NEW data, DOMAIN c = Fields,
         \A f \in Fields \ Requests : c[f] = s[f], Params(c), c.eof = s.eof,
         c.control = s.control, Len(data) \in Nat, pos + Len(data) =< FileSize,
         ~cancelled => /\ c.read_filepos = pos + Len(data)
                       /\ reader.call \in {"none", "read"},
         ReturnRead(c, data), UNCHANGED <<tell, setup, cancelled, calls, faults>>
  PROVE  Turned
<1>1. /\ \/ s' = c
         \/ \E left \in Int : s' = [c EXCEPT !.bytes_until_wakeup = left]
      /\ Signalled /\ Return /\ pos' = pos + Len(data)
  <2>1. c.bytes_until_wakeup - Len(data) \in Int
    BY DEF Params
  <2>2. Larger(FILL_LIMIT, ReadChunk) \in Int
    BY SizeType DEF Larger, FILL_LIMIT
  <2>. QED BY <2>1, <2>2 DEF ReturnRead, Signalled
<1>2. /\ DOMAIN s' = Fields /\ s'.bytes_until_wakeup \in Int
      /\ \A f \in Fields \ {"bytes_until_wakeup"} : s'[f] = c[f]
  <2>1. CASE s' = c
    BY <2>1 DEF Params, Fields
  <2>2. CASE \E left \in Int : s' = [c EXCEPT !.bytes_until_wakeup = left]
    BY <2>2 DEF Fields
  <2>. QED BY <1>1, <2>1, <2>2
<1>3. Params(s')
  BY <1>2 DEF Params, Fields, IInv, Cache, Requests
<1>4. \A f \in Fields \ Requests : s'[f] = s[f]
  BY <1>2 DEF Requests
<1>5. s'.eof = s.eof /\ s'.control = s.control /\ s'.read_filepos = c.read_filepos
  BY <1>2 DEF Fields
<1>6. ReaderPlaces' /\ reader'.call = "none" /\ Asked'
  BY <1>1, Returns
<1>7. Owned(s)'
  BY <1>1, <1>5, <1>6 DEF Owned, IInv
<1>8. pos' \in 0..FileSize
  BY <1>1, SizeType DEF IInv, World
<1>9. calls' \in 0..MaxCalls
  BY CallsGoOn
<1>. QED BY <1>1, <1>2, <1>3, <1>4, <1>5, <1>6, <1>7, <1>8, <1>9, ReaderKeeps

(* One turn of the loop of cache_fill_buffer(): the data, or a wait.       *)
LEMMA TryReadKeeps ==
  ASSUME IInv, ~cancelled, reader.call \in {"none", "read"}, NEW len \in 1..MaxRead,
         TryRead(len), UNCHANGED <<tell, setup, cancelled, calls, faults>>
  PROVE  Turned
<1>1. PICK c \in {[s EXCEPT !.read_min = s.read_filepos + len + ReadMargin]},
           data \in {ReadBuffer(s, len, s.read_filepos)} :
        IF data # <<>> \/ (c.eof /\ c.read_filepos >= c.max_filepos)
        THEN ReturnRead([c EXCEPT !.read_filepos = @ + Len(data)], data)
        ELSE /\ s' = [c EXCEPT !.idle = FALSE]
             /\ Wait("read", len)
             /\ got' = <<FileSize>>
             /\ UNCHANGED pos
  BY DEF TryRead
<1>2. /\ Len(data) \in Nat /\ s.read_filepos + Len(data) =< FileSize
  BY <1>1, ReadFacts DEF IInv
<1>3. /\ s.read_filepos \in Nat /\ s.read_filepos = pos /\ pos \in Nat
      /\ len \in Nat /\ len \in 0..MaxRead /\ len >= 1
  <2>1. s.read_filepos = pos
    BY DEF IInv, Owned
  <2>2. pos \in Nat
    BY SizeType DEF IInv, World
  <2>3. len \in Nat /\ len \in 0..MaxRead /\ len >= 1
    BY StreamCacheAssumption
  <2>. QED BY <2>1, <2>2, <2>3
<1>4. s.read_filepos + len + ReadMargin \in Nat
  BY <1>3, StreamCacheAssumption
<1>5. /\ DOMAIN c = Fields /\ c.read_min \in Nat
      /\ \A f \in Fields \ {"read_min"} : c[f] = s[f]
  BY <1>1, <1>4 DEF IInv, Cache, Fields
<1>6. CASE ReturnRead([c EXCEPT !.read_filepos = @ + Len(data)], data)
  <2>1. SUFFICES ASSUME NEW e, e = [c EXCEPT !.read_filepos = @ + Len(data)],
                        ReturnRead(e, data)
                 PROVE  Turned
    BY <1>6
  <2>2. /\ DOMAIN e = Fields /\ e.read_filepos = c.read_filepos + Len(data)
        /\ \A f \in Fields \ {"read_filepos"} : e[f] = c[f]
    BY <1>5, <2>1 DEF Fields
  <2>3. c.read_filepos = s.read_filepos
    BY <1>5 DEF Fields
  <2>4. e.read_filepos = pos + Len(data) /\ e.read_filepos \in 0..FileSize
    BY <1>2, <1>3, <2>2, <2>3, SizeType
  <2>5. /\ \A f \in Fields \ {"read_filepos", "read_min"} : e[f] = s[f]
        /\ e.read_min \in Nat
    BY <1>5, <2>2 DEF Fields
  <2>6. Params(e)
    BY <2>4, <2>5 DEF Fields, IInv, Cache, Params
  <2>7. /\ \A f \in Fields \ Requests : e[f] = s[f]
        /\ e.eof = s.eof /\ e.control = s.control
    BY <2>5 DEF Fields, Requests
  <2>8. pos + Len(data) =< FileSize
    BY <1>2, <1>3
  <2>. QED BY <1>2, <2>1, <2>2, <2>4, <2>6, <2>7, <2>8, ReadReturning
<1>7. CASE /\ s' = [c EXCEPT !.idle = FALSE]
           /\ Wait("read", len)
           /\ got' = <<FileSize>>
           /\ UNCHANGED pos
  <2>1. /\ DOMAIN s' = Fields /\ s'.idle = FALSE
        /\ \A f \in Fields \ {"idle"} : s'[f] = c[f]
    BY <1>5, <1>7 DEF Fields
  <2>2. /\ \A f \in Fields \ {"idle", "read_min"} : s'[f] = s[f]
        /\ s'.read_min \in Nat
    BY <1>5, <2>1 DEF Fields
  <2>3. Params(s')
    BY <2>1, <2>2 DEF Fields, IInv, Cache, Params
  <2>4. /\ \A f \in Fields \ Requests : s'[f] = s[f]
        /\ s'.eof = s.eof /\ s'.control = s.control
        /\ s'.read_filepos = s.read_filepos
    BY <2>2 DEF Fields, Requests
  <2>5. ReaderPlaces' /\ reader'.call = "read" /\ Signalled
    BY <1>3, <1>7, Waits
  <2>6. Owned(s)' /\ Asked'
    BY <1>7, <2>4, <2>5 DEF Owned, Asked, IInv
  <2>7. pos' \in 0..FileSize
    BY <1>7 DEF IInv, World
  <2>8. calls' \in 0..MaxCalls
    BY CallsGoOn
  <2>. QED BY <2>1, <2>3, <2>4, <2>5, <2>6, <2>7, <2>8, ReaderKeeps
<1>. QED BY <1>1, <1>6, <1>7

(* A read starts.                                                          *)
LEMMA FillBufferKeeps ==
  ASSUME IInv, NEW len \in 1..MaxRead, FillBuffer(len)
  PROVE  Turned
  BY TryReadKeeps DEF FillBuffer, Idle

(* A read goes on after a wait.                                            *)
LEMMA ReadOnKeeps ==
  ASSUME IInv, ReadOn
  PROVE  Turned
<1>1. /\ reader.call = "read" /\ reader.len \in 1..MaxRead
      /\ UNCHANGED <<tell, setup, cancelled, calls, faults>>
  <2>1. reader.call = "read" /\ reader.len \in 0..MaxRead /\ reader.len >= 1
    BY DEF ReadOn, Woken, IInv, Places, ReaderPlaces
  <2>2. reader.len \in 1..MaxRead
    BY <2>1, StreamCacheAssumption
  <2>. QED BY <2>1, <2>2 DEF ReadOn
<1>2. CASE cancelled
  <2>1. ReturnRead(s, <<>>)
    BY <1>2 DEF ReadOn
  <2>2. /\ DOMAIN s = Fields /\ Params(s) /\ pos \in Nat /\ pos =< FileSize
        /\ Len(<<>>) = 0
    BY SizeType DEF IInv, Cache, World
  <2>3. pos + Len(<<>>) =< FileSize /\ Len(<<>>) \in Nat
    BY <2>2
  <2>. QED BY <1>1, <1>2, <2>1, <2>2, <2>3, ReadReturning
<1>3. CASE ~cancelled
  <2>1. TryRead(reader.len)
    BY <1>3 DEF ReadOn
  <2>. QED BY <1>1, <1>3, <2>1, TryReadKeeps
<1>. QED BY <1>2, <1>3

(* A seek inside of the cache, or one that asks the thread.                *)
LEMMA SeekKeeps ==
  ASSUME IInv, NEW p \in Targets, Seek(p)
  PROVE  Turned
<1>1. /\ Idle /\ Count /\ UNCHANGED <<tell, setup, cancelled, faults>>
      /\ reader.call = "none"
  BY DEF Seek, Idle
<1>2. p \in 0..FileSize /\ p \in Nat
  BY StreamCacheAssumption
<1>3. calls' \in 0..MaxCalls
  BY <1>1, CallsGoOn
<1>4. Signalled /\ ReaderPlaces' /\ Asked' /\ reader'.call \in {"none", "seek"}
  <2>1. CASE UNCHANGED <<thread, reader>>
    BY <1>1, <2>1 DEF Signalled, Asked, IInv, Places, ReaderPlaces
  <2>2. CASE Wait("seek", 0)
    <3>1. 0 \in 0..MaxRead
      BY StreamCacheAssumption
    <3>. QED BY <2>2, <3>1, Waits DEF Asked
  <2>3. CASE SignalThread /\ UNCHANGED reader
    BY <1>1, <2>3 DEF Signalled, Asked, IInv, Places, ReaderPlaces
  <2>. QED BY <2>1, <2>2, <2>3 DEF Seek
<1>5. CASE s' = [s EXCEPT !.bytes_until_wakeup = 0] /\ UNCHANGED <<pos, reader>>
  <2>1. /\ DOMAIN s' = Fields /\ s'.bytes_until_wakeup = 0
        /\ \A f \in Fields \ {"bytes_until_wakeup"} : s'[f] = s[f]
    BY <1>5 DEF IInv, Cache, Fields
  <2>2. /\ Params(s') /\ \A f \in Fields \ Requests : s'[f] = s[f]
        /\ s'.eof = s.eof
    BY <2>1 DEF Fields, IInv, Cache, Params, Requests
  <2>3. Owned(s)'
    BY <1>1, <1>5, <2>1 DEF Owned, Fields, IInv
  <2>4. pos' \in 0..FileSize
    BY <1>5 DEF IInv, World
  <2>. QED BY <1>1, <1>3, <1>4, <2>1, <2>2, <2>3, <2>4, ReaderKeeps
<1>6. ASSUME NEW c, c = [s EXCEPT !.read_filepos = p, !.read_min = p,
                                  !.bytes_until_wakeup = 0],
             pos' = p,
             \/ /\ s' = [c EXCEPT !.eof = FALSE, !.control = "seek", !.control_res = FALSE]
                /\ Wait("seek", 0)
             \/ s' = c /\ SignalThread /\ UNCHANGED reader
      PROVE  Turned
  <2>1. /\ DOMAIN c = Fields /\ c.read_filepos = p /\ c.read_min = p
        /\ c.bytes_until_wakeup = 0
        /\ \A f \in Fields \ {"read_filepos", "read_min", "bytes_until_wakeup"} :
             c[f] = s[f]
    BY <1>6 DEF IInv, Cache, Fields
  <2>2. Params(c)
    BY <1>2, <2>1 DEF Fields, IInv, Cache, Params
  <2>3. CASE s' = c /\ UNCHANGED reader
    <3>1. /\ \A f \in Fields \ Requests : s'[f] = s[f]
          /\ s'.eof = s.eof /\ s'.control = s.control /\ s'.read_filepos = pos'
      BY <1>6, <2>1, <2>3 DEF Fields, Requests
    <3>2. Owned(s)'
      BY <1>1, <2>3, <3>1 DEF Owned, IInv
    <3>. QED BY <1>1, <1>2, <1>3, <1>4, <1>6, <2>1, <2>2, <2>3, <3>1, <3>2, ReaderKeeps
  <2>4. CASE /\ s' = [c EXCEPT !.eof = FALSE, !.control = "seek", !.control_res = FALSE]
             /\ Wait("seek", 0)
    <3>1. /\ DOMAIN s' = Fields /\ s'.eof = FALSE /\ s'.control = "seek"
          /\ s'.control_res = FALSE
          /\ \A f \in Fields \ {"eof", "control", "control_res"} : s'[f] = c[f]
      BY <2>1, <2>4 DEF Fields
    <3>2. Params(s')
      BY <2>2, <3>1 DEF Fields, Params
    <3>3. /\ \A f \in Fields \ Requests : s'[f] = s[f]
          /\ s'.read_filepos = pos'
      BY <1>6, <2>1, <3>1 DEF Fields, Requests
    <3>4. reader'.call = "seek"
      BY <2>4 DEF Wait
    <3>5. Owned(s)'
      BY <3>1, <3>3, <3>4 DEF Owned
    <3>. QED BY <1>1, <1>2, <1>3, <1>4, <1>6, <3>1, <3>2, <3>3, <3>5, ReaderKeeps
  <2>. QED BY <1>6, <2>3, <2>4
<1>7. \/ s' = [s EXCEPT !.bytes_until_wakeup = 0] /\ UNCHANGED <<pos, reader>>
      \/ /\ pos' = p
         /\ \/ /\ s' = [[s EXCEPT !.read_filepos = p, !.read_min = p,
                                  !.bytes_until_wakeup = 0]
                        EXCEPT !.eof = FALSE, !.control = "seek", !.control_res = FALSE]
               /\ Wait("seek", 0)
            \/ /\ s' = [s EXCEPT !.read_filepos = p, !.read_min = p,
                                 !.bytes_until_wakeup = 0]
               /\ SignalThread /\ UNCHANGED reader
  BY DEF Seek
<1>. QED BY <1>5, <1>6, <1>7

(* A control starts.                                                       *)
LEMMA ControlKeeps ==
  ASSUME IInv, NEW cmd \in {"resize", "move"}, NEW arg \in Nat, Control(cmd, arg)
  PROVE  Turned
<1>1. /\ Count /\ UNCHANGED <<tell, setup, pos, cancelled, faults>>
      /\ reader.call = "none"
      /\ s' = [s EXCEPT !.control = cmd, !.control_arg = arg]
      /\ got' = <<FileSize>> /\ Wait("control", 0)
  BY DEF Control, Idle
<1>2. /\ DOMAIN s' = Fields /\ s'.control = cmd /\ s'.control_arg = arg
      /\ \A f \in Fields \ {"control", "control_arg"} : s'[f] = s[f]
  BY <1>1 DEF IInv, Cache, Fields
<1>3. /\ Params(s') /\ \A f \in Fields \ Requests : s'[f] = s[f]
      /\ s'.eof = s.eof /\ s'.read_filepos = s.read_filepos
  BY <1>2 DEF Fields, IInv, Cache, Params, Requests
<1>4. ReaderPlaces' /\ reader'.call = "control" /\ Signalled
  <2>1. 0 \in 0..MaxRead
    BY StreamCacheAssumption
  <2>. QED BY <1>1, <2>1, Waits
<1>5. Owned(s)' /\ Asked'
  BY <1>1, <1>2, <1>3, <1>4 DEF Owned, Asked, IInv
<1>6. calls' \in 0..MaxCalls /\ pos' \in 0..FileSize
  BY <1>1, CallsGoOn DEF IInv, World
<1>. QED BY <1>1, <1>2, <1>3, <1>4, <1>5, <1>6, ReaderKeeps

(* The reader turns readahead on or off.                                   *)
LEMMA SetReadaheadKeeps ==
  ASSUME IInv, SetReadahead
  PROVE  Turned
<1>1. PICK enable \in BOOLEAN : s' = [s EXCEPT !.enable_readahead = enable]
  BY DEF SetReadahead
<1>2. /\ Count /\ SignalThread
      /\ UNCHANGED <<tell, setup, reader, pos, got, cancelled, faults>>
  BY DEF SetReadahead
<1>3. /\ DOMAIN s' = Fields /\ s'.enable_readahead = enable
      /\ \A f \in Fields \ {"enable_readahead"} : s'[f] = s[f]
  BY <1>1 DEF IInv, Cache, Fields
<1>4. /\ Params(s') /\ \A f \in Fields \ Requests : s'[f] = s[f]
      /\ s'.eof = s.eof /\ s'.read_filepos = s.read_filepos
      /\ s'.control = s.control /\ s'.control_flush = s.control_flush
  BY <1>3 DEF Fields, IInv, Cache, Params, Requests
<1>5. Owned(s)' /\ Asked' /\ ReaderPlaces' /\ Signalled
  BY <1>2, <1>4 DEF Owned, Asked, IInv, Places, ReaderPlaces, Signalled
<1>6. calls' \in 0..MaxCalls /\ pos' \in 0..FileSize
  BY <1>2, CallsGoOn DEF IInv, World
<1>. QED BY <1>2, <1>3, <1>4, <1>5, <1>6, ReaderKeeps

(* A seek goes on after a wait.                                            *)
LEMMA SeekOnKeeps ==
  ASSUME IInv, SeekOn
  PROVE  Turned
<1>1. /\ reader.call = "seek"
      /\ UNCHANGED <<tell, setup, pos, got, cancelled, calls, faults>>
  BY DEF SeekOn, Woken
<1>2. calls' \in 0..MaxCalls /\ pos' \in 0..FileSize
  BY <1>1, CallsGoOn DEF IInv, World
<1>3. CASE /\ s.control = "none" \/ cancelled
           /\ s' = [s EXCEPT !.bytes_until_wakeup = 0]
           /\ Return /\ UNCHANGED thread
  <2>1. /\ DOMAIN s' = Fields /\ s'.bytes_until_wakeup = 0
        /\ \A f \in Fields \ {"bytes_until_wakeup"} : s'[f] = s[f]
    BY <1>3 DEF IInv, Cache, Fields
  <2>2. /\ Params(s') /\ \A f \in Fields \ Requests : s'[f] = s[f]
        /\ s'.eof = s.eof /\ s'.read_filepos = s.read_filepos
        /\ s'.control = s.control
    BY <2>1 DEF Fields, IInv, Cache, Params, Requests
  <2>3. ReaderPlaces' /\ reader'.call = "none" /\ Asked' /\ Signalled
    BY <1>3, Returns DEF Signalled
  <2>4. Owned(s)'
    BY <1>1, <1>3, <2>2, <2>3 DEF Owned, IInv
  <2>. QED BY <1>1, <1>2, <2>1, <2>2, <2>3, <2>4, ReaderKeeps
<1>4. CASE Wait("seek", 0) /\ UNCHANGED s
  <2>1. ReaderPlaces' /\ reader'.call = "seek" /\ Signalled
    <3>1. 0 \in 0..MaxRead
      BY StreamCacheAssumption
    <3>. QED BY <1>4, <3>1, Waits
  <2>2. Owned(s)' /\ Asked'
    BY <1>1, <1>4, <2>1 DEF Owned, Asked, IInv
  <2>. QED BY <1>1, <1>2, <1>4, <2>1, <2>2, ReaderStays
<1>. QED BY <1>3, <1>4 DEF SeekOn

(* A control goes on after a wait.                                         *)
LEMMA ControlOnKeeps ==
  ASSUME IInv, ControlOn
  PROVE  Turned
<1>1. /\ reader.call = "control"
      /\ UNCHANGED <<tell, setup, got, cancelled, calls, faults>>
  BY DEF ControlOn, Woken
<1>2. calls' \in 0..MaxCalls
  BY <1>1, CallsGoOn
<1>3. CASE /\ cancelled
           /\ s' = [s EXCEPT !.eof = TRUE]
           /\ Return
           /\ UNCHANGED <<pos, thread>>
  <2>1. /\ DOMAIN s' = Fields /\ s'.eof = TRUE
        /\ \A f \in Fields \ {"eof"} : s'[f] = s[f]
    BY <1>3 DEF IInv, Cache, Fields
  <2>2. Params(s') /\ \A f \in Fields \ Requests : s'[f] = s[f]
    BY <2>1 DEF Fields, IInv, Cache, Params, Requests
  <2>3. ReaderPlaces' /\ reader'.call = "none" /\ Asked' /\ Signalled
    BY <1>3, Returns DEF Signalled
  <2>4. Owned(s)' /\ pos' \in 0..FileSize
    BY <1>1, <1>3 DEF Owned, IInv, World
  <2>. QED BY <1>1, <1>2, <1>3, <2>1, <2>2, <2>3, <2>4, ReaderKeeps
<1>4. CASE /\ ~cancelled /\ s.control = "none"
           /\ pos' = IF s.control_flush THEN s.read_filepos ELSE pos
           /\ Return
           /\ UNCHANGED <<s, thread>>
  <2>1. ReaderPlaces' /\ reader'.call = "none" /\ Asked' /\ Signalled
    BY <1>4, Returns DEF Signalled
  <2>2. pos' = s.read_filepos /\ pos' \in 0..FileSize
    BY <1>1, <1>4 DEF Owned, IInv, Cache, Params
  <2>3. Owned(s)'
    BY <1>4, <2>1, <2>2 DEF Owned
  <2>. QED BY <1>1, <1>2, <1>4, <2>1, <2>2, <2>3, ReaderStays
<1>5. CASE Wait("control", 0) /\ UNCHANGED <<s, pos>>
  <2>1. ReaderPlaces' /\ reader'.call = "control" /\ Signalled
    <3>1. 0 \in 0..MaxRead
      BY StreamCacheAssumption
    <3>. QED BY <1>5, <3>1, Waits
  <2>2. Owned(s)' /\ Asked' /\ pos' \in 0..FileSize
    BY <1>1, <1>5, <2>1 DEF Owned, Asked, IInv, World
  <2>. QED BY <1>1, <1>2, <1>5, <2>1, <2>2, ReaderStays
<1>. QED BY <1>3, <1>4, <1>5 DEF ControlOn

(* The wait for the first bytes when the cache is opened.                  *)
LEMMA OpenKeeps ==
  ASSUME IInv, Open
  PROVE  Turned
<1>1. /\ reader.call = "open" /\ \/ cancelled /\ reader' = [reader EXCEPT !.call = "close"]
                                 \/ Return
                                 \/ reader' = [reader EXCEPT !.at = "ping"]
      /\ UNCHANGED <<s, tell, setup, thread, pos, got, cancelled, calls, faults>>
  BY DEF Open
<1>2. /\ ReaderPlaces' /\ Asked'
      /\ reader'.call \in {"none", "open"} \/ cancelled
  <2>1. CASE Return
    BY <2>1, Returns
  <2>2. CASE cancelled /\ reader' = [reader EXCEPT !.call = "close"]
    <3>1. reader.at \in {"run", "woken"}
      BY DEF Open
    <3>. QED BY <1>1, <2>2, <3>1 DEF IInv, Places, ReaderPlaces, Asked
  <2>3. CASE reader' = [reader EXCEPT !.at = "ping"]
    BY <1>1, <2>3 DEF IInv, Places, ReaderPlaces, Asked
  <2>. QED BY <1>1, <2>1, <2>2, <2>3
<1>3. Owned(s)'
  BY <1>1, <1>2 DEF Owned, IInv
<1>4. calls' \in 0..MaxCalls /\ pos' \in 0..FileSize /\ Signalled
  BY <1>1 DEF IInv, World, Signalled
<1>. QED BY <1>1, <1>2, <1>3, <1>4, ReaderStays

(* That wait asks the thread for a turn.                                   *)
LEMMA PingKeeps ==
  ASSUME IInv, Ping
  PROVE  Turned
<1>1. /\ s' = [s EXCEPT !.control = "ping"] /\ Wait("open", 0)
      /\ UNCHANGED <<tell, setup, pos, got, cancelled, calls, faults>>
      /\ reader.call = "open"
  BY DEF Ping, IInv, Places, ReaderPlaces
<1>2. /\ DOMAIN s' = Fields /\ s'.control = "ping"
      /\ \A f \in Fields \ {"control"} : s'[f] = s[f]
  BY <1>1 DEF IInv, Cache, Fields
<1>3. /\ Params(s') /\ \A f \in Fields \ Requests : s'[f] = s[f]
      /\ s'.eof = s.eof /\ s'.read_filepos = s.read_filepos
  BY <1>2 DEF Fields, IInv, Cache, Params, Requests
<1>4. ReaderPlaces' /\ reader'.call = "open" /\ Signalled
  <2>1. 0 \in 0..MaxRead
    BY StreamCacheAssumption
  <2>. QED BY <1>1, <2>1, Waits
<1>5. Owned(s)' /\ Asked'
  BY <1>1, <1>2, <1>3, <1>4 DEF Owned, Asked, IInv
<1>6. calls' \in 0..MaxCalls /\ pos' \in 0..FileSize
  BY <1>1 DEF IInv, World
<1>. QED BY <1>1, <1>2, <1>3, <1>4, <1>5, <1>6, ReaderKeeps

(* The reader asks the thread to end.                                      *)
LEMMA UninitKeeps ==
  ASSUME IInv, Uninit
  PROVE  Turned
<1>1. /\ s' = [s EXCEPT !.control = "quit"] /\ SignalThread
      /\ reader' = [call |-> "join", at |-> "run", len |-> 0]
      /\ UNCHANGED <<tell, setup, pos, got, cancelled, calls, faults>>
  BY DEF Uninit
<1>2. /\ DOMAIN s' = Fields /\ s'.control = "quit"
      /\ \A f \in Fields \ {"control"} : s'[f] = s[f]
  BY <1>1 DEF IInv, Cache, Fields
<1>3. /\ Params(s') /\ \A f \in Fields \ Requests : s'[f] = s[f]
      /\ s'.eof = s.eof
  BY <1>2 DEF Fields, IInv, Cache, Params, Requests
<1>4. ReaderPlaces' /\ Owned(s)' /\ Asked' /\ Signalled
  <2>1. 0 \in 0..MaxRead
    BY StreamCacheAssumption
  <2>. QED BY <1>1, <1>2, <2>1 DEF ReaderPlaces, Owned, Asked, Signalled
<1>5. calls' \in 0..MaxCalls /\ pos' \in 0..FileSize
  BY <1>1 DEF IInv, World
<1>. QED BY <1>1, <1>2, <1>3, <1>4, <1>5, ReaderKeeps

(* The rest: the thread is joined, waits end by time, a call is cancelled. *)
LEMMA OthersKeep ==
  ASSUME IInv, Join \/ ThreadTimeout \/ ReaderTimeout \/ Cancel
  PROVE  Turned
<1>1. UNCHANGED <<s, tell, setup, pos, got, calls, faults>>
  BY DEF Join, ThreadTimeout, ReaderTimeout, Cancel
<1>2. calls' \in 0..MaxCalls /\ pos' \in 0..FileSize /\ faults' \in faults..MaxFaults
  BY <1>1 DEF IInv, World
<1>3. CASE Join
  <2>1. /\ UNCHANGED <<thread, cancelled>>
        /\ reader.call = "join" /\ reader' = [reader EXCEPT !.call = "gone"]
    BY <1>3 DEF Join
  <2>2. ReaderPlaces' /\ Owned(s)' /\ Asked' /\ Signalled
    BY <1>1, <2>1 DEF IInv, Places, ReaderPlaces, Owned, Asked, Signalled
  <2>. QED BY <1>1, <1>2, <2>1, <2>2, ReaderStays
<1>4. CASE ThreadTimeout
  <2>1. /\ UNCHANGED <<reader, cancelled>>
        /\ thread.at = "asleep" /\ thread' = [thread EXCEPT !.at = "lock"]
    BY <1>4 DEF ThreadTimeout
  <2>2. ReaderPlaces' /\ Owned(s)' /\ Asked' /\ Signalled
    BY <1>1, <2>1 DEF IInv, Places, ReaderPlaces, Owned, Asked, Signalled, SignalThread
  <2>. QED BY <1>1, <1>2, <2>1, <2>2, ReaderStays
<1>5. CASE ReaderTimeout
  <2>1. /\ UNCHANGED <<thread, cancelled>>
        /\ reader.at = "asleep" /\ reader' = [reader EXCEPT !.at = "woken"]
    BY <1>5 DEF ReaderTimeout
  <2>2. ReaderPlaces' /\ Owned(s)' /\ Asked' /\ Signalled
    BY <1>1, <2>1 DEF IInv, Places, ReaderPlaces, Owned, Asked, Signalled
  <2>. QED BY <1>1, <1>2, <2>1, <2>2, ReaderStays
<1>6. CASE Cancel
  <2>1. UNCHANGED <<thread, reader>> /\ cancelled' = TRUE
    BY <1>6 DEF Cancel
  <2>2. Places' /\ Reading' /\ Owned(s)' /\ Asked'
    <3>1. Places' /\ Asked'
      BY <1>1, <2>1 DEF IInv, Places, ThreadPlaces, ReaderPlaces, Asked
    <3>2. Reading'
      BY <1>1, <2>1 DEF IInv, Reading, FillPos
    <3>. QED BY <2>1, <3>1, <3>2 DEF Owned
  <2>. QED BY <1>1, <1>2, <2>1, <2>2, CacheStays
<1>. QED BY <1>3, <1>4, <1>5, <1>6

(* A step that changes nothing.                                            *)
LEMMA Stutters ==
  ASSUME IInv, UNCHANGED vars
  PROVE  Turned
<1>1. /\ UNCHANGED <<s, tell, setup, thread, reader, pos, got, cancelled, calls, faults>>
      /\ Signalled
  BY DEF vars, Signalled
<1>2. /\ calls' \in 0..MaxCalls /\ pos' \in 0..FileSize
      /\ ReaderPlaces' /\ Owned(s)' /\ Asked'
  BY <1>1 DEF IInv, World, Places, ReaderPlaces, Owned, Asked
<1>. QED BY <1>1, <1>2, ReaderStays

(* Every step keeps the invariant.                                         *)
LEMMA EveryStep ==
  ASSUME IInv, [Next]_vars
  PROVE  Turned
<1>1. CASE Call
  <2>1. Sizes \subseteq Nat /\ 0 \in Nat
    BY StreamCacheAssumption
  <2>. QED BY <1>1, <2>1, FillBufferKeeps, SeekKeeps, ControlKeeps, SetReadaheadKeeps,
              UninitKeeps DEF Call
<1>2. CASE Open \/ Ping \/ ReadOn \/ SeekOn \/ ControlOn
  BY <1>2, OpenKeeps, PingKeeps, ReadOnKeeps, SeekOnKeeps, ControlOnKeeps
<1>3. CASE CacheThread \/ FinishRead
  BY <1>3, ThreadTurns, FinishTurns
<1>4. CASE Join \/ ThreadTimeout \/ ReaderTimeout \/ Cancel
  BY <1>4, OthersKeep
<1>5. CASE UNCHANGED vars
  BY <1>5, Stutters
<1>. QED BY <1>1, <1>2, <1>3, <1>4, <1>5 DEF Next

(* The invariant holds at first.                                           *)
LEMMA Starts ==
  ASSUME Init
  PROVE  IInv
<1>1. SUFFICES
        ASSUME NEW c,
               c = [buffer |-> <<>>, buffer_size |-> 0, back_size |-> BackBuffer,
                    seek_limit |-> setup.seek_limit, seekable |-> setup.seekable,
                    min_filepos |-> 0, max_filepos |-> 0, offset |-> 0,
                    eof |-> FALSE, eof_pos |-> -1, idle |-> FALSE,
                    stream_size |-> IF setup.sized THEN FileSize ELSE -1,
                    enable_readahead |-> TRUE, read_filepos |-> 0,
                    read_min |-> 0, bytes_until_wakeup |-> 0,
                    control |-> "none", control_arg |-> 0,
                    control_res |-> FALSE, control_flush |-> FALSE,
                    asserted |-> TRUE],
               s = Resize(c, CacheSize)
        PROVE  IInv
  BY DEF Init
<1>2. /\ setup \in Setups /\ setup.seek_limit \in Nat /\ setup.seekable \in BOOLEAN
  BY SetupsAssumption DEF Init
<1>3. DOMAIN c = Fields /\ s = Resize(c, CacheSize)
  BY <1>1 DEF Fields
<1>4. /\ c.back_size = BackBuffer /\ c.seek_limit = setup.seek_limit
      /\ c.seekable = setup.seekable
      /\ c.min_filepos = 0 /\ c.max_filepos = 0 /\ c.read_filepos = 0
      /\ c.eof_pos = -1 /\ c.read_min = 0 /\ c.bytes_until_wakeup = 0
      /\ c.stream_size = IF setup.sized THEN FileSize ELSE -1
      /\ c.enable_readahead = TRUE /\ c.control = "none" /\ c.control_arg = 0
      /\ c.control_res = FALSE /\ c.control_flush = FALSE
  BY <1>1
<1>5. /\ c.stream_size \in -1..FileSize /\ c.stream_size \in Int
      /\ BackBuffer \in Nat /\ CacheSize \in Int
  BY <1>4, StreamCacheAssumption
<1>6. /\ DOMAIN s = Fields /\ s.eof = FALSE
      /\ \A f \in Fields \ (RingFields \cup {"back_size", "idle", "eof",
                                            "seek_limit", "asserted"}) : s[f] = c[f]
  BY <1>3, ResizeFields
<1>7. /\ s.back_size \in Nat /\ s.buffer_size \in Nat
      /\ s.back_size < s.buffer_size
      /\ s.seek_limit = Smaller(c.seek_limit, s.buffer_size - FILL_LIMIT)
  BY <1>3, <1>4, <1>5, ResizeSizes
<1>8. s.seek_limit \in Nat
  BY <1>2, <1>4, <1>7 DEF Smaller, FILL_LIMIT
<1>9. s.idle \in BOOLEAN /\ s.asserted \in BOOLEAN
  BY <1>3 DEF Resize, Fields
<1>10. Params(s)
  <2>1. /\ s.stream_size = c.stream_size /\ s.read_filepos = 0 /\ s.read_min = 0
        /\ s.eof_pos = -1 /\ s.bytes_until_wakeup = 0 /\ s.control_arg = 0
        /\ s.control = "none" /\ s.enable_readahead = TRUE
        /\ s.seekable = setup.seekable /\ s.control_res = FALSE
        /\ s.control_flush = FALSE
    BY <1>4, <1>6 DEF Fields, RingFields
  <2>2. 0 \in 0..FileSize /\ -1 \in -1..FileSize
    BY SizeType
  <2>3. s.stream_size \in -1..FileSize
    BY <1>5, <2>1
  <2>4. /\ s.eof_pos \in -1..FileSize /\ s.read_filepos \in 0..FileSize
        /\ s.read_min \in Nat /\ s.bytes_until_wakeup \in Int /\ s.control_arg \in Nat
        /\ s.control \in {"none", "ping", "seek", "resize", "move", "quit"}
    BY <2>1, <2>2
  <2>5. /\ s.eof \in BOOLEAN /\ s.idle \in BOOLEAN /\ s.enable_readahead \in BOOLEAN
        /\ s.seekable \in BOOLEAN /\ s.control_res \in BOOLEAN
        /\ s.control_flush \in BOOLEAN /\ s.asserted \in BOOLEAN
    BY <1>2, <1>6, <1>9, <2>1
  <2>. QED BY <1>7, <1>8, <2>3, <2>4, <2>5 DEF Params
<1>11. Ring(s)
  <2>1. SUFFICES
         ASSUME NEW size, size = s.buffer_size,
                NEW ahead, ahead = ReadBuffer(c, size, 0), NEW m, m = Len(ahead),
                NEW copy, copy = Clamp(0 - 0, 0, size - m), NEW from, from = 0 - copy,
                NEW behind, behind = ReadBuffer(c, copy, from)
         PROVE  Ring(s)
    OBVIOUS
  <2>2. /\ s.offset = 0 /\ s.max_filepos = 0 + m
        /\ s.min_filepos = 0 - Len(behind)
    BY <1>3, <1>4, <2>1 DEF Resize, Fields
  <2>3. s.buffer = [i \in 0..size - 1 |->
                    IF i < m THEN ahead[i + 1]
                    ELSE IF i >= size - copy /\ i < size - copy + Len(behind)
                         THEN behind[i - (size - copy) + 1] ELSE Junk]
    BY <1>3, <1>4, <2>1, ResizeBuffer
  <2>4. \A n : \A p \in Int : ReadBuffer(c, n, p) = <<>>
    BY <1>4 DEF ReadBuffer, Cached
  <2>5. m = 0 /\ Len(<<>>) = 0
    BY <2>1, <2>4
  <2>6. size \in Nat \ {0}
    BY <1>7, <2>1
  <2>7. copy = 0
    BY <2>1, <2>5, <2>6 DEF Clamp, Larger, Smaller
  <2>8. Len(behind) = 0
    BY <2>1, <2>4, <2>5, <2>7
  <2>9. s.buffer = [i \in 0..size - 1 |-> Junk]
    BY <2>3, <2>5, <2>6, <2>7, <2>8
  <2>10. s.max_filepos = 0 /\ s.min_filepos = 0 /\ s.offset = 0
    BY <2>2, <2>5, <2>8
  <2>11. s.buffer \in [0..s.buffer_size - 1 -> Bytes] /\ s.buffer_size \in Nat \ {0}
    BY <2>1, <2>6, <2>9 DEF Bytes
  <2>. QED BY <2>10, <2>11, SizeType DEF Ring
<1>12. Places /\ Reading /\ Asked
  <2>1. 0 \in 0..MaxRead
    BY StreamCacheAssumption
  <2>. QED BY <2>1 DEF Init, Places, ThreadPlaces, ReaderPlaces, Reading, Asked
<1>13. World
  <2>1. 0 \in 0..FileSize /\ 0 \in 0..MaxCalls /\ 0 \in 0..MaxFaults
    BY StreamCacheAssumption
  <2>. QED BY <1>2, <2>1 DEF Init, World
<1>14. AtEnd(s) /\ Owned(s)
  <2>1. s.read_filepos = 0 /\ s.control = "none"
    BY <1>4, <1>6 DEF Fields, RingFields
  <2>2. pos = 0 /\ reader.call \in {"none", "open"}
    BY DEF Init
  <2>. QED BY <1>6, <2>1, <2>2 DEF AtEnd, Owned
<1>. QED BY <1>6, <1>10, <1>11, <1>12, <1>13, <1>14 DEF IInv, Cache

-----------------------------------------------------------------------------
(* The inductive invariant holds of every behaviour.                       *)
THEOREM Invariance == Spec => []IInv
<1>1. Init => IInv
  BY Starts
<1>2. IInv /\ [Next]_vars => IInv'
  BY EveryStep DEF Turned
<1>. QED BY <1>1, <1>2, PTL DEF Spec

(* The two invariants that the run checks follow from it.                  *)
LEMMA Implied ==
  ASSUME IInv
  PROVE  BufferHolds /\ ControlOwned
<1>1. TypeOK
  <2>1. /\ s.buffer_size \in Nat /\ s.back_size \in 0..s.buffer_size - 1
        /\ s.seek_limit \in Nat /\ s.stream_size \in -1..FileSize
        /\ s.eof_pos \in -1..FileSize /\ s.offset \in Nat /\ s.read_min \in Nat
        /\ s.control \in {"none", "ping", "seek", "resize", "move", "quit"}
    BY RingTypes DEF IInv, Cache, Params
  <2>2. s.buffer \in [0..s.buffer_size - 1 -> 0..FileSize - 1 \cup {Junk}]
    BY DEF IInv, Cache, Ring, Bytes
  <2>3. {s.min_filepos, s.max_filepos, s.read_filepos, tell, pos} \subseteq 0..FileSize
    BY DEF IInv, Cache, Ring, Params, World
  <2>4. {s.eof, s.idle, s.enable_readahead, s.seekable, s.control_res,
         s.control_flush, s.asserted, cancelled} \subseteq BOOLEAN
    BY DEF IInv, Cache, Params, World
  <2>5. /\ thread.at \in {"lock", "loop", "reading", "asleep", "done", "aborted"}
        /\ reader.call \in {"none", "open", "read", "seek", "control", "close",
                            "join", "gone"}
        /\ reader.at \in {"run", "ping", "asleep", "woken"}
        /\ thread.pos \in Nat
    BY DEF IInv, Places, ThreadPlaces, ReaderPlaces
  <2>6. ASSUME thread.at = "reading"
        PROVE  /\ thread.space \in 1..ReadChunk
               /\ thread.pos \in 0..s.buffer_size - thread.space
    BY <2>1, <2>5, <2>6, SizeType DEF IInv, Reading
  <2>7. setup \in Setups /\ calls \in 0..MaxCalls /\ faults \in 0..MaxFaults
    BY DEF IInv, World
  <2>. QED BY <2>1, <2>2, <2>3, <2>4, <2>5, <2>6, <2>7 DEF TypeOK
<1>2. BufferHolds
  BY <1>1 DEF BufferHolds, IInv, Cache, Ring
<1>3. ControlOwned
  BY DEF ControlOwned, IInv, Owned, Places, ReaderPlaces
<1>. QED BY <1>2, <1>3

-----------------------------------------------------------------------------
(* The steps of the file that the reader sees.                             *)
LEMMA ReadsFile ==
  ASSUME IInv, ~cancelled, reader.call \in {"none", "read"}, NEW len \in 1..MaxRead,
         TryRead(len), UNCHANGED <<cancelled, setup, faults>>
  PROVE  B!Next
<1>1. PICK c \in {[s EXCEPT !.read_min = s.read_filepos + len + ReadMargin]},
           data \in {ReadBuffer(s, len, s.read_filepos)} :
        IF data # <<>> \/ (c.eof /\ c.read_filepos >= c.max_filepos)
        THEN ReturnRead([c EXCEPT !.read_filepos = @ + Len(data)], data)
        ELSE /\ s' = [c EXCEPT !.idle = FALSE]
             /\ Wait("read", len)
             /\ got' = <<FileSize>>
             /\ UNCHANGED pos
  BY DEF TryRead
<1>2. /\ Len(data) \in Nat /\ Len(data) =< MaxRead
      /\ s.read_filepos + Len(data) =< FileSize
      /\ data = [i \in 1..Len(data) |-> s.read_filepos + i - 1]
      /\ Len(data) = 0 <=> data = <<>>
  BY <1>1, ReadFacts DEF IInv
<1>8. UNCHANGED ReadFailed
  BY DEF ReadFailed
<1>3. s.read_filepos = pos /\ pos \in Nat /\ pos =< FileSize
  BY SizeType DEF IInv, Owned, World
<1>4. /\ c.eof = s.eof /\ c.read_filepos = s.read_filepos
      /\ c.max_filepos = s.max_filepos
  BY <1>1 DEF IInv, Cache, Fields
<1>5. CASE data # <<>>
  <2>1. pos' = pos + Len(data) /\ got' = data
    BY <1>1, <1>5 DEF ReturnRead
  <2>2. Len(data) \in 1..MaxRead
    BY <1>2, <1>5, StreamCacheAssumption
  <2>3. pos + Len(data) =< FileSize
    BY <1>2, <1>3
  <2>4. got' = [i \in 1..Len(data) |-> pos + i - 1]
    BY <1>2, <1>3, <2>1
  <2>5. B!Read
    BY <1>8, <2>1, <2>2, <2>3, <2>4 DEF B!Read
  <2>. QED BY <2>5 DEF B!Next
<1>6. CASE data = <<>> /\ c.eof /\ c.read_filepos >= c.max_filepos
  <2>1. pos' = pos + Len(data) /\ got' = data
    BY <1>1, <1>6 DEF ReturnRead
  <2>2. pos' = pos
    BY <1>2, <1>3, <1>6, <2>1
  <2>3. ReadFailed \/ s.max_filepos = FileSize
    BY <1>4, <1>6 DEF IInv, AtEnd
  <2>4. ReadFailed \/ pos >= FileSize
    BY <1>3, <1>4, <1>6, <2>3
  <2>5. B!ReadEnd
    BY <1>6, <1>8, <2>1, <2>2, <2>4 DEF B!ReadEnd
  <2>. QED BY <2>5 DEF B!Next
<1>7. CASE data = <<>> /\ ~(c.eof /\ c.read_filepos >= c.max_filepos)
  <2>1. got' = <<FileSize>> /\ pos' = pos
    BY <1>1, <1>7
  <2>2. B!Begin
    BY <1>8, <2>1 DEF B!Begin
  <2>. QED BY <2>2 DEF B!Next
<1>. QED BY <1>5, <1>6, <1>7

(* A read that returns gives the file's bytes at the position, or its end. *)
LEMMA ReadOnReads ==
  ASSUME IInv, ReadOn
  PROVE  B!Next
<1>1. reader.call = "read" /\ UNCHANGED <<cancelled, setup, faults, ReadFailed>>
  BY DEF ReadOn, Woken, ReadFailed
<1>2. CASE cancelled
  <2>1. pos' = pos + Len(<<>>) /\ got' = <<>>
    BY <1>2 DEF ReadOn, ReturnRead
  <2>2. pos' = pos
    BY <2>1, SizeType DEF IInv, World
  <2>3. B!ReadEnd
    BY <1>1, <1>2, <2>1, <2>2 DEF B!ReadEnd
  <2>. QED BY <2>3 DEF B!Next
<1>3. CASE ~cancelled
  <2>1. reader.len \in 0..MaxRead /\ reader.len >= 1
    BY <1>1 DEF IInv, Places, ReaderPlaces
  <2>2. reader.len \in 1..MaxRead
    BY <2>1, StreamCacheAssumption
  <2>. QED BY <1>1, <1>3, <2>2, ReadsFile DEF ReadOn
<1>. QED BY <1>2, <1>3

(* A seek moves the position.                                              *)
LEMMA SeekMoves ==
  ASSUME NEW p \in Targets, Seek(p)
  PROVE  B!Next \/ UNCHANGED B!vars
<1>1. UNCHANGED <<cancelled, ReadFailed>>
  BY DEF Seek, ReadFailed
<1>2. CASE UNCHANGED <<pos, got>>
  BY <1>1, <1>2 DEF B!vars
<1>3. CASE pos' = p /\ got' = <<FileSize>>
  <2>1. B!Move
    BY <1>1, <1>3, StreamCacheAssumption DEF B!Move
  <2>. QED BY <2>1 DEF B!Next
<1>. QED BY <1>2, <1>3 DEF Seek

(* A control moves the position when the stream did.                       *)
LEMMA ControlMoves ==
  ASSUME IInv, ControlOn
  PROVE  B!Next \/ UNCHANGED B!vars
<1>1. UNCHANGED <<cancelled, got, ReadFailed>> /\ got = <<FileSize>>
  BY DEF ControlOn, Woken, IInv, Asked, ReadFailed
<1>2. CASE pos' = pos
  BY <1>1, <1>2 DEF B!vars
<1>3. CASE pos' = s.read_filepos
  <2>1. B!Move
    BY <1>1, <1>3 DEF B!Move, IInv, Cache, Params
  <2>. QED BY <2>1 DEF B!Next
<1>. QED BY <1>2, <1>3 DEF ControlOn

(* The thread counts failures of the stream.                               *)
LEMMA FailuresCount ==
  ASSUME World, CacheThread \/ FinishRead
  PROVE  ReadFailed => ReadFailed'
<1>1. UNCHANGED setup
  BY DEF CacheThread, FinishRead
<1>2. faults' = faults \/ faults' = faults + 1
  BY DEF CacheThread, Quit, ExecuteResize, ExecuteMove, SeekControl, Fill, SeekStream,
     FinishRead
<1>. QED BY <1>1, <1>2 DEF World, ReadFailed

(* What the thread does, the reader does not see, but for a failure.       *)
LEMMA ThreadHidden ==
  ASSUME World, CacheThread \/ FinishRead
  PROVE  B!Next \/ UNCHANGED B!vars
<1>1. UNCHANGED <<pos, got, cancelled>>
  BY DEF CacheThread, FinishRead
<1>2. CASE ReadFailed'
  <2>1. B!Fail
    BY <1>1, <1>2 DEF B!Fail
  <2>. QED BY <2>1 DEF B!Next
<1>3. CASE ~ReadFailed'
  <2>1. ReadFailed' = ReadFailed
    BY <1>3, FailuresCount DEF ReadFailed
  <2>. QED BY <1>1, <2>1 DEF B!vars
<1>. QED BY <1>2, <1>3

(* Every step is a step of ByteStream or leaves its variables alone.       *)
LEMMA StepReads ==
  ASSUME IInv, [Next]_vars
  PROVE  B!Next \/ UNCHANGED B!vars
<1>1. CASE \E len \in 1..MaxRead : FillBuffer(len)
  <2>1. PICK len \in 1..MaxRead : FillBuffer(len)
    BY <1>1
  <2>. QED BY <2>1, ReadsFile DEF FillBuffer, Idle
<1>2. CASE \E p \in Targets : Seek(p)
  BY <1>2, SeekMoves
<1>3. CASE (\E size \in Sizes : Control("resize", size)) \/ Control("move", 0)
  <2>1. B!Begin
    BY <1>3 DEF Control, B!Begin, ReadFailed
  <2>. QED BY <2>1 DEF B!Next
<1>4. CASE ReadOn
  BY <1>4, ReadOnReads
<1>5. CASE ControlOn
  BY <1>5, ControlMoves
<1>6. CASE Cancel
  <2>1. B!Cancel
    BY <1>6 DEF Cancel, B!Cancel, ReadFailed
  <2>. QED BY <2>1 DEF B!Next
<1>7. CASE CacheThread \/ FinishRead
  BY <1>7, ThreadHidden DEF IInv
<1>8. CASE \/ SetReadahead \/ Uninit \/ Open \/ Ping \/ SeekOn \/ Join
           \/ ThreadTimeout \/ ReaderTimeout \/ UNCHANGED vars
  <2>1. UNCHANGED <<pos, got, cancelled, setup, faults>>
    BY <1>8 DEF SetReadahead, Uninit, Open, Ping, SeekOn, Join,
       ThreadTimeout, ReaderTimeout, vars
  <2>. QED BY <2>1 DEF B!vars, ReadFailed
<1>. QED BY <1>1, <1>2, <1>3, <1>4, <1>5, <1>6, <1>7, <1>8 DEF Next, Call

(* The cached range is in the ring, whoever runs when, also while the      *)
(* thread reads into it without the mutex; and every variable has its type. *)
THEOREM RangeBuffered == Spec => []BufferHolds
  BY Invariance, Implied, PTL

(* A request to the thread belongs to a reader that waits for it, and a    *)
(* reader that does not wait is where the thread believes it to be.        *)
THEOREM RequestsOwned == Spec => []ControlOwned
  BY Invariance, Implied, PTL

(* The thread gives up bytes behind the reader for new ones only when      *)
(* back_size of them stay, or when nothing stays cached.                   *)
THEOREM BackbufferStays == Spec => BackbufferKept
<1>1. IInv /\ [Next]_vars =>
        [(/\ s'.min_filepos > s.min_filepos
          /\ s'.max_filepos > s'.min_filepos
          /\ s'.buffer_size = s.buffer_size)
         => s'.read_filepos - s'.min_filepos >= s'.back_size]_vars
  BY EveryStep DEF Turned, Roomy
<1>. QED BY <1>1, Invariance, PTL DEF Spec, BackbufferKept

(* stream/cache.c implements ByteStream: what is read through the cache is *)
(* the file, and an end is reported only where the file ends.              *)
THEOREM ReadsTheFile == Spec => IsByteStream
<1>1. Init => B!Init
  BY DEF Init, B!Init, ReadFailed
<1>2. IInv /\ [Next]_vars => [B!Next]_(B!vars)
  BY StepReads
<1>. QED BY <1>1, <1>2, Invariance, PTL DEF Spec, IsByteStream, B!Spec
=============================================================================
