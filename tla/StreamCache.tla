---------------------------- MODULE StreamCache -----------------------------
(***************************************************************************)
(* stream/cache.c: a thread that reads a stream ahead of its reader into a *)
(* ring buffer that keeps bytes on both sides of the reader's position.    *)
(* The thread drops the mutex while it reads from the stream, into memory  *)
(* that the reader must not look at meanwhile.  Seeks outside the cached   *)
(* range and controls are carried out by the thread while the reader       *)
(* waits; both wait on one condition variable, and as there are only the   *)
(* two of them a signal is for the other one.                              *)
(*                                                                         *)
(* Bytes are counted in units of FILL_LIMIT.  A byte of the file is its    *)
(* own offset.  What a slot outside of the cached range holds is Junk: it  *)
(* is what the reader must never get to see.                               *)
(***************************************************************************)
EXTENDS Integers, Sequences

CONSTANTS FileSize,    \* bytes of the stream
          CacheSize,   \* opts->size
          BackBuffer,  \* opts->back_buffer
          Initial,     \* opts->initial
          ReadChunk,   \* stream->read_chunk
          ReadMargin,  \* what read_min adds to the end of a read
          MaxRead,     \* bound: bytes that are asked for at once
          Targets,     \* bound: where seeks and controls move to
          Setups,      \* the streams, and what is done with them: see below
          Sizes,       \* bound: sizes that SET_CACHE_SIZE asks for
          MaxCalls,    \* bound: seeks and controls
          MaxFaults    \* bound: times the stream fails to read, seek or control

ASSUME StreamCacheAssumption ==
  /\ FileSize \in Nat /\ CacheSize \in Nat \ {0} /\ BackBuffer \in Nat
  /\ Initial \in Nat
  /\ ReadChunk \in Nat \ {0} /\ ReadMargin \in Nat /\ MaxRead \in Nat \ {0}
  /\ Targets \subseteq 0..FileSize /\ Sizes \subseteq Nat \ {0} /\ MaxCalls \in Nat /\ MaxFaults \in Nat

(* A stream: whether it can seek and knows its size, opts->seek_min, what  *)
(* of it may fail (reads; seeks and controls), and which controls its      *)
(* reader uses.                                                            *)
ASSUME SetupsAssumption ==
  Setups \subseteq [seekable : BOOLEAN, sized : BOOLEAN, seek_limit : Nat,
                   fails : SUBSET {"reads", "moves"},
                   control : {"resize", "move", "readahead"}]

VARIABLES
  s,         \* struct priv
  tell,      \* the position of the underlying stream
  setup,     \* the stream that is cached
  thread,    \* where the cache thread is, and what it reads
  reader,    \* what the reader calls, and where it is in the call
  pos,       \* cache->pos
  got,       \* what the last read returned
  cancelled, \* mp_cancel_test()
  calls,     \* seeks and controls so far
  faults     \* failures of the underlying stream so far

vars == <<s, tell, setup, thread, reader, pos, got, cancelled, calls, faults>>

FILL_LIMIT == 1
Junk == -1

Smaller(x, y) == IF x < y THEN x ELSE y
Larger(x, y)  == IF x < y THEN y ELSE x
Clamp(x, lo, hi) == Larger(lo, Smaller(x, hi))

-----------------------------------------------------------------------------
(* The buffer.  Of a state c of the cache:                                 *)

Mut_DropContents(c) ==                      \* eof stays set
  [c EXCEPT !.offset = c.read_filepos, !.min_filepos = c.read_filepos,
            !.max_filepos = c.read_filepos]
DropContents(c) ==
  [c EXCEPT !.offset = c.read_filepos, !.min_filepos = c.read_filepos,
            !.max_filepos = c.read_filepos, !.eof = FALSE]

Slot(c, p) ==
  LET bpos == p - c.offset
  IN  IF bpos < 0 THEN bpos + c.buffer_size
      ELSE IF bpos >= c.buffer_size THEN bpos - c.buffer_size ELSE bpos

Cached(c, p) == c.min_filepos <= p /\ p < c.max_filepos

ReadBuffer(c, size, p) ==
  IF Cached(c, p)
  THEN [i \in 1..Smaller(size, c.max_filepos - p) |-> c.buffer[Slot(c, p + i - 1)]]
  ELSE <<>>

NeedsSeek(c, p) == p < c.min_filepos \/ p > c.max_filepos + c.seek_limit

Forget(c) == [c EXCEPT !.buffer = [i \in DOMAIN @ |->
  IF \E p \in c.min_filepos..c.max_filepos - 1 : Slot(c, p) = i THEN @[i] ELSE Junk]]

(* The size argument is the readahead half of the buffer only.  The bytes  *)
(* from read_filepos on go to the start of the new buffer, those before it *)
(* to its end.                                                             *)
Resize(c, wanted) ==
  LET fits   == c.stream_size > 0 /\ wanted >= c.stream_size
      back   == Larger(IF fits THEN 0 ELSE c.back_size, 2 * FILL_LIMIT)
      size   == Larger(IF fits THEN c.stream_size ELSE wanted, 2 * FILL_LIMIT) + back
      ahead  == ReadBuffer(c, size, c.read_filepos)
      copy   == Clamp(c.read_filepos - c.min_filepos, 0, size - Len(ahead))
      behind == ReadBuffer(c, copy, c.read_filepos - copy)
  IN  [c EXCEPT
        !.buffer = [i \in 0..size - 1 |->
                      IF i < Len(ahead) THEN ahead[i + 1]
                      ELSE IF i >= size - copy /\ i < size - copy + Len(behind)
                           THEN behind[i - (size - copy) + 1] ELSE Junk],
        !.buffer_size = size,
        !.back_size = back,
        !.min_filepos = c.read_filepos - Len(behind),
        !.max_filepos = c.read_filepos + Len(ahead),
        !.offset = c.read_filepos,
        !.idle = FALSE,
        !.eof = FALSE,
        !.seek_limit = Smaller(@, size - FILL_LIMIT),
        !.asserted = Len(behind) = copy]

(* update_cached_controls(), of which only the size of the stream matters. *)
Refresh(c) == [c EXCEPT !.stream_size = IF setup.sized THEN FileSize ELSE c.eof_pos]

Init ==
  /\ setup \in Setups
  /\ s = Resize([buffer |-> <<>>, buffer_size |-> 0, back_size |-> BackBuffer,
                 seek_limit |-> setup.seek_limit, seekable |-> setup.seekable,
                 min_filepos |-> 0, max_filepos |-> 0, offset |-> 0,
                 eof |-> FALSE, eof_pos |-> -1, idle |-> FALSE,
                 stream_size |-> IF setup.sized THEN FileSize ELSE -1,
                 enable_readahead |-> TRUE, read_filepos |-> 0,
                 read_min |-> 0, bytes_until_wakeup |-> 0,
                 control |-> "none", control_arg |-> 0,
                 control_res |-> FALSE, control_flush |-> FALSE,
                 asserted |-> TRUE], CacheSize)
  /\ tell = 0
  /\ thread = [at |-> "lock", pos |-> 0, space |-> 0]
  /\ reader = [call |-> IF Initial < 1 THEN "none" ELSE "open",
               at |-> "run", len |-> 0]
  /\ pos = 0 /\ got = <<>> /\ cancelled = FALSE
  /\ calls = 0 /\ faults = 0

(* pthread_cond_signal(), by the reader and by the thread.                 *)
SignalThread == thread' = IF thread.at = "asleep" THEN [thread EXCEPT !.at = "lock"]
                                                  ELSE thread
SignalReader == reader' = IF reader.at = "asleep" THEN [reader EXCEPT !.at = "woken"]
                                                  ELSE reader

-----------------------------------------------------------------------------
(* The cache thread.  It holds the mutex at "loop", and takes it again at  *)
(* "lock" after a sleep and at the end of "reading".                       *)

(* cache_update_stream_position() drops what is cached if the reader is    *)
(* elsewhere, and moves the stream to where the cached range ends.         *)
Positioned(c) == IF NeedsSeek(c, c.read_filepos) THEN DropContents(c) ELSE c

MayFail(what) == what \in setup.fails /\ faults < MaxFaults

SeekStream(c, fails) ==
  LET moves == tell # c.max_filepos /\ c.seekable
  IN  /\ fails => moves /\ MayFail("moves")
      /\ faults' = IF fails THEN faults + 1 ELSE faults
      /\ tell' = IF moves /\ ~fails THEN c.max_filepos ELSE tell

(* What cache_fill() may write: from which slot on, and how much.          *)
FillPos(c) == LET at == c.max_filepos - c.offset
              IN  IF at >= c.buffer_size THEN at - c.buffer_size ELSE at
Ahead(c) == Larger(c.max_filepos - c.read_filepos, 0)
Mut_Back(c) == 0                            \* reserves no space
Back(c)  == LET back == Clamp(c.read_filepos - c.min_filepos, 0, c.back_size)
            IN  IF c.stream_size > c.buffer_size THEN Larger(back, c.back_size) ELSE back
Space(c) == c.buffer_size - (Ahead(c) + Back(c))
FillSpace(c) == Smaller(Smaller(Space(c), c.buffer_size - FillPos(c)), ReadChunk)

(* The end of a turn of the loop.                                          *)
Mut_EndTurn(c) ==                           \* does not signal
  \E d \in {IF c.control = "ping" THEN [c EXCEPT !.control = "none"] ELSE c} :
      /\ s' = IF d.asserted THEN Forget(d) ELSE [s EXCEPT !.asserted = FALSE]
      /\ thread' = [thread EXCEPT !.at =
           CASE ~d.asserted -> "aborted"
             [] d.asserted /\ d.idle /\ d.control = "none" -> "asleep"
             [] OTHER -> "loop"]
      /\ UNCHANGED reader
EndTurn(c) ==
  \E d \in {IF c.control = "ping" THEN [c EXCEPT !.control = "none"] ELSE c} :
      /\ s' = IF d.asserted THEN Forget(d) ELSE [s EXCEPT !.asserted = FALSE]
      /\ thread' = [thread EXCEPT !.at =
           CASE ~d.asserted -> "aborted"
             [] d.asserted /\ d.idle /\ d.control = "none" -> "asleep"
             [] OTHER -> "loop"]
      /\ SignalReader

Mut_BeginRead(c) ==                         \* min_filepos stays where it is
  /\ s' = [c EXCEPT !.buffer = [i \in DOMAIN @ |->
              IF FillPos(c) <= i /\ i < FillPos(c) + FillSpace(c) THEN Junk ELSE @[i]]]
  /\ thread' = [at |-> "reading", pos |-> FillPos(c), space |-> FillSpace(c)]
  /\ UNCHANGED reader
BeginRead(c) ==
  LET space == FillSpace(c)
      back2 == c.buffer_size - (space + Ahead(c))
  IN  \E d \in {Forget([c EXCEPT !.min_filepos = Larger(@, c.read_filepos - back2)])} :
      /\ s' = [d EXCEPT !.buffer = [i \in DOMAIN @ |->
                   IF FillPos(c) <= i /\ i < FillPos(c) + space THEN Junk ELSE @[i]]]
      /\ thread' = [at |-> "reading", pos |-> FillPos(c), space |-> space]
      /\ UNCHANGED reader

Fill(c) ==
  \E fails \in BOOLEAN, d \in {Positioned(c)} :
    LET wanted == d.enable_readahead \/ d.read_min > d.max_filepos
    IN  /\ SeekStream(d, fails)
        /\ IF tell' = d.max_filepos /\ wanted /\ ~cancelled /\ Space(d) >= FILL_LIMIT
           THEN BeginRead(d)
           ELSE EndTurn([d EXCEPT !.idle = TRUE])

(* stream_read_partial() returns: it read at least one byte, unless the    *)
(* stream is at its end or failed, or playback is cancelled.               *)
FinishRead ==
  /\ thread.at = "reading"
  /\ \E len \in 0..Smaller(thread.space, FileSize - tell) :
       /\ \/ (len > 0 \/ tell >= FileSize \/ cancelled) /\ UNCHANGED faults
          \/ len = 0 /\ MayFail("reads") /\ faults' = faults + 1
       /\ tell' = tell + len
       /\ EndTurn([s EXCEPT
            !.buffer = [i \in DOMAIN @ |->
               IF thread.pos <= i /\ i < thread.pos + len THEN tell + i - thread.pos ELSE @[i]],
            !.max_filepos = @ + len,
            !.offset = IF thread.pos + len = s.buffer_size THEN @ + s.buffer_size ELSE @,
            !.eof = len = 0,
            !.eof_pos = IF ~s.eof /\ len = 0 THEN tell ELSE @,
            !.idle = len = 0])
  /\ UNCHANGED <<setup, pos, got, cancelled, calls>>

SeekControl(c) ==
  \E fails \in BOOLEAN :
    /\ SeekStream(Positioned(c), fails)
    /\ EndTurn([Positioned(c) EXCEPT !.control_res = tell' = Positioned(c).max_filepos,
                                     !.control = "none"])

(* cache_execute_control(): a new size, or a control of the stream that    *)
(* moves it, if it succeeds.                                               *)
ExecuteResize(c) ==
  /\ EndTurn([Refresh(Resize(c, c.control_arg)) EXCEPT
                !.control_res = TRUE, !.control_flush = FALSE, !.control = "none"])
  /\ UNCHANGED <<tell, faults>>

ExecuteMove(c) ==
  \/ \E p \in Targets :
       /\ tell' = p
       /\ EndTurn([Refresh(DropContents([c EXCEPT !.read_filepos = p, !.read_min = p]))
                    EXCEPT !.control_res = TRUE, !.control_flush = TRUE, !.control = "none"])
       /\ UNCHANGED faults
  \/ /\ MayFail("moves")
     /\ faults' = faults + 1
     /\ EndTurn([Refresh(c) EXCEPT !.control_res = FALSE, !.control_flush = FALSE,
                                   !.control = "none"])
     /\ UNCHANGED tell

Quit ==
  /\ thread' = [thread EXCEPT !.at = "done"]
  /\ SignalReader
  /\ UNCHANGED <<s, tell, faults>>

CacheThread ==
  /\ thread.at \in {"lock", "loop"}
  /\ \E c \in {s, Refresh(s)} :
       CASE s.control = "quit"   -> Quit
         [] s.control = "resize" -> ExecuteResize(c)
         [] s.control = "move"   -> ExecuteMove(c)
         [] s.control = "seek"   -> SeekControl(c)
         [] OTHER                -> Fill(c)
  /\ UNCHANGED <<setup, pos, got, cancelled, calls>>

ThreadTimeout ==
  /\ thread.at = "asleep"
  /\ thread' = [thread EXCEPT !.at = "lock"]
  /\ UNCHANGED <<s, tell, setup, reader, pos, got, cancelled, calls, faults>>

-----------------------------------------------------------------------------
(* The reader.                                                             *)

MayLock == thread.at \notin {"loop", "aborted"}
Idle == reader.call = "none" /\ MayLock

(* Another call that is not a read.                                        *)
Count == calls < MaxCalls /\ calls' = calls + 1

Return == reader' = [call |-> "none", at |-> "run", len |-> 0]

(* cache_wakeup_and_wait(), up to where it has woken.                      *)
Wait(call, len) ==
  /\ reader' = [call |-> call, at |-> "asleep", len |-> len]
  /\ SignalThread

(* cache_fill_buffer(): the end of it, and a turn of its loop.             *)
ReturnRead(c, data) ==
  LET left == c.bytes_until_wakeup - Len(data)
  IN  /\ \/ c.eof /\ s' = c /\ UNCHANGED thread
         \/ ~c.eof /\ left > 0 /\ s' = [c EXCEPT !.bytes_until_wakeup = left]
            /\ UNCHANGED thread
         \/ /\ ~c.eof /\ left <= 0
            /\ s' = [c EXCEPT !.bytes_until_wakeup = Larger(FILL_LIMIT, ReadChunk)]
            /\ SignalThread
      /\ pos' = pos + Len(data)
      /\ got' = data
      /\ Return

TryRead(len) ==
  \E c \in {[s EXCEPT !.read_min = s.read_filepos + len + ReadMargin]},
     data \in {ReadBuffer(s, len, s.read_filepos)} :
      IF data # <<>> \/ (c.eof /\ c.read_filepos >= c.max_filepos)
      THEN ReturnRead([c EXCEPT !.read_filepos = @ + Len(data)], data)
      ELSE /\ s' = [c EXCEPT !.idle = FALSE]
           /\ Wait("read", len)
           /\ got' = <<FileSize>>
           /\ UNCHANGED pos

FillBuffer(len) ==
  /\ Idle /\ ~cancelled            \* as stream_read_unbuffered() tests
  /\ TryRead(len)
  /\ UNCHANGED <<tell, setup, cancelled, calls, faults>>

Seek(p) ==
  LET c == [s EXCEPT !.read_filepos = p, !.read_min = p, !.bytes_until_wakeup = 0]
  IN
  /\ Idle /\ Count
  /\ \/ /\ ~s.seekable /\ (p > s.max_filepos \/ p < s.min_filepos)
        /\ s' = [s EXCEPT !.bytes_until_wakeup = 0]
        /\ UNCHANGED <<pos, got, thread, reader>>
     \/ /\ s.seekable \/ (p <= s.max_filepos /\ p >= s.min_filepos)
        /\ pos' = p
        /\ got' = <<FileSize>>
        /\ IF NeedsSeek(s, p)
           THEN /\ s' = [c EXCEPT !.eof = FALSE, !.control = "seek", !.control_res = FALSE]
                /\ Wait("seek", 0)
           ELSE /\ s' = c
                /\ SignalThread
                /\ UNCHANGED reader
  /\ UNCHANGED <<tell, setup, cancelled, faults>>

(* cache_control(), of a control that the thread carries out.              *)
Control(cmd, arg) ==
  /\ Idle /\ Count
  /\ s' = [s EXCEPT !.control = cmd, !.control_arg = arg]
  /\ got' = <<FileSize>>
  /\ Wait("control", 0)
  /\ UNCHANGED <<tell, setup, pos, cancelled, faults>>

(* STREAM_CTRL_SET_READAHEAD, which is not.                                *)
SetReadahead ==
  /\ Idle /\ Count
  /\ \E enable \in BOOLEAN : s' = [s EXCEPT !.enable_readahead = enable]
  /\ SignalThread
  /\ UNCHANGED <<tell, setup, reader, pos, got, cancelled, faults>>

(* The rest of a call whose wait has ended.                                *)
Woken(call) == reader.call = call /\ reader.at = "woken" /\ MayLock

ReadOn ==
  /\ Woken("read")
  /\ IF cancelled THEN ReturnRead(s, <<>>) ELSE TryRead(reader.len)
  /\ UNCHANGED <<tell, setup, cancelled, calls, faults>>

Mut_SeekOn ==                               \* waits only once
  /\ Woken("seek")
  /\ s' = [s EXCEPT !.bytes_until_wakeup = 0]
  /\ Return
  /\ UNCHANGED <<thread, tell, setup, pos, got, cancelled, calls, faults>>
SeekOn ==
  /\ Woken("seek")
  /\ IF s.control = "none" \/ cancelled
     THEN /\ s' = [s EXCEPT !.bytes_until_wakeup = 0]
          /\ Return
          /\ UNCHANGED thread
     ELSE Wait("seek", 0) /\ UNCHANGED s
  /\ UNCHANGED <<tell, setup, pos, got, cancelled, calls, faults>>

Mut_ControlOn ==                            \* keeps its own position
  /\ Woken("control")
  /\ \/ /\ cancelled \/ s.control = "none"
        /\ s' = [s EXCEPT !.eof = @ \/ cancelled]
        /\ Return
        /\ UNCHANGED thread
     \/ /\ ~cancelled /\ s.control # "none"
        /\ Wait("control", 0)
        /\ UNCHANGED s
  /\ UNCHANGED <<tell, setup, pos, got, cancelled, calls, faults>>
ControlOn ==
  /\ Woken("control")
  /\ \/ /\ cancelled
        /\ s' = [s EXCEPT !.eof = TRUE]
        /\ Return
        /\ UNCHANGED <<pos, thread>>
     \/ /\ ~cancelled /\ s.control = "none"
        /\ pos' = IF s.control_flush THEN s.read_filepos ELSE pos
        /\ Return
        /\ UNCHANGED <<s, thread>>
     \/ /\ ~cancelled /\ s.control # "none"
        /\ Wait("control", 0)
        /\ UNCHANGED <<s, pos>>
  /\ UNCHANGED <<tell, setup, got, cancelled, calls, faults>>

(* stream_cache_init(), after the thread was created: it asks for the fill *)
(* level, then for a sign of life, and starts over.                        *)
Open ==
  LET min == Smaller(Initial, s.buffer_size - FILL_LIMIT)
  IN
  /\ reader.call = "open" /\ reader.at \in {"run", "woken"} /\ MayLock
  /\ \/ cancelled /\ reader' = [reader EXCEPT !.call = "close"]
     \/ ~cancelled /\ (s.max_filepos - s.read_filepos >= min \/ s.idle) /\ Return
     \/ /\ ~cancelled /\ s.max_filepos - s.read_filepos < min /\ ~s.idle
        /\ reader' = [reader EXCEPT !.at = "ping"]
  /\ UNCHANGED <<s, tell, setup, thread, pos, got, cancelled, calls, faults>>

Ping ==
  /\ reader.at = "ping" /\ MayLock
  /\ s' = [s EXCEPT !.control = "ping"]
  /\ Wait("open", 0)
  /\ UNCHANGED <<tell, setup, pos, got, cancelled, calls, faults>>

(* cache_uninit().                                                         *)
Uninit ==
  /\ reader.call \in {"none", "close"} /\ MayLock
  /\ s' = [s EXCEPT !.control = "quit"]
  /\ SignalThread
  /\ reader' = [call |-> "join", at |-> "run", len |-> 0]
  /\ UNCHANGED <<tell, setup, pos, got, cancelled, calls, faults>>

Join ==
  /\ reader.call = "join" /\ thread.at = "done"
  /\ reader' = [reader EXCEPT !.call = "gone"]
  /\ UNCHANGED <<s, tell, setup, thread, pos, got, cancelled, calls, faults>>

ReaderTimeout ==
  /\ reader.at = "asleep"
  /\ reader' = [reader EXCEPT !.at = "woken"]
  /\ UNCHANGED <<s, tell, setup, thread, pos, got, cancelled, calls, faults>>

Cancel ==
  /\ ~cancelled /\ cancelled' = TRUE
  /\ UNCHANGED <<s, tell, setup, thread, reader, pos, got, calls, faults>>

Call ==
  \/ \E len \in 1..MaxRead : FillBuffer(len)
  \/ \E p \in Targets : Seek(p)
  \/ setup.control = "resize" /\ \E size \in Sizes : Control("resize", size)
  \/ setup.control = "move" /\ Control("move", 0)
  \/ setup.control = "readahead" /\ SetReadahead
  \/ Uninit

Next ==
  \/ Call \/ Open \/ Ping \/ ReadOn \/ SeekOn \/ ControlOn \/ Join
  \/ CacheThread \/ FinishRead \/ ThreadTimeout \/ ReaderTimeout \/ Cancel

Spec == Init /\ [][Next]_vars

(* The cache thread runs, the stream answers, and a reader that was woken  *)
(* goes on.  Nobody has to call, and nobody needs the timeouts until       *)
(* playback is cancelled: mp_cancel_trigger() signals nothing.             *)
ReaderStep ==
  \/ ReadOn \/ SeekOn \/ ControlOn \/ Open \/ Ping \/ Join
  \/ reader.call = "close" /\ Uninit
  \/ cancelled /\ ReaderTimeout

Fairness == WF_vars(CacheThread \/ FinishRead) /\ WF_vars(ReaderStep)

FairSpec == Spec /\ Fairness

-----------------------------------------------------------------------------
(* Every variable has its type, and what the thread writes without the     *)
(* mutex is inside of the buffer (cache_fill() wraps its position once).   *)
TypeOK ==
  /\ s.buffer_size \in Nat /\ s.back_size \in 0..s.buffer_size - 1
  /\ s.buffer \in [0..s.buffer_size - 1 -> 0..FileSize - 1 \cup {Junk}]
  /\ s.seek_limit \in Nat /\ s.stream_size \in -1..FileSize
  /\ {s.min_filepos, s.max_filepos, s.read_filepos, tell, pos} \subseteq 0..FileSize
  /\ s.eof_pos \in -1..FileSize /\ s.offset \in Nat /\ s.read_min \in Nat
  /\ {s.eof, s.idle, s.enable_readahead, s.seekable, s.control_res,
      s.control_flush, s.asserted, cancelled} \subseteq BOOLEAN
  /\ s.control \in {"none", "ping", "seek", "resize", "move", "quit"}
  /\ thread.at \in {"lock", "loop", "reading", "asleep", "done", "aborted"}
  /\ thread.at = "reading" => /\ thread.space \in 1..ReadChunk
                              /\ thread.pos \in 0..s.buffer_size - thread.space
  /\ reader.call \in {"none", "open", "read", "seek", "control", "close",
                      "join", "gone"}
  /\ reader.at \in {"run", "ping", "asleep", "woken"}
  /\ setup \in Setups /\ calls \in 0..MaxCalls /\ faults \in 0..MaxFaults

(* Every byte of [min_filepos, max_filepos) is in the buffer, where        *)
(* read_buffer() looks for it, also while the thread writes new ones       *)
(* without holding the mutex (cache.c:318-333, and a resize, 378-402).     *)
BufferHolds ==
  /\ TypeOK
  /\ \A p \in s.min_filepos..s.max_filepos - 1 : s.buffer[Slot(s, p)] = p

(* A request to the thread is pending only as long as the reader that made *)
(* it waits for it: control_arg points to the reader's stack.  When its    *)
(* call has returned, read_filepos "mirrors cache->pos" (cache.c:132, and  *)
(* the error message in cache_fill_buffer()).  Neither holds of a call     *)
(* that was cancelled (cache.c:687-693).                                   *)
ControlOwned ==
  ~cancelled =>
    /\ reader.call = "none" => s.read_filepos = pos
    /\ s.control = "seek" => reader.call = "seek" /\ reader.at # "run"
    /\ s.control \in {"resize", "move"} => reader.call = "control" /\ reader.at # "run"

(* "keep back_size amount of old bytes for backward seek" (cache.c:101):   *)
(* bytes make room for new ones only if as many are left behind the        *)
(* reader.                                                                 *)
BackbufferKept ==
  [][(/\ s'.min_filepos > s.min_filepos
      /\ s'.max_filepos > s'.min_filepos
      /\ s'.buffer_size = s.buffer_size)
     => s'.read_filepos - s'.min_filepos >= s'.back_size]_vars

(* Whoever reads through the cache reads the file.                         *)
ReadFailed == "reads" \in setup.fails /\ faults > 0
B == INSTANCE ByteStream WITH failed <- ReadFailed
IsByteStream == B!Spec

(* Each call returns, by the signals alone unless it is cancelled, or the  *)
(* process ends in it: the assertion of cache.c:393 fails in a resize      *)
(* while the reader is ahead of what is cached (after a short seek).       *)
Done    == reader.call \in {"none", "gone"}
Aborted == thread.at = "aborted"
CallsReturn == ~Done ~> Done \/ Aborted
=============================================================================
