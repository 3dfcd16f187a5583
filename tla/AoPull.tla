------------------------------- MODULE AoPull -------------------------------
(***************************************************************************)
(* audio/out/pull.c over misc/ring.c: the audio buffer between the player  *)
(* thread (play, reset, pause, resume, drain) and the callback of an audio *)
(* API (ao_read_data), which must not block.  There is no mutex: the two   *)
(* share one ring buffer per plane, each ring with its own pair of atomic  *)
(* positions, and the atomic variables state, draining and underflow.      *)
(*                                                                         *)
(* A step holds at most one access to a variable that the other thread     *)
(* writes.  A memcpy is the interval between the step that fixes its       *)
(* length and the step that publishes the new position; NoCellRace says    *)
(* that what happens in between cannot be seen.  One byte stands for one   *)
(* sample of one plane (sstride), and samples are numbered in the order in *)
(* which the player hands them over, so that what the device gets can be   *)
(* compared with what was sent.                                            *)
(***************************************************************************)
EXTENDS Integers, Sequences, FiniteSets

CONSTANTS NumPlanes,      \* ao->num_planes
          Size,           \* mp_ring_size(): the capacity of each ring
          StreamSilence,  \* ao->stream_silence: the device always runs
          MaxChunk,       \* bound: samples per ao_play() and per callback
          MaxSamples      \* bound: samples sent altogether

Planes == 0 .. NumPlanes - 1

ASSUME AoPullAssumption ==
  /\ NumPlanes \in Nat \ {0} /\ Size \in Nat \ {0}
  /\ StreamSilence \in BOOLEAN
  /\ MaxChunk \in Nat /\ MaxSamples \in Nat

VARIABLES
  state,      \* p->state; AO_STATE_WAIT is never assigned
  draining, underflow,
  rpos, wpos, \* the positions of each plane's ring
  cells,      \* the contents of each plane's ring
  w,          \* the player thread: its place in a call and the call's locals
  r,          \* the audio callback: the same
  running,    \* the driver was resumed and not reset since
  woken,      \* wakeup_cb() was called since the player last fed data
  sent,       \* samples that play() has taken
  heard       \* samples that a callback has returned or a reset discarded

ring == <<rpos, wpos, cells>>
vars == <<state, draining, underflow, rpos, wpos, cells, w, r, running,
          woken, sent, heard>>

IsPlaying(st) == st \in {"PLAY", "BUSY"}

WIdle  == [pc |-> "idle", op |-> "none", i |-> 0, req |-> 0, final |-> FALSE,
           len |-> 0, part |-> 0, eof |-> FALSE]
RIdle  == [pc |-> "idle", i |-> 0, full |-> 0, buffered |-> 0, bytes |-> 0,
           part |-> 0, data |-> [n \in Planes |-> <<>>]]

Init ==
  /\ state = "NONE" /\ draining = FALSE /\ underflow = 0
  /\ rpos = [n \in Planes |-> 0] /\ wpos = [n \in Planes |-> 0]
  /\ cells = [n \in Planes |-> [c \in 0 .. Size - 1 |-> 0]]
  /\ w = WIdle /\ r = RIdle
  /\ running = StreamSilence
  /\ woken = FALSE /\ sent = 0 /\ heard = 0

-----------------------------------------------------------------------------
(* misc/ring.c.  mp_ring_read() and mp_ring_write() fix the length of the  *)
(* copy from the two positions, copy, and add that length to their own.    *)

Smaller(a, b) == IF a < b THEN a ELSE b

Buffered(n)  == wpos[n] - rpos[n]
Mut_Available(n) == Size - Buffered(n) + 1
Available(n) == Size - Buffered(n)
ReadLen(n, len)  == Smaller(len, Buffered(n))
WriteLen(n, len) == Smaller(len, Available(n))

Cell(pos) == pos % Size
Span(pos, len) == {Cell(pos + k) : k \in 0 .. len - 1}

Contents(n, len) == [k \in 1 .. len |-> cells[n][Cell(rpos[n] + k - 1)]]
Filled(n, len) ==
  [c \in 0 .. Size - 1 |->
     IF \E k \in 1 .. len : Cell(wpos[n] + k - 1) = c
     THEN sent + (CHOOSE k \in 1 .. len : Cell(wpos[n] + k - 1) = c)
     ELSE cells[n][c]]

RingReset(n) == /\ wpos' = [wpos EXCEPT ![n] = 0]
                /\ rpos' = [rpos EXCEPT ![n] = 0]
                /\ UNCHANGED cells

-----------------------------------------------------------------------------
(* The player thread.  The planes are written from the last to the first   *)
(* one; the reader goes from the first to the last.                        *)

Mut_WritePlane(i) == i - 1
WritePlane(i) == NumPlanes - i
ReadPlane(i)  == i - 1

Mut_GetSpace == Available(0)
GetSpace == Available(NumPlanes - 1)

ToState(op, call) == [call EXCEPT !.pc = "setstate", !.op = op]
DriverReset == running' = StreamSilence

Play(samples, final) ==
  /\ w.pc = "idle"
  /\ sent + samples <= MaxSamples
  /\ w' = [WIdle EXCEPT !.pc = "plane", !.op = "play", !.i = 1,
                        !.req = samples, !.final = final,
                        !.len = Smaller(GetSpace, samples)]
  /\ woken' = FALSE
  /\ UNCHANGED <<state, draining, underflow, ring, r, running, sent, heard>>

(* mp_ring_write() of one plane: before and after the memcpy.              *)
WriteBegin ==
  /\ w.pc = "plane" /\ w.i <= NumPlanes
  /\ w' = [w EXCEPT !.pc = "copy", !.part = WriteLen(WritePlane(w.i), w.len)]
  /\ UNCHANGED <<state, draining, underflow, ring, r, running, woken, sent,
                 heard>>

WriteEnd ==
  /\ w.pc = "copy"
  /\ LET n == WritePlane(w.i) IN
       /\ cells' = [cells EXCEPT ![n] = Filled(n, w.part)]
       /\ wpos' = [wpos EXCEPT ![n] = @ + w.part]
  /\ w' = [w EXCEPT !.pc = "plane", !.i = @ + 1, !.part = 0]
  /\ sent' = IF w.i = NumPlanes THEN sent + w.len ELSE sent
  /\ UNCHANGED <<state, draining, underflow, rpos, r, running, woken, heard>>

PlayCheck ==
  /\ w.pc = "plane" /\ w.i > NumPlanes
  /\ \/ /\ IsPlaying(state)
        /\ w' = [w EXCEPT !.pc = "finish"]
        /\ UNCHANGED <<draining, underflow>>
     \/ /\ ~IsPlaying(state)
        /\ draining' = FALSE /\ underflow' = 0
        /\ w' = ToState("play", w)
  /\ UNCHANGED <<state, ring, r, running, woken, sent, heard>>

(* set_state(): a spin lock; the call returns once the store succeeded.    *)
NewState(op) == IF op \in {"play", "resume"} THEN "PLAY" ELSE "NONE"

Mut_SetState ==
  /\ w.pc = "setstate"
  /\ state' = NewState(w.op)
  /\ w' = [w EXCEPT !.pc = CASE w.op = "pause" -> "idle"
                             [] w.op \in {"play", "resume"} -> "start"
                             [] w.op \in {"reset", "drain"} -> "clear",
                    !.i = 1]
  /\ UNCHANGED <<draining, underflow, ring, r, running, woken, sent, heard>>

SetState ==
  /\ w.pc = "setstate"
  /\ state # "BUSY"
  /\ state' = NewState(w.op)
  /\ w' = [w EXCEPT !.pc = CASE w.op = "pause" -> "idle"
                             [] w.op \in {"play", "resume"} -> "start"
                             [] w.op \in {"reset", "drain"} -> "clear",
                    !.i = 1]
  /\ UNCHANGED <<draining, underflow, ring, r, running, woken, sent, heard>>

(* ao->driver->resume()                                                    *)
Start ==
  /\ w.pc = "start"
  /\ running' = TRUE
  /\ w' = IF w.op = "play" THEN [w EXCEPT !.pc = "finish"]
                           ELSE [WIdle EXCEPT !.op = w.op]
  /\ UNCHANGED <<state, draining, underflow, ring, r, woken, sent, heard>>

PlayFinish ==
  /\ w.pc = "finish"
  /\ draining' = (w.len = w.req /\ w.final)
  /\ underflow' = 0
  /\ w' = [WIdle EXCEPT !.op = "play"]
  /\ UNCHANGED <<state, ring, r, running, woken, sent, heard>>

(* The positions are cleared by two stores; nobody reads between them      *)
(* (ResetExclusive).  The last plane ends the call.                        *)
Clear ==
  /\ w.pc = "clear"
  /\ RingReset(w.i - 1)
  /\ \/ /\ w.i < NumPlanes
        /\ w' = [w EXCEPT !.i = @ + 1]
        /\ UNCHANGED heard
     \/ /\ w.i = NumPlanes
        /\ w' = [WIdle EXCEPT !.op = w.op]
        /\ heard' = sent
  /\ UNCHANGED <<state, draining, underflow, r, running, woken, sent>>

Reset ==
  /\ w.pc = "idle"
  /\ DriverReset
  /\ w' = ToState("reset", WIdle)
  /\ UNCHANGED <<state, draining, underflow, ring, r, woken, sent, heard>>

Pause ==
  /\ w.pc = "idle"
  /\ DriverReset
  /\ w' = ToState("pause", WIdle)
  /\ UNCHANGED <<state, draining, underflow, ring, r, woken, sent, heard>>

Resume ==
  /\ w.pc = "idle"
  /\ w' = ToState("resume", WIdle)
  /\ UNCHANGED <<state, draining, underflow, ring, r, running, woken, sent,
                 heard>>

Drain ==
  /\ w.pc = "idle"
  /\ \/ /\ IsPlaying(state)
        /\ draining' = TRUE
        /\ w' = [WIdle EXCEPT !.pc = "wait", !.op = "drain"]
        /\ UNCHANGED running
     \/ /\ ~IsPlaying(state)
        /\ w' = ToState("drain", WIdle)
        /\ DriverReset
        /\ UNCHANGED draining
  /\ UNCHANGED <<state, underflow, ring, r, woken, sent, heard>>

Mut_GetEof == Buffered(0) <= 1
GetEof == Buffered(0) = 0

(* The loop of drain() ends at eof or after 250 ms; reset() follows.       *)
DrainEof ==
  /\ w.pc = "wait" /\ GetEof
  /\ DriverReset
  /\ w' = ToState("drain", [w EXCEPT !.eof = TRUE])
  /\ UNCHANGED <<state, draining, underflow, ring, r, woken, sent, heard>>

DrainTimeout ==
  /\ w.pc = "wait"
  /\ DriverReset
  /\ w' = ToState("drain", w)
  /\ UNCHANGED <<state, draining, underflow, ring, r, woken, sent, heard>>

-----------------------------------------------------------------------------
(* ao_read_data() on the thread of the audio API.                          *)

(* In any state but PLAY the callback returns silence and nothing else.    *)
CallbackEnter(samples) ==
  /\ r.pc = "idle" /\ running
  /\ state = "PLAY"
  /\ state' = "BUSY"
  /\ r' = [RIdle EXCEPT !.pc = "load", !.full = samples]
  /\ UNCHANGED <<draining, underflow, ring, w, running, woken, sent, heard>>

(* pull.c:151-160.                                                         *)
Mut_ReadLoad ==
  /\ r.pc = "load"
  /\ r' = IF Buffered(0) = 0 THEN r
          ELSE [r EXCEPT !.pc = "plane", !.i = 1, !.buffered = Buffered(0),
                         !.bytes = Smaller(Buffered(0), r.full)]
  /\ UNCHANGED <<state, draining, underflow, ring, w, running, woken, sent,
                 heard>>

ReadLoad ==
  /\ r.pc = "load"
  /\ LET buffered == Buffered(0)
         bytes    == Smaller(buffered, r.full)
     IN  /\ underflow' = IF buffered < bytes /\ ~draining
                         THEN underflow + (bytes - buffered) ELSE underflow
         /\ r' = [r EXCEPT !.pc = "plane", !.i = 1, !.buffered = buffered,
                           !.bytes = bytes]
  /\ UNCHANGED <<state, draining, ring, w, running, woken, sent, heard>>

(* mp_ring_read() of one plane: before and after the memcpy.               *)
ReadBegin ==
  /\ r.pc = "plane" /\ r.i <= NumPlanes
  /\ r' = [r EXCEPT !.pc = "copy", !.part = ReadLen(ReadPlane(r.i), r.bytes)]
  /\ UNCHANGED <<state, draining, underflow, ring, w, running, woken, sent,
                 heard>>

ReadEnd ==
  /\ r.pc = "copy"
  /\ LET n == ReadPlane(r.i) IN
       /\ rpos' = [rpos EXCEPT ![n] = @ + r.part]
       /\ r' = [r EXCEPT !.pc = "plane", !.i = @ + 1, !.part = 0,
                         !.bytes = Smaller(r.bytes, r.part),
                         !.data[n] = Contents(n, r.part)]
  /\ UNCHANGED <<state, draining, underflow, wpos, cells, w, running, woken,
                 sent, heard>>

(* need_wakeup, the release of the state, wakeup_cb() and the silence that *)
(* pads the rest.                                                          *)
Mut_NeedWakeup == r.bytes > 0 /\ r.buffered - r.bytes <= Size \div 2
NeedWakeup == r.buffered - r.bytes <= Size \div 2

CallbackLeave ==
  /\ r.pc = "plane" /\ r.i > NumPlanes
  /\ state' = IF state = "BUSY" THEN "PLAY" ELSE state
  /\ woken' = (woken \/ NeedWakeup)
  /\ heard' = heard + r.bytes
  /\ r' = RIdle
  /\ UNCHANGED <<draining, underflow, ring, w, running, sent>>

-----------------------------------------------------------------------------
PlayerStep == WriteBegin \/ WriteEnd \/ PlayCheck \/ Start \/ PlayFinish \/ Clear
PlayerCall == \/ \E samples \in 1 .. MaxChunk, final \in BOOLEAN :
                   Play(samples, final)
              \/ Reset \/ Pause \/ Resume \/ Drain
Callback   == ReadLoad \/ ReadBegin \/ ReadEnd \/ CallbackLeave

Next == \/ PlayerCall \/ PlayerStep \/ SetState \/ DrainEof \/ DrainTimeout
        \/ Callback \/ \E samples \in 1 .. MaxChunk : CallbackEnter(samples)

Spec == Init /\ [][Next]_vars

(* Both threads run when they can.  set_state() may find BUSY every time   *)
(* it looks, but the device leaves long pauses between two callbacks, so   *)
(* the store gets its turn if it can be done again and again: SF.  The     *)
(* loop of drain() has its own time limit.                                 *)
Fairness ==
  /\ WF_vars(PlayerStep) /\ WF_vars(DrainTimeout)
  /\ WF_vars(Callback)
  /\ WF_vars(\E samples \in 1 .. MaxChunk : CallbackEnter(samples))
  /\ SF_vars(SetState)

FairSpec == Spec /\ Fairness

-----------------------------------------------------------------------------
TypeOK ==
  /\ state \in {"NONE", "PLAY", "BUSY"}
  /\ draining \in BOOLEAN /\ underflow \in Nat
  /\ rpos \in [Planes -> Nat] /\ wpos \in [Planes -> Nat]
  /\ cells \in [Planes -> [0 .. Size - 1 -> Nat]]
  /\ w \in [pc : {"idle", "plane", "copy", "setstate", "start", "finish",
                  "clear", "wait"},
            op : {"none", "play", "reset", "pause", "resume", "drain"},
            i : 0 .. NumPlanes + 1, req : Nat, final : BOOLEAN,
            len : Nat, part : Nat, eof : BOOLEAN]
  /\ r \in [pc : {"idle", "load", "plane", "copy"}, i : 0 .. NumPlanes + 1,
            full : Nat, buffered : Nat, bytes : Nat, part : Nat,
            data : [Planes -> Seq(Nat)]]
  /\ running \in BOOLEAN /\ woken \in BOOLEAN
  /\ sent \in Nat /\ heard \in Nat

(* pull.c:107 asserts r == write_bytes: the space of the last plane, which *)
(* the reader frees last, is there in every plane, however far a           *)
(* concurrent callback got.                                                *)
WriteNeverShort == w.pc = "copy" => w.part = w.len

(* A callback in progress gets from every plane what plane 0 promised,     *)
(* although the writer fills the planes one after the other (pull.c:101    *)
(* and :151): the channels of the sound never shift against each other.    *)
ReadNeverShort == r.pc = "copy" => r.part = r.bytes

(* ring.c copies outside of any lock: the cells one thread copies are      *)
(* never the ones the other thread is copying.                             *)
NoCellRace ==
  w.pc = "copy" /\ r.pc = "copy" /\ WritePlane(w.i) = ReadPlane(r.i) =>
    LET n == ReadPlane(r.i)
    IN  Span(wpos[n], w.part) \cap Span(rpos[n], r.part) = {}

(* What a callback delivers on every plane are the samples that come next: *)
(* none twice, none skipped, none from before a reset, none that the       *)
(* writer had not finished.  A drain() that ends because the buffer ran    *)
(* empty, and not by its time limit, discards nothing: the last samples    *)
(* have reached the device on all planes.                                  *)
FramesInOrder ==
  /\ r.pc = "plane" /\ r.i > NumPlanes =>
       \A n \in Planes : r.data[n] = [k \in 1 .. r.bytes |-> heard + k]
  /\ w.pc = "clear" /\ w.eof => heard = sent

(* pull.c:170 "Should never fail": the callback still owns the state when  *)
(* it puts BUSY back to PLAY, and nobody resets the rings under it.        *)
ResetExclusive == r.pc # "idle" => state = "BUSY" /\ w.pc # "clear"

(* After pause(), reset() or drain() returned, no callback takes samples   *)
(* from the rings until the next play() or resume().                       *)
PausedIsSilent ==
  w.pc = "idle" /\ w.op \in {"pause", "reset", "drain"} =>
    state = "NONE" /\ r.pc = "idle"

(* pull.c:61 "Set by the audio thread when an underflow was detected. It   *)
(* adds the number of samples."                                            *)
UnderflowCounted ==
  [][r.pc = "load" /\ r'.pc = "plane" /\ r'.buffered < r.full /\ ~draining
       => underflow' = underflow + (r.full - r'.buffered)]_vars

(* Every call of the player returns although it may have to wait for a     *)
(* callback (set_state) or for the end of the sound (drain).               *)
CallsReturn == w.pc # "idle" ~> w.pc = "idle"

(* The player sleeps until wakeup_cb() tells it to feed more data: a       *)
(* playing device whose buffer is at most half full wakes it.              *)
LowBufferWakes ==
  state # "NONE" /\ running /\ Buffered(0) <= Size \div 2 ~>
    woken \/ state = "NONE" \/ ~running \/ Buffered(0) > Size \div 2
=============================================================================
