------------------------------- MODULE AoPush -------------------------------
(***************************************************************************)
(* audio/out/push.c: the audio output for drivers that are fed.  The       *)
(* player hands samples to a soft buffer (play, reset, pause, resume,      *)
(* drain, uninit); a thread of the AO moves them to the device and decides *)
(* when to do so again: when it is told to, when the device has room, or   *)
(* when all has been played.                                               *)
(*                                                                         *)
(* p->lock is held by every function, so a call of the player is one step  *)
(* except for drain(), which waits.  The AO thread holds it from one wait  *)
(* to the next ("fill" and "wait" are places inside that section).  Both   *)
(* wait on p->wakeup, which is signalled, never broadcast.                 *)
(*                                                                         *)
(* Time is counted in samples: a tick plays one sample of the device.  A   *)
(* point of time is stored as the ticks that are left until it.            *)
(***************************************************************************)
EXTENDS Integers, FiniteSets

CONSTANTS SoftBuffer,     \* ao->buffer
          DeviceBuffer,   \* ao->device_buffer
          Period,         \* ao->period_size
          Margin,         \* the 64 samples that get_space() asks for on top
          Latency,        \* what get_delay() reports for an empty device
          Excess,         \* samples that play() may be given beyond get_space()
          MaxFaults,      \* bound: times the driver takes less than it is given
          MaxSamples      \* bound: samples sent altogether

ASSUME AoPushAssumption ==
  /\ SoftBuffer \in Nat \ {0} /\ DeviceBuffer \in Nat \ {0}
  /\ Period \in Nat \ {0}
  /\ Margin \in Nat /\ Latency \in Nat /\ Excess \in Nat
  /\ MaxFaults \in Nat /\ MaxSamples \in Nat

VARIABLES
  has_wait,       \* ao->driver->wait and ->wakeup are set
  stream_silence, \* ao->stream_silence; both are set when the AO is created
  buffer,         \* mp_audio_buffer_samples(p->buffer)
  allocated,      \* the samples that p->buffer has memory for
  paused, still_playing, final_chunk, need_wakeup, wait_on_ao, terminate,
  expected_end,   \* ticks until p->expected_end_time, or NotSet
  ao,             \* where the AO thread is
  player,         \* where the player thread is
  core_paused,    \* the player called pause() and not resume() since
  cond,           \* who is blocked on p->wakeup
  pipe,           \* the driver's wakeup pipe has a byte in it
  device,         \* samples in the device
  device_paused,
  faults,         \* times the driver took less than it was given
  sent,           \* samples that play() said it has taken
  written,        \* samples of these that left the buffer
  woken           \* wakeup_cb() was called since the last play()

options == <<has_wait, stream_silence>>
p == <<buffer, allocated, paused, still_playing, final_chunk, need_wakeup,
       wait_on_ao, terminate, expected_end>>
driver == <<options, device, device_paused, faults>>
vars == <<p, ao, player, core_paused, cond, pipe, driver, sent, written, woken>>

NotSet == DeviceBuffer + SoftBuffer + Latency + Excess + 1

Init ==
  /\ has_wait \in BOOLEAN /\ stream_silence \in BOOLEAN
  /\ buffer = 0 /\ allocated = SoftBuffer
  /\ paused = FALSE /\ still_playing = FALSE /\ final_chunk = FALSE
  /\ need_wakeup = FALSE /\ wait_on_ao = FALSE /\ terminate = FALSE
  /\ expected_end = NotSet
  /\ ao = "start" /\ player = "idle" /\ core_paused = FALSE
  /\ cond = {} /\ pipe = FALSE
  /\ device = 0 /\ device_paused = FALSE /\ faults = 0
  /\ sent = 0 /\ written = 0 /\ woken = FALSE

-----------------------------------------------------------------------------
Smaller(x, y) == IF x < y THEN x ELSE y
Larger(x, y)  == IF x < y THEN y ELSE x
Aligned(n)    == (n \div Period) * Period

(* Who holds p->lock from one step to the next.  drain() keeps it while it *)
(* waits for the device.                                                   *)
PlayerMayLock == ao \notin {"fill", "wait"}
AoMayLock     == player # "draindevice"

(* pthread_cond_signal() wakes one of the waiters.                         *)
Signal(waiting) ==
  \/ waiting = {} /\ cond' = {}
  \/ \E t \in waiting : cond' = waiting \ {t}

Mut_WakeupPlaythread ==                     \* does not signal
  /\ need_wakeup' = TRUE
  /\ pipe' = (pipe \/ has_wait)
  /\ UNCHANGED cond
WakeupPlaythread ==
  /\ need_wakeup' = TRUE
  /\ Signal(cond)
  /\ pipe' = (pipe \/ has_wait)

(* The driver: get_space() and get_delay(), whose result includes what is  *)
(* in the device but not what is in the soft buffer; one tick of time.     *)
DriverSpace == Aligned(DeviceBuffer - device)
DriverDelay == device + Latency

Delay == DriverDelay + buffer

(* unlocked_get_space(), for the samples in the soft buffer and the        *)
(* device's free space at the time.                                        *)
WriteAvailable == allocated - buffer
GetSpace(soft, available, space) ==
  LET missing == SoftBuffer + Margin - (DeviceBuffer - space) - soft
  IN  Larger(0, Smaller(available, Larger(missing, space - soft)))

-----------------------------------------------------------------------------
(* The player.                                                             *)

Play(samples, final) ==
  LET write == Smaller(WriteAvailable, samples)
      is_final == final /\ write = samples
      got_data == write > 0 \/ paused \/ final_chunk # is_final
  IN
  /\ player = "idle" /\ PlayerMayLock /\ ~core_paused
  /\ samples <= GetSpace(buffer, WriteAvailable, DriverSpace) + Excess
  /\ sent + samples <= MaxSamples
  /\ buffer' = buffer + samples
  /\ allocated' = Larger(allocated, buffer + samples)
  /\ sent' = sent + write
  /\ final_chunk' = is_final
  /\ paused' = FALSE
  /\ woken' = FALSE
  /\ \/ /\ got_data
        /\ still_playing' = TRUE
        /\ expected_end' = NotSet
        /\ WakeupPlaythread
     \/ /\ ~got_data
        /\ UNCHANGED <<still_playing, expected_end, need_wakeup, cond, pipe>>
  /\ UNCHANGED <<wait_on_ao, terminate, ao, player, core_paused, driver,
                 written>>

Mut_Clear ==                                \* keeps the soft buffer
  /\ device' = 0 /\ device_paused' = FALSE
  /\ written' = sent
  /\ paused' = FALSE
  /\ IF still_playing THEN WakeupPlaythread
                      ELSE UNCHANGED <<need_wakeup, cond, pipe>>
  /\ still_playing' = FALSE
  /\ UNCHANGED <<buffer, allocated, final_chunk, wait_on_ao, terminate,
                 expected_end, ao, core_paused, options, faults, sent, woken>>

(* reset() throws away what is in the soft buffer and in the device.       *)
Clear ==
  /\ device' = 0 /\ device_paused' = FALSE
  /\ buffer' = 0 /\ written' = sent
  /\ paused' = FALSE
  /\ IF still_playing THEN WakeupPlaythread
                      ELSE UNCHANGED <<need_wakeup, cond, pipe>>
  /\ still_playing' = FALSE
  /\ UNCHANGED <<allocated, final_chunk, wait_on_ao, terminate, expected_end,
                 ao, core_paused, options, faults, sent, woken>>

Reset ==
  /\ player = "idle" /\ PlayerMayLock
  /\ Clear
  /\ UNCHANGED player

Pause ==
  /\ player = "idle" /\ PlayerMayLock /\ ~core_paused
  /\ device_paused' = TRUE
  /\ paused' = TRUE /\ core_paused' = TRUE
  /\ WakeupPlaythread
  /\ UNCHANGED <<buffer, allocated, still_playing, final_chunk, wait_on_ao,
                 terminate, expected_end, ao, player, options, device, faults,
                 sent, written, woken>>

Mut_Resume ==                               \* keeps expected_end_time
  /\ player = "idle" /\ PlayerMayLock /\ core_paused
  /\ device_paused' = FALSE
  /\ paused' = FALSE /\ core_paused' = FALSE
  /\ WakeupPlaythread
  /\ UNCHANGED <<buffer, allocated, still_playing, final_chunk, wait_on_ao,
                 expected_end, terminate, ao, player, options, device, faults,
                 sent, written, woken>>

Resume ==
  /\ player = "idle" /\ PlayerMayLock /\ core_paused
  /\ device_paused' = FALSE
  /\ paused' = FALSE /\ core_paused' = FALSE
  /\ expected_end' = NotSet
  /\ WakeupPlaythread
  /\ UNCHANGED <<buffer, allocated, still_playing, final_chunk, wait_on_ao,
                 terminate, ao, player, options, device, faults, sent, written,
                 woken>>

(* drain(): the end is announced, then it waits for the soft buffer to run *)
(* empty, then for the device, then it resets.                             *)
Drain ==
  /\ player = "idle" /\ PlayerMayLock
  /\ \/ /\ paused
        /\ player' = "drainreset"
        /\ UNCHANGED <<final_chunk, need_wakeup, cond, pipe>>
     \/ /\ ~paused
        /\ final_chunk' = TRUE
        /\ WakeupPlaythread
        /\ player' = "drain"
  /\ UNCHANGED <<buffer, allocated, paused, still_playing, wait_on_ao,
                 terminate, expected_end, ao, core_paused, driver, sent,
                 written, woken>>

Mut_DrainLoop ==                            \* does not wait for the AO thread
  /\ player = "drain" /\ PlayerMayLock
  /\ player' = "draindevice"
  /\ UNCHANGED <<p, ao, core_paused, cond, pipe, driver, sent, written, woken>>

DrainLoop ==
  /\ player = "drain" /\ PlayerMayLock /\ "player" \notin cond
  /\ \/ /\ still_playing /\ buffer > 0
        /\ cond' = cond \cup {"player"}
        /\ UNCHANGED player
     \/ /\ ~(still_playing /\ buffer > 0)
        /\ player' = "draindevice"
        /\ UNCHANGED cond
  /\ UNCHANGED <<p, ao, core_paused, pipe, driver, sent, written, woken>>

DrainTimeout ==
  /\ player = "drain" /\ "player" \in cond
  /\ cond' = cond \ {"player"}
  /\ player' = "drainabort"
  /\ UNCHANGED <<p, ao, core_paused, pipe, driver, sent, written, woken>>

(* driver->drain(), or a sleep of the same length.                         *)
DrainDevice ==
  /\ player = "draindevice" /\ device = 0
  /\ player' = "drained"
  /\ UNCHANGED <<p, ao, core_paused, cond, pipe, driver, sent, written, woken>>

DrainReset ==
  /\ player \in {"drainreset", "drainabort", "drained"} /\ PlayerMayLock
  /\ Clear
  /\ player' = "idle"

Uninit ==
  /\ player = "idle" /\ PlayerMayLock
  /\ terminate' = TRUE
  /\ WakeupPlaythread
  /\ player' = "join"
  /\ UNCHANGED <<buffer, allocated, paused, still_playing, final_chunk,
                 wait_on_ao, expected_end, ao, core_paused, driver, sent,
                 written, woken>>

Join ==
  /\ player = "join" /\ ao = "done"
  /\ player' = "gone"
  /\ UNCHANGED <<p, ao, core_paused, cond, pipe, driver, sent, written, woken>>

-----------------------------------------------------------------------------
(* The AO thread.                                                          *)

PlaySilence == paused \/ (stream_silence /\ ~still_playing)
Playing     == ~paused \/ stream_silence

(* ao_play_data(): "accepted" is what driver->play() returns.              *)
Available == IF PlaySilence THEN DriverSpace ELSE buffer
IsFinal   == final_chunk /\ Available <= DriverSpace
Mut_Samples == Aligned(Smaller(Available, DriverSpace))
Samples   == LET n == Smaller(Available, DriverSpace)
             IN  IF IsFinal THEN n ELSE Aligned(n)
StuckEof(accepted) ==
  accepted = 0 /\ DriverSpace >= Available /\ Samples > 0
Taken(accepted) == IF IsFinal /\ StuckEof(accepted) THEN Available ELSE accepted
Stuck(accepted) ==
  Taken(accepted) = 0 /\ Available >= DriverSpace /\ DriverSpace > 0
Mut_WantsMore(accepted) == FALSE
WantsMore(accepted) ==
  LET needed == GetSpace(buffer', allocated - buffer',
                         Aligned(DeviceBuffer - device'))
      threshold == IF Taken(accepted) = DriverSpace THEN DeviceBuffer \div 4
                                                    ELSE 1
  IN  needed >= threshold /\ ~Stuck(accepted) /\ ~IsFinal

PlayData(accepted) ==
  LET taken == IF PlaySilence THEN 0 ELSE Taken(accepted)
  IN
  /\ device' = device + accepted
  /\ device_paused' = (device_paused /\ Samples = 0)
  /\ buffer' = buffer - taken
  /\ written' = written + taken
  /\ expected_end' = IF Taken(accepted) > 0 THEN NotSet ELSE expected_end
  /\ wait_on_ao' = (DriverSpace = 0 \/ Taken(accepted) > 0 \/ Stuck(accepted))
  /\ still_playing' = (still_playing \/ taken > 0)
  /\ woken' = (woken \/ WantsMore(accepted))

AoStart ==
  /\ ao = "start" /\ AoMayLock
  /\ ao' = "fill"
  /\ UNCHANGED <<p, player, core_paused, cond, pipe, driver, sent, written, woken>>

AoFill ==
  /\ ao = "fill" /\ ~terminate
  /\ ao' = "wait"
  /\ \/ /\ Playing
        /\ \E accepted \in 0 .. Samples :
             /\ accepted < Samples => faults < MaxFaults
             /\ faults' = faults + (IF accepted < Samples THEN 1 ELSE 0)
             /\ PlayData(accepted)
     \/ /\ ~Playing
        /\ UNCHANGED <<driver, buffer, written, expected_end, wait_on_ao,
                       still_playing, woken>>
  /\ UNCHANGED <<allocated, paused, final_chunk, need_wakeup, terminate,
                 player, core_paused, cond, pipe, options, sent>>

AoExit ==
  /\ ao = "fill" /\ terminate
  /\ ao' = "done"
  /\ UNCHANGED <<p, player, core_paused, cond, pipe, driver, sent, written, woken>>

(* The rest of the loop's body: nothing to wait for; a wait for the player *)
(* or the end of the sound; or a wait for the device.                      *)
AoAgain ==
  /\ ao = "wait" /\ need_wakeup
  /\ need_wakeup' = FALSE
  /\ ao' = "fill"
  /\ UNCHANGED <<buffer, allocated, paused, still_playing, final_chunk,
                 wait_on_ao, terminate, expected_end, player, core_paused, cond,
                 pipe, driver, sent, written, woken>>

(* A stored time is some fraction of a tick later than its whole ticks, so *)
(* it is never met exactly; a delay of 0 is now.                           *)
Ending   == still_playing /\ ~paused /\ final_chunk /\ buffer = 0
Mut_TimeLeft == FALSE
Expired  == Ending /\ expected_end < 0
TimeLeft == Ending /\ IF expected_end = NotSet THEN Delay > 0
                                              ELSE expected_end >= 0

AoWaitInactive ==
  /\ ao = "wait" /\ ~need_wakeup
  /\ ~wait_on_ao \/ ~Playing
  /\ expected_end' = IF Ending /\ expected_end = NotSet THEN Delay
                                                       ELSE expected_end
  /\ still_playing' = (still_playing /\ ~Expired)
  /\ woken' = (woken \/ Expired)
  /\ ao' = IF TimeLeft THEN "timed" ELSE "idle"
  /\ \/ cond = {} /\ cond' = {"ao"}
     \/ \E t \in cond : cond' = (cond \ {t}) \cup {"ao"}
  /\ UNCHANGED <<buffer, allocated, paused, final_chunk, need_wakeup,
                 wait_on_ao, terminate, player, core_paused, pipe, driver, sent,
                 written>>

AoWaitDevice ==
  /\ ao = "wait" /\ ~need_wakeup
  /\ wait_on_ao /\ Playing
  /\ \/ has_wait /\ ao' = "device" /\ UNCHANGED cond
     \/ ao' = "guess" /\ cond' = cond \cup {"ao"}
  /\ UNCHANGED <<p, player, core_paused, pipe, driver, sent, written, woken>>

(* driver->wait(): a poll of the device and the wakeup pipe without the    *)
(* lock.  It may fail, and then the thread guesses.                        *)
DeviceWaitEnd ==
  /\ ao = "device" /\ AoMayLock
  /\ pipe \/ DriverSpace > 0
  /\ pipe' = FALSE
  /\ need_wakeup' = FALSE
  /\ ao' = "fill"
  /\ UNCHANGED <<buffer, allocated, paused, still_playing, final_chunk,
                 wait_on_ao, terminate, expected_end, player, core_paused, cond,
                 driver, sent, written, woken>>

Mut_DeviceWaitError ==
  /\ ao = "device" /\ AoMayLock
  /\ cond' = cond \cup {"ao"} /\ ao' = "idle"
  /\ UNCHANGED <<p, player, core_paused, pipe, driver, sent, written, woken>>

DeviceWaitError ==
  /\ ao = "device" /\ AoMayLock
  /\ \/ /\ need_wakeup
        /\ need_wakeup' = FALSE
        /\ ao' = "fill"
        /\ UNCHANGED cond
     \/ /\ ~need_wakeup
        /\ cond' = cond \cup {"ao"} /\ ao' = "guess"
        /\ UNCHANGED need_wakeup
  /\ UNCHANGED <<buffer, allocated, paused, still_playing, final_chunk,
                 wait_on_ao, terminate, expected_end, player, core_paused, pipe,
                 driver, sent, written, woken>>

(* The waits end.  A timer fires after its time, never in the same instant.*)
AoTimeout ==
  /\ "ao" \in cond
  /\ ao = "guess" \/ (ao = "timed" /\ expected_end < 0)
  /\ cond' = cond \ {"ao"}
  /\ UNCHANGED <<p, ao, player, core_paused, pipe, driver, sent, written, woken>>

AoResume ==
  /\ ao \in {"idle", "timed", "guess"} /\ "ao" \notin cond /\ AoMayLock
  /\ need_wakeup' = FALSE
  /\ ao' = "fill"
  /\ UNCHANGED <<buffer, allocated, paused, still_playing, final_chunk,
                 wait_on_ao, terminate, expected_end, player, core_paused, cond,
                 pipe, driver, sent, written, woken>>

SpuriousWakeup(t) ==
  /\ t \in cond
  /\ cond' = cond \ {t}
  /\ UNCHANGED <<p, ao, player, core_paused, pipe, driver, sent, written, woken>>

(* Time passes: the device plays a sample, points of time come nearer.     *)
Tick ==
  /\ (device > 0 /\ ~device_paused) \/ expected_end \in 0 .. NotSet - 1
  /\ device' = IF device > 0 /\ ~device_paused THEN device - 1 ELSE device
  /\ expected_end' = IF expected_end \in 0 .. NotSet - 1
                     THEN expected_end - 1 ELSE expected_end
  /\ UNCHANGED <<buffer, allocated, paused, still_playing, final_chunk,
                 need_wakeup, wait_on_ao, terminate, ao, player, core_paused,
                 cond, pipe, options, device_paused, faults, sent, written,
                 woken>>

-----------------------------------------------------------------------------
PlayerCall ==
  \/ \E samples \in 1 .. MaxSamples, final \in BOOLEAN : Play(samples, final)
  \/ Reset \/ Pause \/ Resume \/ Drain \/ Uninit
DrainStep == DrainLoop \/ DrainDevice \/ DrainReset
AoStep == \/ AoStart \/ AoFill \/ AoExit \/ AoAgain
          \/ AoWaitInactive \/ AoWaitDevice \/ DeviceWaitEnd \/ AoResume

Done == player = "gone" /\ UNCHANGED vars

Next == \/ PlayerCall \/ DrainStep \/ DrainTimeout \/ Join
        \/ AoStep \/ DeviceWaitError \/ AoTimeout
        \/ \E t \in {"ao", "player"} : SpuriousWakeup(t)
        \/ Tick \/ Done

Spec == Init /\ [][Next]_vars

(* A thread that waits for the mutex gets it in the end, though others may *)
(* take it first (SF), timers of the AO thread fire, and time passes.      *)
(* Neither the time limit of drain() nor spurious wakeups nor any call of  *)
(* the player is promised.                                                 *)
Fairness ==
  /\ SF_vars(DrainStep) /\ WF_vars(Join)
  /\ SF_vars(AoStep) /\ WF_vars(AoTimeout) /\ WF_vars(Tick)

FairSpec == Spec /\ Fairness

-----------------------------------------------------------------------------
(* Every variable has its type, and the device never holds more than fits: *)
(* ao_play_data() gives it no more than its free space.                    *)
TypeOK ==
  /\ buffer \in Nat /\ allocated \in Nat /\ buffer <= allocated
  /\ paused \in BOOLEAN /\ still_playing \in BOOLEAN /\ final_chunk \in BOOLEAN
  /\ need_wakeup \in BOOLEAN /\ wait_on_ao \in BOOLEAN /\ terminate \in BOOLEAN
  /\ expected_end \in -1 .. NotSet
  /\ ao \in {"start", "fill", "wait", "idle", "timed", "device", "guess", "done"}
  /\ player \in {"idle", "drain", "draindevice", "drained", "drainabort",
                 "drainreset", "join", "gone"}
  /\ core_paused \in BOOLEAN
  /\ cond \in SUBSET {"ao", "player"} /\ pipe \in BOOLEAN
  /\ device \in 0 .. DeviceBuffer /\ device_paused \in BOOLEAN /\ faults \in Nat
  /\ sent \in Nat /\ written \in Nat /\ woken \in BOOLEAN

(* ao.c:345: play() returns the number of samples it has accepted, and the *)
(* player sends the rest again.  The samples that are in the soft buffer   *)
(* are those that were accepted and did not leave it: none is in it twice, *)
(* none is dropped when silence is played instead or the driver takes less.*)
(* drain() that was not cut short has played everything: what its reset    *)
(* throws away is nothing, or silence that was streamed since.             *)
SamplesOnce ==
  /\ TypeOK
  /\ buffer = sent - written
  /\ player = "drained" => buffer = 0 /\ (device = 0 \/ stream_silence)

(* The AO thread sleeps on p->wakeup, perhaps without any time limit, only *)
(* while there is nothing for it to do: no call wants it awake, and of the *)
(* buffered samples the device could take none (unless the driver refused  *)
(* some).  One signal wakes one thread, and drain() may be waiting too.    *)
NoLostWakeup ==
  ao \in {"idle", "timed"} /\ "ao" \in cond =>
    /\ ~need_wakeup /\ ~terminate
    /\ Playing /\ ~PlaySilence /\ faults = 0 => Samples = 0

(* The end of the sound is guessed by the time it takes to play it.        *)
(* Whatever pauses, resumes and new samples come in between, get_eof()     *)
(* becomes true not before the device has played all.                      *)
EofNotEarly ==
  [][ao = "wait" /\ still_playing /\ ~still_playing' =>
       buffer = 0 /\ device = 0]_vars

(* drain() does not need its time limit: the AO thread and drain() never   *)
(* wait for each other, although they share a condition variable.          *)
(* uninit() ends the AO thread wherever it waits.                          *)
CallsReturn == /\ player = "drain" ~> player = "idle"
               /\ player = "join" ~> player = "gone"

(* internal.h:153, get_eof(): "Return true if audio has stopped in any     *)
(* way."  When the last chunk was handed over, the end is reported, unless *)
(* the player pauses, goes on or ends the AO.                              *)
EofReported ==
  still_playing /\ final_chunk ~>
    ~still_playing \/ ~final_chunk \/ paused \/ terminate

(* push.c:370 "The most important part is that the decoder is woken up, so *)
(* that the decoder will wake up us in turn": a playing device that has    *)
(* run dry before the end does not wait for samples nobody asked for.      *)
Starved == /\ still_playing /\ ~paused /\ ~final_chunk /\ ~terminate
           /\ buffer = 0 /\ device = 0
DataRequested == Starved ~> woken \/ ~Starved
=============================================================================
