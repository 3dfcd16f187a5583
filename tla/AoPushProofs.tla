---------------------------- MODULE AoPushProofs ----------------------------
(***************************************************************************)
(* Proofs about AoPush for buffers, periods and latencies of any size and  *)
(* any number of driver faults, and for players that give play() no more   *)
(* samples than get_space() allows.                                        *)
(*                                                                         *)
(* The three theorems are about the same two difficulties.  The AO thread  *)
(* decides in one step what it waits for and waits in a later one; what it *)
(* found must hold until somebody wakes it (Idle, Sleeping).  And the end  *)
(* of the sound is guessed by time, while the device plays, stops and is   *)
(* filled again (Clock).                                                   *)
(***************************************************************************)
EXTENDS AoPush, TLAPS

(* The type invariant in three parts, each for one prover to handle.       *)
Numbers ==
  /\ buffer \in Nat /\ allocated \in Nat /\ buffer <= allocated
  /\ expected_end \in -1 .. NotSet
  /\ device \in 0 .. DeviceBuffer /\ faults \in Nat
  /\ sent \in Nat /\ written \in Nat

Flags ==
  /\ paused \in BOOLEAN /\ still_playing \in BOOLEAN /\ final_chunk \in BOOLEAN
  /\ need_wakeup \in BOOLEAN /\ wait_on_ao \in BOOLEAN /\ terminate \in BOOLEAN
  /\ core_paused \in BOOLEAN /\ pipe \in BOOLEAN /\ device_paused \in BOOLEAN
  /\ woken \in BOOLEAN

Places ==
  /\ ao \in {"start", "fill", "wait", "idle", "timed", "device", "guess", "done"}
  /\ player \in {"idle", "drain", "draindevice", "drained", "drainabort",
                 "drainreset", "join", "gone"}
  /\ cond \in SUBSET {"ao", "player"}

(* The soft buffer holds what was accepted and did not leave it, and has   *)
(* never to grow; what is in it is being played.                           *)
Buffered ==
  /\ buffer = sent - written
  /\ allocated = SoftBuffer
  /\ ~still_playing => buffer = 0

(* drain() keeps the lock while it waits for the device, and resets only   *)
(* what is played already.                                                 *)
Draining ==
  /\ player \in {"draindevice", "drained"} => buffer = 0
  /\ player = "draindevice" => ao \notin {"fill", "wait"}
  /\ player = "drained" => device = 0 \/ stream_silence

(* p->wakeup has one waiter at most when a call signals it.                *)
Waiters ==
  /\ "player" \in cond => player = "drain"
  /\ ao \in {"start", "fill", "wait", "device", "done"} => "ao" \notin cond

(* The AO thread has nothing to do: the device could take nothing, and     *)
(* will not when it has more space either.                                 *)
NothingToPlay ==
  Playing /\ ~PlaySilence /\ faults = 0 =>
    buffer = 0 \/ (~final_chunk /\ Aligned(buffer) = 0)

Idle == ao = "wait" => ~terminate /\ (wait_on_ao \/ NothingToPlay)

Sleeping ==
  ao \in {"idle", "timed"} /\ "ao" \in cond =>
    ~need_wakeup /\ ~terminate /\ NothingToPlay

(* The device has played all when the time is up.                          *)
Clock ==
  /\ paused => core_paused
  /\ device_paused => paused
  /\ expected_end # NotSet /\ ~paused => device <= Larger(expected_end, 0)

IInv == /\ Numbers /\ Flags /\ Places
        /\ Buffered /\ Draining /\ Waiters /\ Idle /\ Sleeping /\ Clock

-----------------------------------------------------------------------------
(* The invariant contains the types.                                       *)
LEMMA Typed == IInv => TypeOK
BY DEF IInv, Numbers, Flags, Places, TypeOK

(* A multiple of the period that fits in n samples.                        *)
LEMMA AlignedFits ==
  ASSUME NEW n \in Nat
  PROVE  Aligned(n) \in Nat /\ Aligned(n) <= n
<1>p. Period \in Nat \ {0}
  BY AoPushAssumption
<1>. DEFINE q == n \div Period
<1>1. q \in Nat /\ n = Period * q + (n % Period) /\ n % Period \in Nat
  BY <1>p
<1>. HIDE DEF q
<1>2. q * Period = Period * q /\ q * Period \in Nat
  BY <1>1, <1>p
<1>. QED BY <1>1, <1>2 DEF Aligned, q

(* What is less than a period is nothing, and so is what is less than it.  *)
LEMMA AlignedNothing ==
  ASSUME NEW n \in Nat, NEW m \in Nat, m <= n, Aligned(n) = 0
  PROVE  Aligned(m) = 0
<1>p. Period \in Nat \ {0}
  BY AoPushAssumption
<1>. DEFINE q == n \div Period
            r == m \div Period
<1>1. /\ q \in Nat /\ n = Period * q + (n % Period) /\ n % Period \in 0 .. Period - 1
      /\ r \in Nat /\ m = Period * r + (m % Period) /\ m % Period \in 0 .. Period - 1
  BY <1>p
<1>2. q * Period = 0
  BY DEF Aligned
<1>. HIDE DEF q, r
<1>3. q = 0
  BY <1>1, <1>2, <1>p
<1>4. n < Period
  BY <1>1, <1>3, <1>p
<1>5. CASE r = 0
  BY <1>5, <1>p DEF Aligned, r
<1>6. CASE r >= 1
  <2>1. Period * r >= Period
    BY <1>1, <1>6, <1>p
  <2>. QED BY <1>1, <1>4, <2>1, <1>p
<1>. QED BY <1>1, <1>5, <1>6

(* A call that wakes the AO thread wakes it and not drain().               *)
LEMMA WakesAo ==
  ASSUME IInv, player # "drain", WakeupPlaythread
  PROVE  cond' = {} /\ need_wakeup' = TRUE /\ pipe' \in BOOLEAN
<1>1. cond \subseteq {"ao"}
  BY DEF IInv, Places, Waiters
<1>2. cond' = {}
  BY <1>1 DEF WakeupPlaythread, Signal
<1>3. pipe' \in BOOLEAN
  BY DEF WakeupPlaythread
<1>. QED BY <1>2, <1>3 DEF WakeupPlaythread

(* The device's free space.                                                *)
LEMMA SpaceFits ==
  ASSUME Numbers
  PROVE  DriverSpace \in Nat /\ DriverSpace <= DeviceBuffer - device
<1>1. DeviceBuffer - device \in Nat
  BY AoPushAssumption DEF Numbers
<1>. QED BY <1>1, AlignedFits DEF DriverSpace

(* What the AO thread gives to the driver is no more than there is space   *)
(* for and, unless it is silence, than there is in the soft buffer.        *)
LEMMA SamplesFit ==
  ASSUME Numbers
  PROVE  /\ Samples \in Nat /\ Samples <= DriverSpace /\ Samples <= Available
         /\ ~PlaySilence => Available = buffer
         /\ Available \in Nat
<1>. DEFINE n == Smaller(Available, DriverSpace)
<1>1. /\ DriverSpace \in Nat /\ Available \in Nat
      /\ ~PlaySilence => Available = buffer
  BY SpaceFits DEF Numbers, Available
<1>2. n \in Nat /\ n <= DriverSpace /\ n <= Available
  BY <1>1 DEF Smaller
<1>3. Samples = IF IsFinal THEN n ELSE Aligned(n)
  BY DEF Samples
<1>. HIDE DEF n
<1>4. Aligned(n) \in Nat /\ Aligned(n) <= n
  BY <1>2, AlignedFits
<1>5. Samples \in Nat /\ Samples <= n
  BY <1>2, <1>3, <1>4
<1>. QED BY <1>1, <1>2, <1>5

(* So is what it takes from the soft buffer; and it takes nothing only if  *)
(* the driver has accepted nothing.                                        *)
LEMMA TakenFits ==
  ASSUME Numbers, NEW accepted \in 0 .. Samples
  PROVE  /\ accepted \in Nat /\ accepted <= Samples
         /\ Taken(accepted) \in Nat /\ Taken(accepted) <= Available
         /\ Taken(accepted) = 0 => accepted = 0
<1>1. Samples \in Nat /\ Samples <= Available /\ Available \in Nat
  BY SamplesFit
<1>2. accepted \in Nat /\ accepted <= Samples
  BY <1>1
<1>3. /\ Taken(accepted) \in {accepted, Available}
      /\ Taken(accepted) # accepted => Samples > 0 /\ accepted = 0
  BY DEF Taken, StuckEof
<1>. QED BY <1>1, <1>2, <1>3

-----------------------------------------------------------------------------
(* Nothing is buffered or playing at first.                                *)
LEMMA InitInv == Init => IInv
<1>. SUFFICES ASSUME Init PROVE IInv
  OBVIOUS
<1>1. NotSet \in Nat /\ DeviceBuffer \in Nat /\ SoftBuffer \in Nat
  BY AoPushAssumption DEF NotSet
<1>2. Numbers
  BY <1>1 DEF Init, Numbers
<1>3. Flags
  BY DEF Init, Flags
<1>4. Places
  BY DEF Init, Places
<1>. QED BY <1>2, <1>3, <1>4
         DEF Init, IInv, Buffered, Draining, Waiters, Idle, Sleeping, Clock

(* The calls of the player: each finds that nobody else can take the lock, *)
(* and wakes the AO thread if it changes what that waits for.              *)
LEMMA PlayInv ==
  ASSUME Excess = 0, IInv, NEW samples \in 1 .. MaxSamples, NEW final \in BOOLEAN,
         Play(samples, final)
  PROVE  IInv'
<1>. DEFINE write == Smaller(WriteAvailable, samples)
<1>1. /\ Numbers /\ Flags /\ Places /\ Buffered /\ Waiters /\ Clock
      /\ samples \in Nat \ {0}
  BY AoPushAssumption DEF IInv
<1>2. WriteAvailable \in Int /\ WriteAvailable = SoftBuffer - buffer
  BY <1>1, AoPushAssumption DEF WriteAvailable, Numbers, Buffered
<1>3. samples <= WriteAvailable
  <2>. DEFINE space == GetSpace(buffer, WriteAvailable, DriverSpace)
              missing == SoftBuffer + Margin - (DeviceBuffer - DriverSpace) - buffer
  <2>1. missing \in Int /\ DriverSpace - buffer \in Int
    BY <1>1, SpaceFits, AoPushAssumption DEF Numbers
  <2>2. space = Larger(0, Smaller(WriteAvailable, Larger(missing, DriverSpace - buffer)))
    BY DEF GetSpace
  <2>3. WriteAvailable \in Nat
    BY <1>1, <1>2, AoPushAssumption DEF Numbers, Buffered
  <2>4. space \in Int /\ space <= WriteAvailable
    <3>. HIDE DEF space, missing
    <3>. QED BY <2>1, <2>2, <2>3 DEF Larger, Smaller
  <2>. QED BY <1>1, <1>2, <2>4 DEF Play
<1>4. write = samples
  BY <1>1, <1>2, <1>3 DEF Smaller
<1>5. /\ buffer' = buffer + samples /\ sent' = sent + samples
      /\ allocated' = allocated
  BY <1>1, <1>2, <1>3, <1>4 DEF Play, Larger, WriteAvailable, Numbers, Buffered
<1>6. still_playing' = TRUE /\ expected_end' = NotSet /\ WakeupPlaythread
  BY <1>1, <1>4 DEF Play
<1>7. cond' = {} /\ need_wakeup' = TRUE /\ pipe' \in BOOLEAN
  BY <1>1, <1>6, WakesAo DEF Play
<1>8. final_chunk' \in BOOLEAN
  BY DEF Play
<1>9. /\ UNCHANGED <<wait_on_ao, terminate, ao, player, core_paused, device,
                     device_paused, faults, written>>
      /\ paused' = FALSE /\ woken' = FALSE /\ ~core_paused
      /\ player = "idle" /\ ao \notin {"fill", "wait"}
  BY DEF Play, PlayerMayLock, driver
<1>10. NotSet \in Nat
  BY AoPushAssumption DEF NotSet
<1>n. Numbers'
  BY <1>1, <1>2, <1>3, <1>5, <1>6, <1>9, <1>10 DEF Numbers, WriteAvailable
<1>f. Flags'
  BY <1>1, <1>6, <1>7, <1>8, <1>9 DEF Flags
<1>p. Places'
  BY <1>1, <1>7, <1>9 DEF Places
<1>b. Buffered'
  BY <1>1, <1>5, <1>6, <1>9 DEF Buffered, Numbers
<1>c. Clock'
  BY <1>1, <1>6, <1>9 DEF Clock
<1>. QED BY <1>n, <1>f, <1>p, <1>b, <1>c, <1>7, <1>9
         DEF IInv, Draining, Waiters, Idle, Sleeping

(* reset(), also at the end of drain(): the buffer and the device are      *)
(* empty then.                                                             *)
LEMMA ClearInv ==
  ASSUME IInv, Clear, player' = "idle", ao \notin {"fill", "wait"}, player # "drain"
  PROVE  IInv'
<1>1. /\ Numbers /\ Flags /\ Places /\ Buffered /\ Waiters /\ Sleeping
      /\ DeviceBuffer \in Nat
  BY AoPushAssumption DEF IInv
<1>2. \/ cond' = {} /\ need_wakeup' = TRUE /\ pipe' \in BOOLEAN
      \/ UNCHANGED <<need_wakeup, cond, pipe>>
  BY WakesAo DEF Clear
<1>3. /\ UNCHANGED <<allocated, final_chunk, wait_on_ao, terminate, expected_end,
                     ao, core_paused, faults, sent, woken>>
      /\ device' = 0 /\ device_paused' = FALSE /\ buffer' = 0 /\ written' = sent
      /\ paused' = FALSE /\ still_playing' = FALSE
  BY DEF Clear
<1>n. Numbers'
  BY <1>1, <1>3 DEF Numbers
<1>f. Flags'
  BY <1>1, <1>2, <1>3 DEF Flags
<1>p. Places'
  BY <1>1, <1>2, <1>3 DEF Places
<1>b. Buffered'
  BY <1>1, <1>3 DEF Buffered, Numbers
<1>w. Waiters'
  BY <1>1, <1>2, <1>3 DEF Waiters
<1>s. Sleeping'
  BY <1>1, <1>2, <1>3 DEF Sleeping, NothingToPlay
<1>c. Clock'
  BY <1>1, <1>3 DEF Clock, Larger, Numbers
<1>. QED BY <1>n, <1>f, <1>p, <1>b, <1>w, <1>s, <1>c, <1>3 DEF IInv, Draining, Idle

(* pause() stops the device and wakes the AO thread.                       *)
LEMMA PauseInv == IInv /\ Pause => IInv'
<1>. SUFFICES ASSUME IInv, Pause PROVE IInv'
  OBVIOUS
<1>1. Numbers /\ Flags /\ Places /\ Buffered /\ Waiters
  BY DEF IInv
<1>2. cond' = {} /\ need_wakeup' = TRUE /\ pipe' \in BOOLEAN
  BY WakesAo DEF Pause
<1>3. /\ UNCHANGED <<buffer, allocated, still_playing, final_chunk, wait_on_ao,
                     terminate, expected_end, ao, player, device, faults, sent,
                     written, woken>>
      /\ paused' = TRUE /\ core_paused' = TRUE /\ device_paused' = TRUE
      /\ player = "idle" /\ ao \notin {"fill", "wait"}
  BY DEF Pause, PlayerMayLock, options
<1>n. Numbers'
  BY <1>1, <1>3 DEF Numbers, NotSet
<1>f. Flags'
  BY <1>1, <1>2, <1>3 DEF Flags
<1>. QED BY <1>n, <1>f, <1>1, <1>2, <1>3
         DEF IInv, Places, Buffered, Draining, Waiters, Idle, Sleeping, Clock

(* resume() starts the device and forgets the expected end.                *)
LEMMA ResumeInv == IInv /\ Resume => IInv'
<1>. SUFFICES ASSUME IInv, Resume PROVE IInv'
  OBVIOUS
<1>1. /\ Numbers /\ Flags /\ Places /\ Buffered /\ Waiters
      /\ NotSet \in Nat
  BY AoPushAssumption DEF IInv, NotSet
<1>2. cond' = {} /\ need_wakeup' = TRUE /\ pipe' \in BOOLEAN
  BY WakesAo DEF Resume
<1>3. /\ UNCHANGED <<buffer, allocated, still_playing, final_chunk, wait_on_ao,
                     terminate, ao, player, device, faults, sent, written, woken>>
      /\ expected_end' = NotSet
      /\ paused' = FALSE /\ core_paused' = FALSE /\ device_paused' = FALSE
      /\ player = "idle" /\ ao \notin {"fill", "wait"}
  BY DEF Resume, PlayerMayLock, options
<1>n. Numbers'
  BY <1>1, <1>3 DEF Numbers
<1>f. Flags'
  BY <1>1, <1>2, <1>3 DEF Flags
<1>. QED BY <1>n, <1>f, <1>1, <1>2, <1>3
         DEF IInv, Places, Buffered, Draining, Waiters, Idle, Sleeping, Clock

(* Steps that change no number: only who waits, is woken and goes on.      *)
LEMMA QuietInv ==
  ASSUME IInv,
         UNCHANGED <<buffer, allocated, paused, still_playing, wait_on_ao,
                     expected_end, core_paused, device, device_paused, faults,
                     sent, written, woken>>,
         final_chunk' \in BOOLEAN, need_wakeup' \in BOOLEAN, pipe' \in BOOLEAN,
         terminate' \in BOOLEAN,
         Places', Draining', Waiters', Idle', Sleeping'
  PROVE  IInv'
<1>1. Numbers /\ Flags /\ Buffered /\ Clock
  BY DEF IInv
<1>n. Numbers'
  BY <1>1 DEF Numbers
<1>f. Flags'
  BY <1>1 DEF Flags
<1>b. Buffered' /\ Clock'
  BY <1>1 DEF Buffered, Clock
<1>. QED BY <1>n, <1>f, <1>b DEF IInv

(* What a place means, for the steps that move one thread only.            *)
Data == <<buffer, allocated, paused, still_playing, final_chunk, wait_on_ao,
          terminate, expected_end, core_paused, stream_silence, device,
          device_paused, faults, sent, written, woken>>

(* drain() resets at once if paused, or announces the end and waits.       *)
LEMMA DrainInv == IInv /\ Drain => IInv'
<1>. SUFFICES ASSUME IInv, Drain PROVE IInv'
  OBVIOUS
<1>1. Flags /\ Places /\ Draining /\ Waiters /\ Idle /\ Sleeping
  BY DEF IInv
<1>2. /\ UNCHANGED <<buffer, allocated, paused, still_playing, wait_on_ao,
                     terminate, expected_end, ao, core_paused, stream_silence,
                     device, device_paused, faults, sent, written, woken>>
      /\ player = "idle" /\ ao \notin {"fill", "wait"}
  BY DEF Drain, PlayerMayLock, driver, options
<1>3. \/ /\ player' = "drainreset"
         /\ UNCHANGED <<final_chunk, need_wakeup, cond, pipe>>
      \/ /\ player' = "drain" /\ final_chunk' = TRUE
         /\ cond' = {} /\ need_wakeup' = TRUE /\ pipe' \in BOOLEAN
  BY <1>2, WakesAo DEF Drain
<1>4. /\ final_chunk' \in BOOLEAN /\ need_wakeup' \in BOOLEAN
      /\ pipe' \in BOOLEAN /\ terminate' \in BOOLEAN
  BY <1>1, <1>2, <1>3 DEF Flags
<1>5. Places' /\ Draining' /\ Waiters' /\ Idle'
  BY <1>1, <1>2, <1>3 DEF Places, Draining, Waiters, Idle
<1>6. Sleeping'
  BY <1>1, <1>2, <1>3 DEF Sleeping, NothingToPlay, Playing, PlaySilence
<1>. QED BY <1>2, <1>4, <1>5, <1>6, QuietInv

(* drain() looks again after a wait.                                       *)
LEMMA DrainLoopInv == IInv /\ DrainLoop => IInv'
<1>. SUFFICES ASSUME IInv, DrainLoop PROVE IInv'
  OBVIOUS
<1>1. Numbers /\ Flags /\ Places /\ Buffered /\ Draining /\ Waiters /\ Idle /\ Sleeping
  BY DEF IInv
<1>2. /\ UNCHANGED <<Data, need_wakeup, ao, pipe>>
      /\ player = "drain" /\ ao \notin {"fill", "wait"}
  BY DEF DrainLoop, PlayerMayLock, p, driver, options, Data
<1>3. \/ cond' = cond \cup {"player"} /\ player' = "drain"
      \/ UNCHANGED cond /\ player' = "draindevice" /\ buffer = 0 /\ "player" \notin cond
  BY <1>1 DEF DrainLoop, Buffered, Numbers
<1>4. Places' /\ Draining' /\ Waiters' /\ Idle'
  BY <1>1, <1>2, <1>3 DEF Places, Draining, Waiters, Idle, Data
<1>5. Sleeping'
  BY <1>1, <1>2, <1>3 DEF Sleeping, NothingToPlay, Playing, PlaySilence, Data
<1>. QED BY <1>1, <1>2, <1>4, <1>5, QuietInv DEF Data, Flags

(* uninit() tells the AO thread to end.                                    *)
LEMMA UninitInv == IInv /\ Uninit => IInv'
<1>. SUFFICES ASSUME IInv, Uninit PROVE IInv'
  OBVIOUS
<1>1. Flags /\ Places /\ Draining /\ Waiters /\ Idle
  BY DEF IInv
<1>2. cond' = {} /\ need_wakeup' = TRUE /\ pipe' \in BOOLEAN
  BY WakesAo DEF Uninit
<1>3. /\ UNCHANGED <<buffer, allocated, paused, still_playing, final_chunk,
                     wait_on_ao, expected_end, ao, core_paused, device,
                     device_paused, faults, sent, written, woken>>
      /\ terminate' = TRUE /\ player' = "join" /\ ao \notin {"fill", "wait"}
  BY DEF Uninit, PlayerMayLock, driver, options
<1>4. Places' /\ Draining' /\ Waiters' /\ Idle' /\ Sleeping'
  BY <1>1, <1>2, <1>3 DEF Places, Draining, Waiters, Idle, Sleeping
<1>. QED BY <1>1, <1>2, <1>3, <1>4, QuietInv DEF Flags

(* The rest of drain() and uninit(), and the end of a wait of either       *)
(* thread.                                                                 *)
Move == \/ DrainTimeout \/ DrainDevice \/ Join
        \/ AoStart \/ AoExit \/ AoAgain \/ AoWaitDevice \/ DeviceWaitEnd
        \/ DeviceWaitError \/ AoTimeout \/ AoResume
        \/ \E t \in {"ao", "player"} : SpuriousWakeup(t)

(* Steps that only move a thread from one place to the next.               *)
LEMMA MoveInv == IInv /\ Move => IInv'
<1>. SUFFICES ASSUME IInv, Move PROVE IInv'
  OBVIOUS
<1>1. /\ Numbers /\ Flags /\ Places /\ Draining /\ Waiters /\ Idle /\ Sleeping
  BY DEF IInv
<1>2. UNCHANGED Data
  BY DEF Move, Data, p, driver, options, DrainTimeout, DrainDevice, Join, AoStart,
         AoExit, AoAgain, AoWaitDevice, DeviceWaitEnd, DeviceWaitError, AoTimeout,
         AoResume, SpuriousWakeup
<1>3. need_wakeup' \in BOOLEAN /\ pipe' \in BOOLEAN
  BY <1>1 DEF Move, Flags, p, DrainTimeout, DrainDevice, Join, AoStart,
         AoExit, AoAgain, AoWaitDevice, DeviceWaitEnd, DeviceWaitError, AoTimeout,
         AoResume, SpuriousWakeup
<1>4. NothingToPlay => NothingToPlay'
  BY <1>2 DEF Data, NothingToPlay, Playing, PlaySilence
<1>5. Places' /\ Draining' /\ Waiters' /\ Idle' /\ Sleeping'
  <2>. USE <1>1, <1>2, <1>4 DEF Places, Draining, Waiters, Idle, Sleeping, Data
  <2>1. CASE DrainTimeout
    BY <2>1 DEF DrainTimeout, p
  <2>2. CASE DrainDevice
    <3>1. player' = "drained" /\ player = "draindevice" /\ device = 0
      BY <2>2 DEF DrainDevice
    <3>2. UNCHANGED <<ao, cond, need_wakeup>>
      BY <2>2 DEF DrainDevice, p
    <3>. QED BY <3>1, <3>2
  <2>3. CASE Join
    BY <2>3 DEF Join, p
  <2>4. CASE AoStart \/ AoAgain
    BY <2>4 DEF AoStart, AoAgain, AoMayLock, p
  <2>5. CASE AoExit
    BY <2>5 DEF AoExit, p
  <2>6. CASE AoWaitDevice
    BY <2>6 DEF AoWaitDevice, p
  <2>7. CASE DeviceWaitEnd \/ DeviceWaitError
    BY <2>7 DEF DeviceWaitEnd, DeviceWaitError, AoMayLock, p
  <2>8. CASE AoTimeout \/ AoResume
    BY <2>8 DEF AoTimeout, AoResume, AoMayLock, p
  <2>9. CASE \E t \in {"ao", "player"} : SpuriousWakeup(t)
    BY <2>9 DEF SpuriousWakeup, p
  <2>. QED BY <2>1, <2>2, <2>3, <2>4, <2>5, <2>6, <2>7, <2>8, <2>9 DEF Move
<1>. QED BY <1>1, <1>2, <1>3, <1>5, QuietInv DEF Data, Flags

(* The AO thread fills the device.  If it finds nothing to wait for, the   *)
(* device has space for all of the soft buffer, and still there was        *)
(* nothing to give to the driver.                                          *)
LEMMA AoFillInv == IInv /\ AoFill => IInv'
<1>. SUFFICES ASSUME IInv, AoFill PROVE IInv'
  OBVIOUS
<1>1. /\ Numbers /\ Flags /\ Places /\ Buffered /\ Draining /\ Waiters /\ Clock
      /\ DeviceBuffer \in Nat /\ NotSet \in Nat
  BY AoPushAssumption DEF IInv, NotSet
<1>2. /\ UNCHANGED <<allocated, paused, final_chunk, need_wakeup, terminate,
                     player, core_paused, cond, pipe, stream_silence, sent>>
      /\ ao = "fill" /\ ao' = "wait" /\ ~terminate
  BY DEF AoFill, options
<1>3. CASE ~Playing /\ UNCHANGED <<driver, buffer, written, expected_end, wait_on_ao,
                                  still_playing, woken>>
  <2>1. ~Playing'
    BY <1>2, <1>3 DEF Playing
  <2>n. Numbers'
    BY <1>1, <1>2, <1>3 DEF Numbers, driver
  <2>f. Flags'
    BY <1>1, <1>2, <1>3 DEF Flags, driver
  <2>. QED BY <1>1, <1>2, <1>3, <2>1, <2>n, <2>f
           DEF IInv, Places, Buffered, Draining, Waiters, Idle, NothingToPlay,
               Sleeping, Clock, driver
<1>4. ASSUME Playing, NEW accepted \in 0 .. Samples,
             faults' = faults + (IF accepted < Samples THEN 1 ELSE 0),
             PlayData(accepted)
      PROVE  IInv'
  <2>. DEFINE taken == IF PlaySilence THEN 0 ELSE Taken(accepted)
  <2>1. /\ accepted \in Nat /\ accepted <= Samples
        /\ Samples \in Nat /\ Samples <= DriverSpace /\ Samples <= Available
        /\ Taken(accepted) \in Nat /\ Taken(accepted) <= Available
        /\ Taken(accepted) = 0 => accepted = 0
        /\ DriverSpace \in Nat /\ DriverSpace <= DeviceBuffer - device
        /\ ~PlaySilence => Available = buffer
    BY <1>1, <1>4, SamplesFit, TakenFits, SpaceFits
  <2>2. taken \in Nat /\ taken <= buffer /\ (taken = 0 \/ taken = Taken(accepted))
    BY <1>1, <2>1 DEF Numbers
  <2>3. /\ device' = device + accepted /\ buffer' = buffer - taken
        /\ written' = written + taken
        /\ device_paused' = (device_paused /\ Samples = 0)
        /\ expected_end' = IF Taken(accepted) > 0 THEN NotSet ELSE expected_end
        /\ wait_on_ao' = (DriverSpace = 0 \/ Taken(accepted) > 0 \/ Stuck(accepted))
        /\ still_playing' = (still_playing \/ taken > 0)
        /\ woken' \in BOOLEAN
    BY <1>1, <1>4 DEF PlayData, Flags
  <2>n. Numbers'
    <3>. HIDE DEF taken
    <3>1. faults' \in Nat
      BY <1>1, <1>4 DEF Numbers
    <3>. QED BY <1>1, <1>2, <2>1, <2>2, <2>3, <3>1 DEF Numbers
  <2>f. Flags'
    <3>. HIDE DEF taken
    <3>. QED BY <1>1, <1>2, <2>3 DEF Flags
  <2>b. Buffered'
    <3>. HIDE DEF taken
    <3>. QED BY <1>1, <1>2, <2>2, <2>3 DEF Buffered, Numbers, Flags
  <2>d. Draining'
    <3>1. player # "draindevice"
      BY <1>1, <1>2 DEF Draining
    <3>2. CASE player = "drained" /\ ~PlaySilence
      BY <1>1, <1>2, <2>1, <2>2, <2>3, <3>2 DEF Draining, Numbers
    <3>3. CASE player = "drained" /\ PlaySilence
      <4>1. stream_silence
        BY <1>4, <3>3 DEF PlaySilence, Playing
      <4>. QED BY <1>1, <1>2, <2>3, <3>3, <4>1 DEF Draining, Numbers
    <3>. QED BY <1>2, <3>1, <3>2, <3>3 DEF Draining
  <2>i. Idle'
    <3>. SUFFICES ASSUME ~wait_on_ao', Playing', ~PlaySilence', faults' = 0
                  PROVE  buffer' = 0 \/ (~final_chunk' /\ Aligned(buffer') = 0)
      BY <1>2 DEF Idle, NothingToPlay
    <3>0. ~(DriverSpace = 0 \/ Taken(accepted) > 0 \/ Stuck(accepted))
      BY <2>3
    <3>1. Taken(accepted) = 0 /\ DriverSpace > 0 /\ ~Stuck(accepted)
      BY <2>1, <3>0
    <3>2. taken = 0 /\ ~PlaySilence /\ buffer' = buffer /\ Available = buffer
      BY <1>1, <1>2, <2>1, <2>2, <2>3, <3>1 DEF PlaySilence, Numbers
    <3>3. Samples = 0
      BY <1>1, <1>4, <2>1, <3>1 DEF Numbers
    <3>4. buffer < DriverSpace
      BY <1>1, <2>1, <3>1, <3>2 DEF Stuck, Numbers
    <3>5. IsFinal = final_chunk /\ Smaller(Available, DriverSpace) = buffer
      BY <1>1, <2>1, <3>2, <3>4 DEF IsFinal, Smaller, Flags, Numbers
    <3>. QED BY <1>2, <3>2, <3>3, <3>5 DEF Samples
  <2>c. Clock'
    <3>1. (paused => core_paused)' /\ (device_paused => paused)'
      BY <1>1, <1>2, <2>3 DEF Clock
    <3>2. CASE Taken(accepted) > 0
      BY <2>3, <3>1, <3>2 DEF Clock
    <3>3. CASE Taken(accepted) = 0
      <4>1. device' = device /\ expected_end' = expected_end
        BY <1>1, <2>1, <2>3, <3>3 DEF Numbers
      <4>. QED BY <1>1, <1>2, <3>1, <4>1 DEF Clock
    <3>. QED BY <2>1, <3>2, <3>3
  <2>. QED BY <1>1, <1>2, <2>n, <2>f, <2>b, <2>d, <2>i, <2>c
           DEF IInv, Places, Waiters, Sleeping
<1>. QED BY <1>3, <1>4 DEF AoFill

(* It found nothing to wait for, and sleeps.                               *)
LEMMA AoWaitInactiveInv == IInv /\ AoWaitInactive => IInv'
<1>. SUFFICES ASSUME IInv, AoWaitInactive PROVE IInv'
  OBVIOUS
<1>1. /\ Numbers /\ Flags /\ Places /\ Buffered /\ Draining /\ Waiters /\ Idle
      /\ Clock /\ ~terminate
      /\ DeviceBuffer \in Nat /\ Latency \in Nat
      /\ NotSet = DeviceBuffer + SoftBuffer + Latency + Excess + 1
      /\ SoftBuffer \in Nat /\ Excess \in Nat
  BY AoPushAssumption DEF IInv, NotSet, AoWaitInactive, Idle
<1>2. /\ UNCHANGED <<buffer, allocated, paused, final_chunk, need_wakeup, terminate,
                     wait_on_ao, player, core_paused, pipe, stream_silence, device,
                     device_paused, faults, sent, written>>
      /\ ao = "wait" /\ ~need_wakeup /\ ao' \in {"timed", "idle"}
      /\ still_playing' = (still_playing /\ ~Expired)
      /\ expected_end' = IF Ending /\ expected_end = NotSet THEN Delay
                                                            ELSE expected_end
      /\ woken' = (woken \/ Expired)
  BY DEF AoWaitInactive, driver, options
<1>3. Ending => buffer = 0 /\ Delay = device + Latency
  BY <1>1 DEF Ending, Delay, DriverDelay, Numbers
<1>4. cond' \subseteq cond \cup {"ao"}
  BY DEF AoWaitInactive
<1>n. Numbers'
  BY <1>1, <1>2, <1>3 DEF Numbers
<1>f. Flags'
  BY <1>1, <1>2 DEF Flags, Expired, Ending
<1>p. Places' /\ Draining' /\ Waiters' /\ Idle'
  BY <1>1, <1>2, <1>4 DEF Places, Draining, Waiters, Idle
<1>b. Buffered'
  BY <1>1, <1>2, <1>3 DEF Buffered, Expired
<1>s. Sleeping'
  <2>1. NothingToPlay
    BY <1>1, <1>2 DEF Idle, AoWaitInactive, NothingToPlay
  <2>2. NothingToPlay'
    <3>1. CASE Expired
      BY <1>2, <1>3, <3>1 DEF Expired, NothingToPlay
    <3>2. CASE ~Expired
      BY <1>1, <1>2, <2>1, <3>2 DEF NothingToPlay, Playing, PlaySilence, Flags
    <3>. QED BY <3>1, <3>2
  <2>. QED BY <1>1, <1>2, <2>2 DEF Sleeping
<1>c. Clock'
  BY <1>1, <1>2, <1>3 DEF Clock, Numbers, Larger
<1>. QED BY <1>n, <1>f, <1>p, <1>b, <1>s, <1>c DEF IInv

(* Time passes: a device that is not paused plays.                         *)
LEMMA TickInv == IInv /\ Tick => IInv'
<1>. SUFFICES ASSUME IInv, Tick PROVE IInv'
  OBVIOUS
<1>1. /\ Numbers /\ Flags /\ Places /\ Buffered /\ Draining /\ Waiters /\ Idle
      /\ Sleeping /\ Clock /\ DeviceBuffer \in Nat /\ NotSet \in Nat
  BY AoPushAssumption DEF IInv, NotSet
<1>2. /\ UNCHANGED <<buffer, allocated, paused, still_playing, final_chunk,
                     need_wakeup, wait_on_ao, terminate, ao, player, core_paused,
                     cond, pipe, stream_silence, device_paused, faults, sent,
                     written, woken>>
      /\ device' = IF device > 0 /\ ~device_paused THEN device - 1 ELSE device
      /\ expected_end' = IF expected_end \in 0 .. NotSet - 1
                         THEN expected_end - 1 ELSE expected_end
  BY DEF Tick, options
<1>n. Numbers'
  BY <1>1, <1>2 DEF Numbers
<1>f. Flags'
  BY <1>1, <1>2 DEF Flags
<1>p. Places' /\ Buffered' /\ Waiters' /\ Idle' /\ Sleeping'
  BY <1>1, <1>2 DEF Places, Buffered, Waiters, Idle, Sleeping, NothingToPlay,
                    Playing, PlaySilence
<1>d. Draining'
  BY <1>1, <1>2 DEF Draining, Numbers
<1>c. Clock'
  BY <1>1, <1>2 DEF Clock, Numbers, Larger, Flags
<1>. QED BY <1>n, <1>f, <1>p, <1>d, <1>c DEF IInv

(* Every step keeps the invariant: one lemma per action above.             *)
LEMMA StepInv == Excess = 0 /\ IInv /\ [Next]_vars => IInv'
<1>. SUFFICES ASSUME Excess = 0, IInv, [Next]_vars PROVE IInv'
  OBVIOUS
<1>1. CASE UNCHANGED vars
  <2>1. UNCHANGED <<Data, need_wakeup, pipe, ao, player, cond>>
    BY <1>1 DEF vars, p, driver, options, Data
  <2>. QED BY <2>1, QuietInv
           DEF IInv, Data, Flags, Places, Draining, Waiters, Idle, Sleeping,
               NothingToPlay, Playing, PlaySilence
<1>2. ASSUME NEW samples \in 1 .. MaxSamples, NEW final \in BOOLEAN,
             Play(samples, final)
      PROVE  IInv'
  BY <1>2, PlayInv
<1>3. CASE Reset
  BY <1>3, ClearInv DEF Reset, PlayerMayLock
<1>4. CASE Pause
  BY <1>4, PauseInv
<1>5. CASE Resume
  BY <1>5, ResumeInv
<1>6. CASE Drain
  BY <1>6, DrainInv
<1>7. CASE Uninit
  BY <1>7, UninitInv
<1>8. CASE DrainLoop
  BY <1>8, DrainLoopInv
<1>9. CASE DrainReset
  BY <1>9, ClearInv DEF DrainReset, PlayerMayLock
<1>10. CASE AoFill
  BY <1>10, AoFillInv
<1>11. CASE AoWaitInactive
  BY <1>11, AoWaitInactiveInv
<1>12. CASE Tick
  BY <1>12, TickInv
<1>13. CASE Move
  BY <1>13, MoveInv
<1>. QED BY <1>1, <1>2, <1>3, <1>4, <1>5, <1>6, <1>7, <1>8, <1>9, <1>10, <1>11,
            <1>12, <1>13
         DEF Next, PlayerCall, DrainStep, AoStep, Done, Move

-----------------------------------------------------------------------------
(* The invariant holds as long as the player respects get_space().         *)
LEMMA Invariance == Excess = 0 => (Spec => []IInv)
<1>. SUFFICES ASSUME Excess = 0 PROVE Spec => []IInv
  OBVIOUS
<1>1. Init => IInv
  BY InitInv
<1>2. IInv /\ [Next]_vars => IInv'
  BY StepInv
<1>. QED BY <1>1, <1>2, PTL DEF Spec

(* Of a player that gives play() no more than get_space() allows, every    *)
(* sample that was accepted is in the soft buffer or has left it, exactly  *)
(* once, and drain() that ran to its end has nothing to throw away.        *)
THEOREM SamplesAreCounted == Excess = 0 => (Spec => []SamplesOnce)
<1>. SUFFICES ASSUME Excess = 0 PROVE Spec => []SamplesOnce
  OBVIOUS
<1>1. IInv => SamplesOnce
  <2>. SUFFICES ASSUME IInv PROVE SamplesOnce
    OBVIOUS
  <2>. QED BY Typed DEF IInv, Buffered, Draining, SamplesOnce
<1>. QED BY <1>1, Invariance, PTL

(* The AO thread sleeps only while there is nothing for it to do.          *)
THEOREM NoWakeupLost == Excess = 0 => (Spec => []NoLostWakeup)
<1>. SUFFICES ASSUME Excess = 0 PROVE Spec => []NoLostWakeup
  OBVIOUS
<1>1. IInv => NoLostWakeup
  <2>. SUFFICES ASSUME IInv, ao \in {"idle", "timed"}, "ao" \in cond
                PROVE  /\ ~need_wakeup /\ ~terminate
                       /\ Playing /\ ~PlaySilence /\ faults = 0 => Samples = 0
    BY DEF NoLostWakeup
  <2>1. ~need_wakeup /\ ~terminate /\ NothingToPlay
    BY DEF IInv, Sleeping
  <2>2. ASSUME Playing, ~PlaySilence, faults = 0
        PROVE  Samples = 0
    <3>1. /\ Samples \in Nat /\ Samples <= Available /\ Available = buffer
          /\ buffer \in Nat /\ DriverSpace \in Nat
      BY <2>2, SamplesFit, SpaceFits DEF IInv, Numbers
    <3>2. CASE buffer = 0
      BY <3>1, <3>2
    <3>3. CASE ~final_chunk /\ Aligned(buffer) = 0
      <4>. DEFINE n == Smaller(Available, DriverSpace)
      <4>1. n \in Nat /\ n <= buffer
        BY <3>1 DEF Smaller
      <4>2. Aligned(n) = 0
        BY <3>1, <3>3, <4>1, AlignedNothing
      <4>. QED BY <3>3, <4>2 DEF Samples, IsFinal
    <3>. QED BY <2>1, <2>2, <3>2, <3>3 DEF NothingToPlay
  <2>. QED BY <2>1, <2>2
<1>. QED BY <1>1, Invariance, PTL

(* The end is reported not before the device has played everything.        *)
THEOREM EndIsNotEarly == Excess = 0 => (Spec => EofNotEarly)
<1>. SUFFICES ASSUME Excess = 0 PROVE Spec => EofNotEarly
  OBVIOUS
<1>1. IInv /\ [Next]_vars =>
        [ao = "wait" /\ still_playing /\ ~still_playing' => buffer = 0 /\ device = 0]_vars
  <2>. SUFFICES ASSUME IInv, Next, ao = "wait", still_playing, ~still_playing'
                PROVE  buffer = 0 /\ device = 0
    OBVIOUS
  <2>1. AoWaitInactive
    BY DEF Next, PlayerCall, Play, Reset, Pause, Resume, Drain, Uninit, PlayerMayLock,
           DrainStep, DrainLoop, DrainDevice, DrainReset, DrainTimeout, Join, AoStep,
           AoStart, AoFill, AoExit, AoAgain, AoWaitDevice, DeviceWaitEnd, AoResume,
           DeviceWaitError, AoTimeout, SpuriousWakeup, Tick, Done, p, vars
  <2>2. Expired
    BY <2>1 DEF AoWaitInactive
  <2>3. buffer = 0 /\ ~paused /\ expected_end < 0
    BY <2>2 DEF Expired, Ending
  <2>4. /\ expected_end \in Int /\ expected_end # NotSet /\ device \in Nat
        /\ device <= Larger(expected_end, 0)
    BY <2>3, AoPushAssumption DEF IInv, Numbers, Clock, NotSet
  <2>. QED BY <2>3, <2>4 DEF Larger
<1>. QED BY <1>1, Invariance, PTL DEF Spec, EofNotEarly
=============================================================================
