# Models and proofs of the player's concurrent core

This directory specifies, in TLA+, the parts of the player in which several
threads share state: who may touch it when, what they may rely on, and what
must still be true after the orders of events that no test produces.  The
models are translated from the C code at the lines that `PROJECT.json` names
for each definition ("map").  TLC checks them on small instances ("runs"), and
TLAPS proves the most important properties for all instances ("theorems").

* `tlc -config <run>.cfg <module>.tla` checks a run,
* `tlapm <module>.tla` checks the proofs of a module whose name ends in `Proofs`.

Paths below are relative to `src/`.

## 1. The system

The player is a set of threads around a *core* thread that runs playback:

    clients, scripts, IPC --- client API --+
    window / VO drivers ------ dispatch ---+--> core --- vo_queue_frame --> VO thread
    opener thread -------- open_done ------+      |----- ao_play ---------> ring --> audio callback
    input sources ---------- input queue --+      |                       \> push --> AO thread
                                                  |
                                                  +--- demux_read_packet <-- cache <-- demuxer thread <-- stream cache thread

| part | state | operations | talks to | hard behaviour | what makes it correct |
|---|---|---|---|---|---|
| dispatch queue, `misc/dispatch.c` | list of items, stack of `lock_frame`s, `idling`, `lock_request`, `interrupted` | `queue_process`, `enqueue*`, `run`, `cancel_fn`, `lock`, `unlock`, `interrupt` | core, VO, window threads, every client | nested `queue_process` by callbacks and lock holders, one condition variable for everybody, items on the stack of a caller, `wakeup_fn` called without the mutex | one thread at a time owns the target's state; no wakeup is lost; `run` is served once, before it returns; locks are granted |
| packet cache, `demux/demux.c` | per range and stream a queue with readers, keyframe ranges and an index; byte counts; pending seek | demuxer thread: seek, fill, prune; player: read, seek, select a track, flush | core (condition variable), demuxer implementation (called with the lock released) | results of a read that arrive after a seek; joining of ranges; refresh seeks; pruning; eviction | cached packets have no gap and no repetition; accounting and pointers are consistent; a range that claims a time can be sought to; a reader gets what follows |
| pull audio output, `audio/out/pull.c`, `misc/ring.c` | one ring per plane with two atomic positions; atomic `state`, `draining`, `underflow` | player: play, pause, resume, reset, drain; callback: `ao_read_data` | core by `wakeup_cb`; the audio API | no lock at all; planes are written and read one after the other; spin lock by compare and exchange | channels stay aligned, samples arrive once and in order, no copy overlaps another, a stopped device is silent |
| push audio output, `audio/out/push.c` | `audio_buffer`, `paused`, `still_playing`, `final_chunk`, `need_wakeup`, `expected_end_time` | play, reset, pause, resume, drain; AO thread | core, driver's own wait | waits on a condition variable or in the driver, end of playback guessed by time | drain and the AO thread never wait for each other; final data is played |
| VO core, `video/out/vo.c` | queued and current frame, `wakeup_pts`, `rendering`, `request_redraw`, `dispatch` | queue, redraw, reset, pause, control; VO thread | core by `wakeup_core`, driver | lock released while drawing; wakeups by time | a frame that was accepted is rendered or forgotten; who waits for readiness is woken |
| stream cache, `stream/cache.c` | ring of bytes, positions, one `control` request | read, seek, control; cache thread | demuxer thread, stream | aborted waits leave requests behind; reads with the lock released | bytes at a position are the stream's; a control is executed for the one who waits |
| client API, `player/client.c` | per client: ring of events, reserved replies, observed properties, `need_wakeup` | requests, `mpv_wait_event`, observe, destroy | core by dispatch | two locks per client; destruction with requests in flight | a reserved reply always fits; no event is lost unnoticed; nothing refers to a destroyed client |
| playback core, `player/loadfile.c`, `playloop.c`, ... | `MPContext` | open, play, seek, close | all of the above | mostly one thread; an opener thread (`loadfile.c:806`) | published results are complete |
| thread pool, rendezvous, `misc/` | work list; list of waiters | queue, destroy; exchange | decoders, creation of threads | one condition variable | all work is done before the pool ends; values are swapped pairwise |
| input, options, logging, image pool, subtitles, OSD | queues and tables under one mutex each | many | core | little: every operation is one critical section | see the code |
| demuxers, streams, filters, decoders, drivers, the Direct3D edge fusion output (`video/out/multid3d`) | formats and external APIs | | | data, not protocols | outside of what a model checker can say |

`PROJECT.json` has a row for every one of these, and under "hazards" the places
at which their hard behaviour bites, with the properties that cover it.

## 2. Modules

| module | what it is |
|---|---|
| `CoreAccess` | what the dispatch queue promises to its users: an owner and the state of each synchronous call, nothing else |
| `Dispatch` | `misc/dispatch.c`, one action per critical section, and its properties |
| `DispatchProofs` | proofs about `Dispatch`: exclusive access, the assertions, the item on the stack of `mp_dispatch_run()`, that no wakeup is lost, and that it implements `CoreAccess` |
| `CacheRanges` | the data structure of `demux/demux.c` as operators from state to state, one per C function |
| `CacheRangesProofs` | lemmas about the operators of `CacheRanges` |
| `DemuxCache` | demuxer thread and player as actions over `CacheRanges`, and the properties |
| `CacheProofs` | proofs about `DemuxCache` |
| `AoPull` | `audio/out/pull.c` over `misc/ring.c`, one access to shared memory per action |
| `AoPullProofs` | proofs about `AoPull` |
| `AoPush` | `audio/out/push.c`: the player, the AO thread, the device and time |
| `AoPushProofs` | proofs about `AoPush` |
| `Vo` | `video/out/vo.c`: the player's calls, the VO thread, the window and time |
| `VoProofs` | proofs about `Vo` |
| `ClientApi` | `player/client.c` and the log buffer of `common/msg.c`: one client and the core |
| `ClientProofs` | proofs about `ClientApi` |
| `ByteStream` | what the stream cache promises to its reader: a file with a position |
| `StreamCache` | `stream/cache.c`: the cache thread and the reader, over a ring of bytes |
| `StreamCacheProofs` | proofs about `StreamCache`, and that it implements `ByteStream` |
| `MC...` | the modules that TLC is given; they hold the values of constants that a `.cfg` cannot express, and the files for the demuxer |

Operators named `Mut_...` stand next to the definition they change and are used
by no specification.  Each is a plausible mistake in the C code; putting it in
place of the definition makes TLC find the property that `PROJECT.json` lists
with it ("mutants") violated.

A thread that waits on a condition variable is in a set (`cond`) or has a flag
(`asleep`); a broadcast empties the set, a signal removes one member, and
spurious wakeups are actions.  Time is relative: a variable that stands for a
point of time holds the ticks that are left until it, and `Tick` takes one off
all of them, so that no clock has to be bounded.

### Dispatch

Every function of `dispatch.c` holds `queue->lock` while it touches the queue.
A step is therefore what happens from one acquisition of the mutex to the next
release or wait.  Callbacks, `wakeup_fn` and user code are the states between
steps: `pc[t] = "user"` is a thread outside of the file *or inside a callback*,
and which of the two follows from `calls` and `frame`.  `cond` is the set of
threads blocked on the condition variable: a broadcast empties it, a spurious
wakeup or a timeout removes one.  The item of `mp_dispatch_run()` is named after
its client because it is on that client's stack; `StackItemRefs` counts what
refers to it.  `Sleep` is a target that waits on a primitive of its own between
two calls, as the VO and window threads do, and must be woken by `wakeup_fn`;
`awake` is the memory of that primitive.

`Loop` is the body of the `while (1)` of `mp_dispatch_queue_process()`.  It is
shared by the four places at which the code arrives at it (entry, end of either
wait, end of a callback), each with its own assignments before it.

`ImplementsCoreAccess` is the refinement: `owner` is the thread that may touch
the target's state (`Owns`), `call` is read from the item and its completion.

### CacheRanges and DemuxCache

The functions of `demux.c` call each other deeply, and all of them run with
`in->lock` held.  They are operators that take and return the record `in`
(`struct demux_internal`).  A pointer to a packet is its position in the queue
and 0 is `NULL`; removing the head shifts the positions, which is where a stale
pointer would show.  Time is in tenths of a second because the code adds 0.1 to
`last_pruned`.  Every packet has one byte and one timestamp, which also stands
for its file position, so that `correct_dts` and `correct_pos` are one flag.

`DemuxCache` cuts the demuxer thread at the one place where the lock is
released, the call of `fill_buffer()`: `FillBuffer`, then `DemuxAddPacket`,
then `ReadPacketEnd`, with steps of the player between any two.  The player
reads, seeks, flushes and selects tracks.  `reader` is a history of what it got
since its last seek; the properties compare it with the file.

Left out: packets without timestamps, attached pictures, segments and streams
that appear during playback; tags, bitrates and `run_fn`; and sleeping on
`in->wakeup`: the thread does what it can at any time, as it could after a
spurious wakeup, so the safety properties cover every schedule, but nothing is
said about liveness.

### AoPull

A step contains at most one access to what the other thread writes.  A `memcpy`
is the interval between `WriteBegin` and `WriteEnd` (or `ReadBegin` and
`ReadEnd`), which are the load that fixes its length and the store that
publishes it.  That nothing is visible in between is not assumed but stated:
`NoCellRace`.  The only stores that are merged are the two of
`mp_ring_reset()`; `ResetExclusive` says that no callback runs then.

Samples are numbered.  `sent` counts what `play()` took, `heard` what callbacks
returned or a reset threw away, and `FramesInOrder` compares the two on every
plane.  The driver is external: it calls `ao_read_data()` when it runs
(`running`).  Format conversion and `get_delay()` change no shared state and are
left out.

### AoPush

Every function of `push.c` holds `p->lock`, so a call of the player is one step;
only `drain()` has several, because it waits.  The AO thread holds the lock from
one wait to the next: `ao = "fill"` and `"wait"` are places inside of that
section (`ao_play_data()`, then the decision how to wait), at which the player
cannot take a step.  The decision is split by its outcome: `AoWaitInactive` (the
condition variable, with the end of the sound as time limit or with none),
`AoWaitDevice` (in the driver, or by a guessed time if it has no `wait`) and
`AoAgain`.  `Signal` wakes one of the threads that wait on `p->wakeup`: the player
and the AO thread share it for different conditions.

Samples are only counted.  `buffer` is the soft buffer, `device` the driver's; a
`Tick` plays one sample.  The driver may take less than it is given, `MaxFaults`
times.  Whether it has a wait of its own (`has_wait`) and whether silence is
streamed are chosen at the start.  `sent` and `written` are history variables.

`control()`, `get_delay()` and `ao_play_silence()` change nothing of this state.

### Vo

Each call of the player holds `in->lock` and is one step; the ones that wait
(`vo_wait_frame()`, `vo_reconfig()`, `vo_destroy()`) are places of `core`.  The VO
thread is cut where it takes or releases the lock: `RenderBegin` to the unlock at
`vo.c:868`, then `Draw` and the flip without it (`vo = "draw"`, `"flip"`), `RenderEnd`
from the lock at 880, `AfterRender` for what `vo_thread()` decides before it
sleeps, `DoRedraw` and `RedrawDraw` in the same way.  A frame is a record of what
the code looks at: display synced or timed, repetitions left, ticks until its
time and its end.  `woken` is the wakeup that the core got; `awaiting` remembers
what the VO promised one for.  A call by way of the dispatch queue is a step of the
VO thread while the player waits (`Process`), as `CoreAccess` allows.

There are two workloads, because what they do does not interact but multiplies
the states: timed frames with seeks and changes of format, or display synced frames with
pauses, changes of the OSD and a window that is exposed.

Left out: untimed drivers, resizing while live, statistics of vsyncs, images
allocated by the driver, asynchronous controls, and the 1000 s after which the
thread wakes up when it has nothing to do.

### ClientApi

`ctx` is `struct mpv_handle`.  A function that holds `ctx->lock` throughout is one
step.  `wait_wakeup()` is the delicate place: it gives up `ctx->lock` before it takes
`wakeup_lock` and looks at `need_wakeup`, so `client = "unlocked"` is a state of its
own in which the core can do anything.  What the client asks of the core is in `dispatch`,
and the core runs it one call at a time; the retrieval of a property's value
(`GetProperty`) and its delivery (`Update`) are two steps because the client's lock
is not held in between.

`gen_property_change_event()` is a loop over the observers that changes each of them
once at most, so it is modelled by where it stops (`Stop`), whose values it asks for
(`Asked`) and whom it tells, not as a loop; likewise the marking of the observers when
the property changes (`NotifyProperty`).  The calls it queues are in the order of the
observers (`InOrder`).

A client either blocks in `mpv_wait_event()` or calls it when its wakeup callback was
called (`style`).  There are three workloads: broadcast events, log messages,
and a property that changes with observers that come and go; requests, timeouts,
`mpv_wakeup()` and the shutdown occur in each of them.  `got` is a history of what the
client was told.  Memory that is freed stays visible as such (`memory`), so that
its use can be stated.

Left out: several clients and their names, event masks, hooks, setting and
getting properties synchronously, and the conversion of values.

### StreamCache and ByteStream

`s` is `struct priv`; functions with `s->mutex` held are operators from state to
state.  The cache thread drops the mutex while it reads from the stream, into
the ring: between `BeginRead` and `FinishRead` the slots it writes to hold `Junk`, and the
reader may read and seek.  The reader's calls wait at `reader.at = "asleep"`; when
they are woken they go on where the loop of the C function does.  Bytes are
counted in units of `FILL_LIMIT`, and a byte of the file is its own offset, so that
any wrong byte is seen.  Slots outside of the cached range are set to `Junk` too
(`Forget`): nobody may rely on them, and it keeps the states few.

`IsByteStream` is the refinement: with the position of `stream_t` and the last
result as they are, everything the reader can observe is a behaviour of
`ByteStream`.

A read of the stream may return less than it was asked for, and nothing at its end, after
the cancellation, or if it fails (`stream.c:366`).  `ByteStream` tells these apart: from the
first failed read on, and after a cancellation, an empty read may come before the end.  The reader goes
on to call functions of a cancelled stream, but for reads, which `stream.c:375` refuses.

Left out: files that grow, start times, metadata and speed (copies of values), and a
`malloc` that fails.

## 3. Runs

| run | instance | what it shows |
|---|---|---|
| `dispatch_core` | target and 2 clients, nesting 2, 1 item, no `wakeup_fn` | exclusive ownership, the assertions of `queue_process()`, `lock()` and `unlock()`, one reference to a stack item until it is completed and none after, no lost wakeup, refinement of `CoreAccess`; locks are granted and `mp_dispatch_run()` returns, also with nested invocations |
| `dispatch_wakeup` | the same with `wakeup_fn`, nesting 1 | a sleeping target with work or a lock request was or will be woken; locks are granted and `mp_dispatch_run()` returns |
| `demux_ranges` | video and audio, 6 s, 2 seeks or flushes, 2 ranges at most, imprecise demuxer | ranges are left, resumed, joined and evicted; the cache stays continuous and accounted for, a range that claims to be seekable has a keyframe at or before the time in every stream, a seek delivers one, and no packet is delivered twice |
| `demux_prune` | video, audio, subtitles, 1 seek, 1 selection; with seekable cache (back buffer 3, forward limit 6) and without | pruning keeps counts and readers; a stream enabled during playback gets its packets and the others lose and repeat none; packets and an EOF from before a seek have no effect after it |
| `demux_join_eof` | as `demux_ranges`, precise | **violation** of `EofIsEnd`, see below |
| `demux_prune_assert` | as `demux_prune`, back buffer 1, all streams selected | **violation** of `PruneFindsPacket`, see below |
| `aopull` | 2 planes of 3 samples, chunks of 3, 6 samples sent | no race on a cell, samples in order and none discarded by a drain, silence after a stop, `CallsReturn` and `LowBufferWakes` |
| `aopull_underflow` | 1 plane | **violation** of `UnderflowCounted`, see below |
| `ao_push` | soft buffer 3, device 4, period 2, 5 samples, one driver fault | samples are played once; no wakeup is lost on the shared condition variable; the end of the sound is reported neither early nor never; a dry device asks for data; `drain()` and `uninit()` return |
| `vo` | frames up to 1 tick ahead, of up to 1 tick or 2 vsyncs; both workloads | a frame is queued only when there is room, also while one is drawn without the lock; the VO thread never sleeps over work; the player gets every wakeup it was promised; calls return; redraws reach the screen |
| `client` | queue and log of 2, 2 observers, 3 messages, 2 requests, 2 changes; all workloads | a reply always fits; nothing is freed in use; losses are announced, replies come in order and once; the last value of a property is told to a client that looks for it; nothing readable stays unread; requests are answered and the shutdown ends |
| `stream_cache` | file of 5 in a ring of 4, 2 seeks or controls, 1 failure, 1 cancellation, 5 kinds of stream | the cached range is in the buffer while the thread writes and resizes it; a request does not outlive its call unless that is cancelled; refinement of `ByteStream`; calls return or end in the assertion of `cache.c:393` |

A type invariant is part of the first invariant of each run where it is not a
theorem: of `CacheConsistent`, `SamplesOnce`, `QueueAsserted`, `RepliesReserved` and
`BufferHolds`.

### Bounds

* **Dispatch.**  `MaxDepth` and `MaxItems` bound the stack and the list.  Two
  clients are the least with one holding the lock while the other asks for it;
  two frames are the least in which an invocation is suspended below another.
  The proofs need neither bound, so these values only have to be large enough
  for the properties that are not proved: those speak of one item, one request
  or one waiter at a time.  With `wakeup_fn` the nesting is 1: what that run adds is a target
  that sleeps on a primitive of its own, which it does outside of all invocations only.
  The destructor's assertions (`dispatch.c:70-73`) are about how the queue's owner ends
  its users and are not modelled.
* **Demuxer.**  `MaxSeeks` and `MaxSelects` bound what the player does after the
  start.  Two seeks make three ranges, one more than `MaxSeekRanges`, so that
  eviction, resuming and joining all happen.  The file has three keyframe
  groups of video; `MaxIndex` 2 makes the index overflow at the third.  The back
  buffer of 3 and the forward limit of 6 packets are both hit.
* **AoPull.**  `Size` 3 with chunks of 1 to 3 makes every alignment of a chunk
  with the end of the ring; `MaxSamples` 6 lets the positions pass the end of
  the ring twice.  With one plane the order of planes would not matter, with
  two it does; more are covered by the proofs.
* **AoPush.**  The device holds two periods, the least with which a rest that is
  shorter than a period stays in the soft buffer; the 64 samples of slack are
  `Margin` 1.  Five samples are more than either buffer.  `Excess` 0 says that
  the player gives `play()` no more than `get_space()` allows, which it does not.
* **Vo.**  One frame is current and one queued, so frames of one tick that are at
  most one tick early meet all orders of two times.  Two vsyncs is the least
  number that is repeated.
* **ClientApi.**  A queue of two fits one event and one reserved reply; three
  messages overflow it.  Two observers are the least with which one is removed
  while another is being updated, and `lowest_changed` moves.
* **StreamCache.**  The file is larger than the ring, the ring is larger than the back
  buffer, and a read of two units can wrap.  Targets 0, 2 and 4 are seeks to what is
  cached, short seeks forward and seeks that drop the cache, from various positions.
  The five setups (`MCSetups`) combine streams that seek or do not, know their size or do not,
  and have a `seek_min` or none, with one kind of control each; the one failure is of a read
  or of a seek or control.

### Fairness

* **Dispatch** (`LiveSpec`).  A thread that can proceed does: mutexes are
  granted in the end and a broadcast wakes all waiters (weak fairness of
  `Resume`, `WakeupFn`, `RunWait`, `LockWait`).  User code that owns the target
  ends: the innermost callback or locked section is finite (`Finish`), and a target that
  is free returns to `queue_process` (`Serve`); both are strongly fair because the
  code may run other calls first.  Timeouts and spurious wakeups are *not* fair, the
  properties hold without them.  For `mp_dispatch_run()` `CallsReturn` excludes clients that
  lock over and over (`LockedForever`): an unlock followed by a lock can always overtake
  the target, in the code as in the model; and nested invocations that never come to an
  end (`NestedForever`), below which the callback that runs is not completed.
* **AoPull** (`FairSpec`).  Both threads run, the device calls back as long as it
  runs, and `drain()` has a timeout.  `SetState` is strongly fair: the callback
  is BUSY for a small part of its period, so the spinning player's compare and
  exchange gets its turn.
* **DemuxCache** has no fairness and no liveness property.
* **AoPush** (`FairSpec`).  The AO thread and a waiting `drain()` get the mutex
  when they are awake (strong fairness, as others may take it first), time
  passes, and time limits of the AO thread expire.  Neither spurious wakeups nor the
  time limit of `drain()` nor any call of the player are promised.
* **Vo** (`FairSpec`).  Both threads proceed when they can and time passes.
  `Iterate`, the player's look at a requested redraw, happens again and again
  because the playloop is run on every wakeup.  Spurious wakeups and events of
  the window are not promised.
* **ClientApi** (`FairSpec`).  The core runs what it was given, and a client in
  `mpv_wait_event()` proceeds and calls it again; it leaves when the event tells it to.
  No timeout is promised, so what is told is told by wakeups.
* **StreamCache** (`FairSpec`).  Both threads proceed, also in their calls of the
  stream.  The 1.0 s (`CACHE_WAIT_TIME`) after which a waiting reader looks at the cancel flag is part
  of it only when there is something to see; the thread's own timeout is not.

The runs `client` and `stream_cache` do not check for deadlock: after the shutdown, and after
`cache_uninit()` or the failed assertion described below, nothing is left to do.

### What the violated runs show

* `demux_join_eof` (`demux.c:1029`).  Joining appends the next range's packets to
  a queue.  If the stream's reader had read everything, `reader_head` is `NULL`
  and stays so, while the demuxer is sent behind the joined packets: the reader
  never gets them and is told EOF.
* `demux_prune_assert` (`demux.c:1340`).  Pruning a queue to nothing clears
  `seek_start` but not `seek_end`.  With a pruned subtitle stream the range can
  remain "seekable" without having a packet left, and the next pruning fails the
  assertion of line 1324.
* `aopull_underflow` (`pull.c:156`).  `ao_read_data()` tests for an underflow after
  it clamped the request to what is there, so `underflow` is never raised and
  the warning in `play()` never printed.

### Disagreements found with other bounds

These were met while choosing the bounds above, which avoid them, or are excluded
by a condition of the property.  What shows each one is named.

* `RangesSeekable` and `SeekCovers`, `max_bytes` 6 and `max_bytes_bw` 3 in `demux_ranges`
  (`demux.c:1340`, `demux.c:413`): as in `demux_prune_assert`, a range claims times for which a
  pruned stream has no keyframe, and a seek there starts in the middle.
* `RangesSeekable`, in `demux_prune` (`demux.c:571`):
  `update_seek_ranges()` runs before `eager` is recomputed, so a stream that was
  just enabled does not restrict the ranges until its next keyframe.
* `SeekCovers`, without seekable cache and with `MaxSelects` 2 (`demux.c:2337`): a
  seek does not end a refresh, and the first packet after it is dropped.
* `CacheConsistent`, a sparse stream with a pause of more than a second
  (`demux.c:1121`): a refresh that goes back one second meets only a new subtitle
  and drops it as the last of the old ones.
* `ReadsAdvance`, a sparse stream, `Imprecise` TRUE and `MaxSeeks` 3 (`demux.c:1015`
  `q1->last_dts = q2->last_dts`): joining with a range whose subtitle queue is empty forgets
  where the current queue ends, and if the demuxer then lands early the player gets
  subtitles again.
* "`mp_dispatch_run()` runs the callback on the target thread" (`dispatch.c:224`):
  a lock holder that calls `queue_process`, which lines 328-330 allow, runs it
  itself.
* `EofReported`, `Latency` 0 (`push.c:379-397`; `internal.h:153` "Return true if audio
  has stopped in any way"): with a delay of 0 the time that is left is 0, which the AO thread
  takes for "no limit", and it waits until somebody else wakes it.
* `SamplesOnce`, `Excess` 1 (`push.c:240`): `play()` appends all samples and reports
  `write_samples` of them; what it was given beyond `get_space()` is sent again.
* `EveryRedrawDrawn` (`vo.c:903`; 1054 "Make the VO redraw the OSD at some point
  in the future"): `render_frame()` clears `request_redraw` after drawing, also
  a request that came while it was drawing the old OSD.
* `EveryExposeDrawn` (`vo.c:990`; `vo.h:405` "redraw as soon as possible"): a
  `want_redraw` that the player left to the next frame stays set when it pauses,
  and later ones do not wake it.
* `NoRedraw` TRUE, or a redraw before the first configuration: `do_redraw()` (`vo.c:921`)
  returns without clearing `request_redraw`, and the VO thread goes round without sleeping.
* `EveryUpdateAlive` (`client.c:1369` "make sure it's not freed while in use"): an
  observer whose update was queued twice is freed between the two.
* `ShutdownTold` (`client.h:1112` "mpv_wait_event() will always return instantly (returning
  new shutdown events ...)", `main.c:162`): a shutdown event that finds the queue
  full is dropped, and sent again only when something wakes the core.
* `ValueTold` without `WillLook` (`client.h:1578` "should be called when there are new
  events"): `mpv_observe_property()` neither wakes a client that another of its threads has
  waiting, nor calls the wakeup callback for the first value; who relies on it waits for
  the next event.
* `StreamCache`, `thread.at = "aborted"` (`cache.c:392-393`): a resize after a
  short seek forward finds the reader ahead of what is cached, and the assertion
  on the copied length fails.
* `ControlOwned` for cancelled calls (`cache.c:687-693`): the control stays
  pending and is executed later, with a pointer to a frame that has returned.
* `cache.c:598`, "try at least 1 read on EOF" (591): `retry` is one less than
  `reads`, so `s->reads >= retry` always holds and no read is tried.
* `stream.c:528-545` with `cache.c:651`: a seek that fails has moved `cache->pos`, while
  the buffer of the stream above it keeps the bytes of the old position.

## 4. Proofs

All theorems hold for every value of the constants allowed by the `ASSUME` of
the module (`DispatchAssumption`, `AoPullAssumption`, `AoPushAssumption`, `VoAssumption`,
`ClientAssumption`, `StreamCacheAssumption`, `SetupsAssumption`, `CacheAssumption`,
`DemuxAssumption`), which state only types, that the target
is no client, that stack items differ from asynchronous ones, that no frame is
`NoFrame`, that there are finitely many observers, that rings, log buffers, devices,
reads and new cache sizes are not empty, and that the packets of a stream are in the
order of their times in the file, as they are in one that `correct_dts` holds of.  The
bounds of TLC's instances play no role.

**Dispatch** (`MutualExclusion`, `AssertionsHold`, `TypeCorrect`; `NothingMissed`;
`StackItemsLive`; `ServesItsUsers`).
`ExclusiveAccess` is not inductive: that the holder of a lock is alone depends on
who made which nested call.  `IInv` adds the structure of the frame stack
(`Stack`: each frame belongs to one thread, and a frame below the top is
suspended by the lock holder or by the callback that made the call above it),
what `idling` means (`Idle`: the top frame runs nothing and is not locked),
where a thread can be for the invocation it is in (`Place`), and that one
thread at most has a request (`Request`).  The lemmas `TopField`, `PushStack` and
`PopStack` say how `Stack` fares under the operations on the top frame; `LoopInv`
treats the loop's body once for its callers, whose states have `AtLoop` in
common; `StepInv` has a step per action.  `OwnerOnTop` is the heart of mutual
exclusion: whoever owns the state is the one that the top of the stack names.

`NothingMissed` shows `NoLostWakeup` from `WInv`, given `IInv`.  `TopServed`: a
thread that waits for its frame on the top of the stack has nothing to do.  It is
hard to keep where an invocation returns and uncovers a frame whose thread
waits; that thread was woken by nobody, but the return leaves no work behind, and
the frame below is locked or its thread is not waiting (`LoopTop`).  `Waiting`
names the places where a thread can be on the condition variable,
`ClientsServed` says what the clients there wait for has not happened, and
`WakeKept` that a wakeup for work is pending before the target sleeps, not
only while it does.

`StackItemsLive` counts references: for each client, the entries of the queue and
the frames that hold its stack item are exactly one while it waits and none
otherwise (`RefInv`).  `LoopRefs` moves the item from the queue to the frame,
`CancelRefs` treats `mp_dispatch_cancel_fn()`: what it keeps is an order-preserving
injection between finite sets of the same size, so that every kept entry is
there once.

`ServesItsUsers` is the refinement of `CoreAccess`, from the invariants of the other
proofs.  `OwnsTop` shows that the owner can be read off the top frame alone, so only
steps that change the top frame hand the state over, and `Stack` says to whom.  The
state of a call is read off its caller's place, its completion, and whether a frame
runs it (`CallStates`); that it is in exactly one of these is `RefInv`.  `LoopServe`
treats the loop's body once: it finishes the call that ran, if one did, and starts the
one at the head of the list, if there is one.  Submitting and returning are steps
of their own in `CoreAccess` (`RunSubmits`, `RunReturns`); everything else stutters.

**AoPull** (`CopiesNeverRace`, `SamplesInOrder`, `WritesComplete`, `ReadsComplete`,
`CallbackOwnsRings`, `StopsAreFinal`, `TypeCorrect`).  A call computes a length from one plane and uses
it on all, while the other thread moves.  `IInv` says how far planes differ:
those that the calls in progress are done with are ahead by the length of the
call (`Level`), the others still have room for it (`Room`) or still hold it
(`Supply`), positions are never more than a ring apart (`Bounded`), and BUSY
belongs to the callback (`Owner`).  `NoCellRace` follows by `CellsDiffer`, a fact
about the remainder of two numbers less than a ring apart.

`SamplesInOrder` shows `FramesInOrder` from `DataInv`, given `IInv`.  `Held`: a plane
holds the samples that follow those it gave away, in order.  `Account`: they reach
up to what the player handed over, and beyond that by the call in progress on the
planes it is done with.  `Delivered` says the same of what a callback has taken so
far.  The hard steps are the two ends of a copy: `FilledCells` says that a copy of no
more than the free space puts the new samples behind the old ones and touches none
of those.  `Ended` is about `drain()`, which polls plane 0 only: plane 0 stays
empty until the state is taken from the callback, and then, by `Account` and
`Level`, no plane has anything left to discard.

**AoPush** (`SamplesAreCounted`, `NoWakeupLost`, `EndIsNotEarly`).  The theorems
assume `Excess = 0`: the player gives `play()` no more than `get_space()` allows
(otherwise they are false, see above).  Two things make them hard.  The AO thread
decides in one step what it waits for and waits in a later one; `Idle` and
`Sleeping` say that what it found then (`NothingToPlay`: of the buffered samples
there is no full period, and no rest that is final) still holds, and `Waiters`
that a signal cannot reach `drain()` instead, because whoever signals is the
player itself.  And the end is guessed by time: by `Clock` an unpaused device
never holds more than the ticks that are left.  The lemmas `AlignedFits` and
`AlignedNothing` are about rounding down to periods, `SamplesFit` and `TakenFits`
about what `ao_play_data()` gives to the driver; `MoveInv` treats all steps that
only move a thread, and the other actions have a lemma each.

**Vo** (`FramesAccepted`, `SleeperIdle`, `TypeCorrect`).  `FramesAccepted` is the
assertion of `vo_queue_frame()`: by `Promised` a player that was told it may queue a
frame still may, although the VO thread, a reset or a new configuration came between.
`SleeperIdle` needs what the VO thread knew when it decided how long to wait: it
releases `in->lock` to draw, and between the decision and the wait.  `Unasked` says
for each place of its loop what nobody can have asked of it as long as
`need_wakeup` is not set (`Rest` while it is about to wait), and `Sleeper` that it
blocks only in that case.  Types are proved in parts (`Playback`, `Requests`,
`Notes`, `Places`, `Data`) that the provers can handle.

**ClientApi** (`RepliesFit`, `NothingFreed`, `TellsInOrder`).  None of the three
properties is inductive, and one invariant (`IInv`, theorem `Invariance`) serves them all.
`Counted` says that the two counters of a handle are the calls still to be made, and
that reserved replies and queued events together fit the ring; it is what makes
`mpv_detach_destroy()` safe, because a client leaves (`Leaving`) only with both at zero.
`Attached` says that each observer is in the list once and belongs to the handle as
long as it is there, that whoever is to be updated is still allocated, and that,
unless its update was queued twice, there is one update and `updating` tells of it.
That last part is why an observer may be freed at once when `updating` is not set.
`Ordered` says that every queue continues where the client is: events
(`EventOrder`) without a gap except at the front when the client knows of lost ones;
replies (`ReplyOrder`) without any, across the event ring and the calls that have still
to be answered; log messages (`LogOrder`) with a gap only behind the message that
announces it.  `ChangesKnown` says that a value which waits to be told differs from the
one the client has.  There is a lemma for each way in which a queue changes
(`EventSent`, `ReplyTold`, `RequestAnswered`, `LogLost` and so on), one per function
on a handle (`...Does`), and one per action (`...Keeps`).  A round of
`mpv_wait_event()` is taken apart into what it may return (`OverflowTold`,
`EventReturned`, `ChangeReturned`, `LogReturned`, `NothingReturned`), because the loop
runs it from two places; `Generated` says of `gen_property_change_event()` what these
need, so that its definition is opened once (`GenPropertyChangeDoes`).  `Faithful` is
`EventsFaithful` of one step, proved along with the invariant since it needs `IInv`
before the step and the new `got`.

`EveryUpdateAlive` (above), which TLC refutes, shows why `NothingFreed` excludes
updates that were queued twice.

**StreamCache** (`RangeBuffered`, `RequestsOwned`, `BackbufferStays`, `ReadsTheFile`).
The invariant says of the ring (`Ring`) that the cached range is no longer than the ring
and ends less than two rings after `offset`, where `read_buffer()` still finds it, so
that its bytes have slots of their own (`SlotsDiffer`); of a fill without the mutex (`Reading`) that
it writes where the range ends and that both fit the ring together, although the reader
may seek, resize and give up meanwhile; of an end (`AtEnd`) that it was seen where the
file ends or after a failed read; and of requests (`Owned`) that they are those of a reader that waits, until a
call is cancelled.  `Turned` is what every step keeps, with `Roomy` for
`BackbufferKept`, which is proved and not in a run.  There are lemmas for each operator on the ring (`Cache...`), one per
thing the thread does in a turn (`...Turns`), and one per step of the reader
(`...Keeps`).  `ReadsTheFile` is the refinement of `ByteStream`: a read that returns gives
what the file has at the position (`ReadOnReads`), and only seeks and controls move
it otherwise.

**DemuxCache** (`Invariance`, `MediaAdvances`, `AdvancesWithoutSubtitles`, `QueuesConsistent`,
`PointersValid`).  That each packet which the player gets is after all that it got before, so that none
comes twice (`ReadsAdvance`), depends on three
positions in each stream: the last packet that it got, where its queue in the current range
ends, and what the demuxer reads next.  `IInv` relates them.  `HeadFit`: the reader's head is behind what the player
got, and without a head the queue ends no earlier than where the player is.  `AheadFit`:
the demuxer is beyond `last_dts`, except for a stream that is refreshing, which drops what
it has, and while a seek is requested.  That exception is why a seek, a join, a resumed
range and an enabled stream each have to set `refreshing` or to leave an empty queue
(`SeekQueued`).  `InFileOrder` holds in *every* range, also in those that are not played:
one of them may be resumed or joined later.  It includes `last_dts`, which is what
`demux_add_packet()` compares with after all packets were pruned.

The rest is about the data structure.  `HeadRemovedFits`, `JoinPointFits` and `JoinedFits`
say of `remove_head_packet()` and of the two parts of `attempt_range_joining()` that queues
stay in file order; `Trimmed` is what all functions have in common that change seek ranges
or the index and no packets; `RoundPruned` shows that pruning stops before the reader's
head.  `Switched` and `SoughtInRange` are about resuming a range, `SelectionUpdated` and
`RefreshInitiated` about enabling a stream.  There is one lemma per function (`...Fits`,
`...Added`, `...Pruned`), and `ThreadFits`, `ReadFits`, `SeekFits`, `SelectFits` and `FlushFits` for
the actions.  Loops over streams, index entries and rounds of pruning are recursive
functions, over which `Induction` carries the fact that the cache fits.

What points into a packet list is part of the invariant as well: `PointersIn` (the prune
target and the latest keyframe) and `IndexIn` (the entries of the index, in their order) for
every stream, since pruning removes the packets below them and joining moves the list;
`Dated` says for audio and video that the time noted for a keyframe is the keyframe's own:
what is added after it is later in the file, so that the minimum over its packets that
`adjust_seek_range_on_packet()` keeps does not move.  `QueuesConsistent` is the code's
`check_queue_consistency()` (`demux.c:299`, under `#if 0` for its cost), and `PointersValid`
adds subtitles and the reader's head.

Except for `PointersValid` the theorems are about audio and video streams.
`AdvancesWithoutSubtitles` gives `ReadsAdvance` for files without subtitles, as in `demux_ranges`; `MediaAdvances` says the same
of the audio and video streams of any file.  For subtitles it is false (see above), and
`AdjustOnEof` and joins treat streams that are not eager in another way.

The strengthened invariants were checked with TLC, on the instances of the runs,
before they were proved.

Only model-checked: all liveness properties (and thus everything under fairness), and of
the demuxer `CacheConsistent`, `SeekCovers`, `RangesSeekable`, `EofIsEndWithoutCache` and
`ReadsContinue`.  The first three of them fail outside of the bounds of their runs, as listed
above: a proof would first need the conditions under which they hold.  Of `CacheConsistent`
the theorems cover the queues (`QueueOK`, the reader's heads), and TLC the sizes and
`Continuous`.  Induction over numbers is within
reach where a set can say what is to be shown (`Induction` in `ClientProofs` and
`CacheRangesProofs`, from the fact that the order of the natural numbers is well-founded; the
library's induction theorems take an operator, which the available provers cannot
instantiate).
`TypeOK` of `Dispatch`, `AoPull` and `Vo`, and `WriteNeverShort`, `ReadNeverShort` and
`ResetExclusive` of `AoPull`, are proved and not in a run.

## 5. Plan

What is left, in this order:

1. A `DemuxWait` that adds `in->wakeup` to `DemuxCache`, to state that a reader that
   waits is answered (`demux.c:1192`).
2. `ReadsContinue` proved for one cached range: `InFileOrder` would say as well that no
   packet is missing, and `AheadFit` that the demuxer is at the next one.
3. The accounting of `DemuxCache` (`total_bytes`, `fw_bytes`), by lemmas about `Total`.

## 6. Not modelled, and why

The playback core, commands, properties and options are sequential code over
large tables, where a model would repeat the code.  Input, logging, the image
pool, subtitles and OSD use one mutex per object and no protocol between
critical sections.  Demuxers, streams, decoders, filters and drivers, including
the Direct3D edge fusion output, are about data formats and external APIs; the
models contain what they promise to the parts above, as external definitions.
The thread pool and the rendezvous are small: a list under a mutex with one
condition variable, whose hazards are those of the queues that are modelled.
Time appears as order, as ticks that are left, and as nondeterministic timeouts,
never as a clock.
