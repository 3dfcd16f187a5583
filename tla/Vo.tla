--------------------------------- MODULE Vo ---------------------------------
(***************************************************************************)
(* video/out/vo.c: the player queues at most one frame, the VO thread      *)
(* draws it, flips at its time and, with display sync, repeats it.  The    *)
(* player sleeps between calls: it relies on the VO to wake it when a      *)
(* frame can be queued, when a frame has ended, and when the window needs  *)
(* a redraw.                                                               *)
(*                                                                         *)
(* Each function of the player holds in->lock throughout and is one step.  *)
(* The VO thread's loop is cut where it takes or releases the lock; "draw" *)
(* and "flip" are the calls into the driver, made without it.              *)
(*                                                                         *)
(* Points of time are stored as the ticks that are left until them.        *)
(***************************************************************************)
EXTENDS Integers, FiniteSets

CONSTANTS MaxLead,      \* bound: a frame is at most so many ticks early
          MaxDuration,  \* bound on a frame's duration
          MaxVsyncs,    \* bound on frame->num_vsyncs
          Vsyncs,       \* the values it has when a frame is queued
          Timings,      \* how early frames are queued, and their durations
          Workloads,    \* bound: "seeks" and "redraws" do not mix
          NoRedraw,     \* the driver's caps include VO_CAP_NOREDRAW
          NoFrame       \* a null pointer

None == -1
Latest == MaxLead + MaxDuration
Forever == Latest + 1

Larger(x, y)  == IF x < y THEN y ELSE x

(* struct vo_frame: "early" is the ticks until its pts, "end" those until   *)
(* pts + MPMAX(duration, 0), "droppable" is duration >= 0.  num_vsyncs is   *)
(* never negative.  Of a frame that is drawn: the ticks until its pts.      *)
FrameType == [display_synced : BOOLEAN, num_vsyncs : 0 .. Larger(MaxVsyncs, 1),
              early : 0 .. MaxLead, droppable : BOOLEAN, end : -1 .. Latest]
RenderType == [target : 0 .. MaxLead, repeat : BOOLEAN]

ASSUME VoAssumption ==
  /\ MaxLead \in Nat /\ MaxDuration \in Nat /\ MaxVsyncs \in Nat
  /\ Vsyncs \subseteq 0 .. MaxVsyncs
  /\ Timings \subseteq (-1 .. MaxLead) \X (-1 .. MaxDuration)
  /\ Workloads \subseteq {"seeks", "redraws"}
  /\ NoRedraw \in BOOLEAN
  /\ NoFrame \notin FrameType /\ NoFrame \notin RenderType

VARIABLES
  config_ok, need_wakeup, terminate, hasframe, hasframe_rendered,
  request_redraw, want_redraw, send_reset, paused, rendering, dropped_frame,
  current_frame, frame_queued,
  wakeup_pts,     \* ticks until in->wakeup_pts, or None
  driver_redraw,  \* vo->want_redraw
  vo,             \* where the VO thread is
  frame,          \* render_frame(): what it draws
  working,        \* render_frame()'s result
  until,          \* ticks until the VO thread's wait_until
  vo_paused, asleep, \* its vo_paused; it is blocked on in->wakeup
  core,           \* where the player's thread is
  woken,          \* wakeup_core() was called since it last looked
  awaiting,       \* what the VO promised to wake it for
  asked,          \* it asked with a time for the frame that comes next
  osd_stale,      \* the OSD changed since a drawn frame had it
  damaged,        \* the window lost its contents since a frame was drawn
  workload        \* what happens besides playback: timed frames and seeks, or
                  \* pauses and changes of the OSD and the window

internal == <<config_ok, need_wakeup, terminate, hasframe, hasframe_rendered,
              request_redraw, want_redraw, send_reset, paused, rendering,
              dropped_frame, current_frame, frame_queued, wakeup_pts>>
thread == <<vo, frame, working, until, vo_paused, asleep>>
player == <<core, woken, awaiting, asked>>
screen == <<osd_stale, damaged, workload>>
vars == <<internal, driver_redraw, thread, player, screen>>

(* What vo_queue_frame() is given.                                         *)
Synced == {[display_synced |-> TRUE, num_vsyncs |-> n, early |-> 0,
            droppable |-> FALSE, end |-> 0] : n \in Vsyncs}
Timed == {[display_synced |-> FALSE, num_vsyncs |-> 1, droppable |-> t[2] >= 0,
           early |-> Larger(t[1], 0), end |-> t[1] + Larger(t[2], 0)] :
            t \in IF workload = "seeks" THEN Timings ELSE {}}

Init ==
  /\ config_ok = FALSE /\ need_wakeup = FALSE /\ terminate = FALSE
  /\ hasframe = FALSE /\ hasframe_rendered = FALSE
  /\ request_redraw = FALSE /\ want_redraw = FALSE /\ send_reset = FALSE
  /\ paused = FALSE /\ rendering = FALSE /\ dropped_frame = FALSE
  /\ current_frame = NoFrame /\ frame_queued = NoFrame /\ wakeup_pts = None
  /\ driver_redraw = FALSE
  /\ vo = "process" /\ frame = NoFrame /\ working = FALSE /\ until = 0
  /\ vo_paused = FALSE /\ asleep = FALSE
  /\ core = "idle" /\ woken = FALSE /\ awaiting = "no" /\ asked = FALSE
  /\ osd_stale = FALSE /\ damaged = FALSE
  /\ workload \in Workloads

-----------------------------------------------------------------------------
(* Parts of steps.                                                         *)

Mut_WakeupLocked == asleep' = FALSE /\ UNCHANGED need_wakeup
WakeupLocked == asleep' = FALSE /\ need_wakeup' = TRUE

ForgetFrames ==
  /\ hasframe' = FALSE /\ hasframe_rendered' = FALSE
  /\ frame_queued' = NoFrame

(* Future repeats of the current frame are reset as well.                  *)
Stopped(f) == IF f = NoFrame THEN NoFrame
              ELSE [f EXCEPT !.num_vsyncs = 0, !.display_synced = FALSE]

Mut_Ready == /\ config_ok /\ frame_queued = NoFrame
Ready ==
  /\ config_ok /\ frame_queued = NoFrame
  /\ current_frame = NoFrame \/ current_frame.num_vsyncs < 1

StillDisplaying ==
  /\ hasframe
  /\ \/ rendering \/ frame_queued # NoFrame
     \/ /\ current_frame # NoFrame
        /\ IF current_frame.display_synced
           THEN current_frame.num_vsyncs > 0
           ELSE current_frame.end > 0

-----------------------------------------------------------------------------
(* The player.                                                             *)

(* vo_is_ready_for_frame().  "lead" is how long it takes until the frame   *)
(* may be queued, which is before its pts; None asks without timing.  A    *)
(* paused player queues no more than the first frame after a restart.      *)
IsReady(lead) ==
  LET ready == Ready /\ lead <= 0
      earlier == Ready /\ lead # None
                 /\ (wakeup_pts = None \/ lead < wakeup_pts)
  IN
  /\ core = "idle" /\ config_ok
  /\ workload = "seeks" \/ lead = None
  /\ paused => ~hasframe
  /\ wakeup_pts' = IF earlier THEN lead ELSE wakeup_pts
  /\ IF earlier /\ ~ready THEN WakeupLocked
                          ELSE UNCHANGED <<asleep, need_wakeup>>
  /\ core' = IF ready THEN "ready" ELSE "idle"
  /\ awaiting' = IF ready THEN "no" ELSE "ready"
  /\ asked' = (asked \/ lead # None)
  /\ UNCHANGED <<config_ok, terminate, hasframe, hasframe_rendered,
                 request_redraw, want_redraw, send_reset, paused, rendering,
                 dropped_frame, current_frame, frame_queued, driver_redraw, vo,
                 frame, working, until, vo_paused, woken, screen>>

(* vo_queue_frame(), which the player may follow by vo_wait_frame().       *)
QueueFrame(f) ==
  /\ core = "ready"
  /\ hasframe' = TRUE /\ frame_queued' = f
  /\ wakeup_pts' = IF f.display_synced THEN None ELSE Larger(f.end, 0)
  /\ WakeupLocked
  /\ core' \in {"idle", "waitframe"}
  /\ asked' = FALSE
  /\ UNCHANGED <<config_ok, terminate, hasframe_rendered, request_redraw,
                 want_redraw, send_reset, paused, rendering, dropped_frame,
                 current_frame, driver_redraw, vo, frame, working, until,
                 vo_paused, woken, awaiting, screen>>

WaitFrame ==
  /\ core = "waitframe"
  /\ frame_queued = NoFrame /\ ~rendering
  /\ core' = "idle"
  /\ UNCHANGED <<internal, driver_redraw, thread, woken, awaiting, asked,
                 screen>>

(* vo_still_displaying(): the player asks before it changes the format for *)
(* the next frame, so before it asks whether the VO is ready for it.       *)
AskDisplaying ==
  /\ core = "idle" /\ workload = "seeks" /\ ~asked /\ StillDisplaying
  /\ awaiting' = "end"
  /\ UNCHANGED <<internal, driver_redraw, thread, core, woken, asked, screen>>

(* mp_dispatch_run() of a function on the VO thread.                        *)
Call(function) ==
  /\ core = "idle"
  /\ core' = function
  /\ awaiting' = "no"
  /\ WakeupLocked
  /\ UNCHANGED <<config_ok, terminate, hasframe, hasframe_rendered,
                 request_redraw, want_redraw, send_reset, paused, rendering,
                 dropped_frame, current_frame, frame_queued, wakeup_pts,
                 driver_redraw, vo, frame, working, until, vo_paused, woken,
                 asked, screen>>
Reconfig == Call("reconfig")
Destroy  == Call("terminate")

(* vo_set_paused(); the player's loop goes on, as if it had been woken.     *)
SetPaused ==
  /\ core = "idle" /\ workload = "redraws"
  /\ paused' = ~paused
  /\ request_redraw' = (request_redraw \/ (paused' /\ dropped_frame))
  /\ woken' = TRUE
  /\ awaiting' = "no"
  /\ WakeupLocked
  /\ UNCHANGED <<config_ok, terminate, hasframe, hasframe_rendered,
                 want_redraw, send_reset, rendering, dropped_frame,
                 current_frame, frame_queued, wakeup_pts, driver_redraw, vo,
                 frame, working, until, vo_paused, core, asked, screen>>

Redraw ==
  IF request_redraw
  THEN UNCHANGED <<request_redraw, want_redraw, need_wakeup, asleep>>
  ELSE /\ request_redraw' = TRUE /\ want_redraw' = FALSE
       /\ WakeupLocked

noRedraw == <<config_ok, terminate, hasframe, hasframe_rendered, send_reset,
              paused, rendering, dropped_frame, current_frame, frame_queued,
              wakeup_pts, driver_redraw, vo, frame, working, until, vo_paused,
              damaged, workload>>

(* The player changed the OSD and calls vo_redraw().                       *)
ChangeOsd ==
  /\ core = "idle" /\ config_ok /\ workload = "redraws"
  /\ osd_stale' = TRUE
  /\ Redraw
  /\ UNCHANGED <<noRedraw, player>>

(* The player runs because it was woken, and looks at vo_want_redraw().    *)
(* While it plays it may leave the redraw to the next frame.               *)
Iterate ==
  /\ core = "idle" /\ woken
  /\ woken' = FALSE /\ awaiting' = "no"
  /\ core' \in IF want_redraw /\ config_ok
               THEN {"redraw"} \cup (IF paused THEN {} ELSE {"idle"})
               ELSE {"idle"}
  /\ UNCHANGED <<internal, driver_redraw, thread, asked, screen>>

RedrawForVo ==
  /\ core = "redraw"
  /\ core' = "idle"
  /\ Redraw
  /\ UNCHANGED <<noRedraw, woken, awaiting, asked, osd_stale>>

SeekReset ==
  /\ core = "idle" /\ workload = "seeks"
  /\ ForgetFrames
  /\ current_frame' = Stopped(current_frame)
  /\ send_reset' = TRUE
  /\ WakeupLocked
  /\ awaiting' = "no" /\ asked' = FALSE
  /\ UNCHANGED <<config_ok, terminate, request_redraw, want_redraw, paused,
                 rendering, dropped_frame, wakeup_pts, driver_redraw, vo, frame,
                 working, until, vo_paused, core, woken, screen>>

Join ==
  /\ core = "join" /\ vo = "done"
  /\ core' = "gone"
  /\ UNCHANGED <<internal, driver_redraw, thread, woken, awaiting, asked,
                 screen>>

-----------------------------------------------------------------------------
(* The VO thread.                                                          *)

(* The functions that the player waits for; its loop goes on afterwards,   *)
(* or it joins the thread.                                                 *)
RunReconfig ==
  /\ core = "reconfig"
  /\ config_ok' \in BOOLEAN
  /\ ForgetFrames /\ current_frame' = NoFrame
  /\ core' = "idle" /\ asked' = FALSE /\ woken' = TRUE
  /\ UNCHANGED terminate

TerminateVo ==
  /\ core = "terminate"
  /\ terminate' = TRUE
  /\ core' = "join"
  /\ UNCHANGED <<config_ok, asked, woken>>

(* The end of vo_thread().                                                 *)
LeaveThread ==
  /\ ForgetFrames /\ current_frame' = NoFrame
  /\ vo' = "done"

(* What is on the dispatch queue, then the window's events.                *)
Process ==
  /\ vo = "process"
  /\ \/ RunReconfig /\ vo' = "render"
     \/ TerminateVo /\ LeaveThread
     \/ /\ core \notin {"reconfig", "terminate"}
        /\ vo' = "render"
        /\ UNCHANGED <<config_ok, hasframe, hasframe_rendered, frame_queued,
                       current_frame, core, asked, woken, terminate>>
  /\ \E exposed \in BOOLEAN :
       /\ exposed => vo' = "render" /\ workload = "redraws"
       /\ driver_redraw' = (driver_redraw \/ exposed)
       /\ damaged' = (damaged \/ exposed)
  /\ UNCHANGED <<need_wakeup, request_redraw, want_redraw, send_reset, paused,
                 rendering, dropped_frame, wakeup_pts, frame, working, until,
                 vo_paused, asleep, awaiting, osd_stale, workload>>

(* render_frame() up to the first unlock: what it draws, if anything.      *)
Current == IF frame_queued # NoFrame THEN frame_queued ELSE current_frame
HasWork ==
  \/ frame_queued # NoFrame
  \/ /\ ~paused /\ hasframe /\ current_frame # NoFrame
     /\ current_frame.display_synced /\ current_frame.num_vsyncs >= 1
Late == ~Current.display_synced /\ Current.droppable /\ Current.end < 0
        /\ hasframe_rendered
Drawn == [Current EXCEPT !.num_vsyncs = Larger(@ - 1, 0), !.early = 0,
                         !.end = Larger(@, 0)]

(* What follows when the frame is done; "dropped" is in->dropped_frame.    *)
Mut_Finish(dropped, done) ==                \* does not wake the player
  /\ dropped_frame' = dropped
  /\ current_frame' = IF NoRedraw THEN NoFrame ELSE done
  /\ request_redraw' = (request_redraw /\ dropped)
  /\ working' = TRUE
  /\ vo' = "after"
  /\ UNCHANGED woken
Finish(dropped, done) ==
  /\ dropped_frame' = dropped
  /\ current_frame' = IF NoRedraw THEN NoFrame ELSE done
  /\ request_redraw' = (request_redraw /\ dropped)
  /\ woken' = TRUE
  /\ working' = TRUE
  /\ vo' = "after"

RenderNothing ==
  /\ vo = "render" /\ ~HasWork
  /\ working' = FALSE /\ vo' = "after"
  /\ UNCHANGED <<internal, driver_redraw, frame, until, vo_paused, asleep,
                 player, screen>>

(* That a late frame is drawn all the same depends on the last vsync.      *)
RenderDropped ==
  /\ vo = "render" /\ HasWork
  /\ Late \/ (Current.display_synced /\ Current.num_vsyncs < 1)
  /\ frame_queued' = NoFrame
  /\ Finish(TRUE, Drawn)
  /\ UNCHANGED <<config_ok, need_wakeup, terminate, hasframe,
                 hasframe_rendered, want_redraw, send_reset, paused, rendering,
                 wakeup_pts, driver_redraw, frame, until, vo_paused, asleep,
                 core, awaiting, asked, screen>>

RenderBegin ==
  /\ vo = "render" /\ HasWork
  /\ Current.display_synced => Current.num_vsyncs >= 1
  /\ frame' = [target |-> Current.early,
               repeat |-> frame_queued = NoFrame]
  /\ frame_queued' = NoFrame /\ current_frame' = Drawn
  /\ rendering' = TRUE /\ hasframe_rendered' = TRUE /\ dropped_frame' = FALSE
  /\ woken' = TRUE
  /\ vo' = "draw"
  /\ UNCHANGED <<config_ok, need_wakeup, terminate, hasframe, request_redraw,
                 want_redraw, send_reset, paused, wakeup_pts, driver_redraw,
                 working, until, vo_paused, asleep, core, awaiting, asked,
                 screen>>

(* The driver draws; the OSD only if the frame is not a repeat.            *)
Draw ==
  /\ vo = "draw"
  /\ osd_stale' = (osd_stale /\ frame.repeat)
  /\ damaged' = FALSE /\ UNCHANGED workload
  /\ vo' = "flip"
  /\ UNCHANGED <<internal, driver_redraw, frame, working, until, vo_paused,
                 asleep, player>>

(* wait_until(), flip_page(), and the end of render_frame(); the driver    *)
(* may report that it dropped the frame.                                   *)
RenderEnd ==
  /\ vo = "flip" /\ frame.target = 0
  /\ \E dropped \in BOOLEAN : Finish(dropped, current_frame)
  /\ rendering' = FALSE
  /\ frame' = NoFrame
  /\ UNCHANGED <<config_ok, need_wakeup, terminate, hasframe,
                 hasframe_rendered, want_redraw, send_reset, paused,
                 frame_queued, wakeup_pts, driver_redraw, until, vo_paused,
                 asleep, core, awaiting, asked, screen>>

(* vo_thread() after render_frame(), whose result depends on frame_queued, *)
(* read without the lock some time before.                                 *)
Due == wakeup_pts # None /\ wakeup_pts <= 0
MayWork == frame_queued # NoFrame /\ frame_queued.display_synced
Mut_WaitUntil(busy) == IF busy THEN 0 ELSE Forever
WaitUntil(busy) == IF busy THEN 0
                   ELSE IF wakeup_pts > 0 THEN wakeup_pts ELSE Forever
Mut_PassOn == driver_redraw /\ ~want_redraw /\ ~paused
PassOn == driver_redraw /\ ~want_redraw

AfterRender ==
  /\ vo = "after"
  /\ wakeup_pts' = IF Due THEN None ELSE wakeup_pts
  /\ driver_redraw' = (driver_redraw /\ ~PassOn)
  /\ want_redraw' = (want_redraw \/ PassOn)
  /\ woken' = (woken \/ Due \/ PassOn)
  /\ send_reset' = FALSE /\ vo_paused' = paused
  /\ \E busy \in {working, working \/ MayWork} :
       \/ /\ WaitUntil(busy) > 0 /\ request_redraw
          /\ vo' = "redraw" /\ until' = 0
       \/ /\ ~(WaitUntil(busy) > 0 /\ request_redraw)
          /\ vo' = "wait"
          /\ until' = IF driver_redraw' THEN 0 ELSE WaitUntil(busy)
  /\ working' = FALSE
  /\ UNCHANGED <<config_ok, need_wakeup, terminate, hasframe,
                 hasframe_rendered, request_redraw, paused, rendering,
                 dropped_frame, current_frame, frame_queued, frame, asleep,
                 core, awaiting, asked, screen>>

(* do_redraw(): under the lock, and the drawing after it.                  *)
Mut_DoRedraw ==                             \* draws nothing without a frame
  /\ vo = "redraw"
  /\ request_redraw' = FALSE
  /\ vo' = IF config_ok /\ current_frame # NoFrame THEN "redrawing"
                                                  ELSE "process"
  /\ UNCHANGED <<config_ok, need_wakeup, terminate, hasframe,
                 hasframe_rendered, want_redraw, send_reset, paused, rendering,
                 dropped_frame, current_frame, frame_queued, wakeup_pts,
                 driver_redraw, frame, working, until, vo_paused, asleep,
                 player, screen>>
DoRedraw ==
  /\ vo = "redraw"
  /\ \/ /\ config_ok /\ ~NoRedraw
        /\ request_redraw' = FALSE
        /\ dropped_frame' = (dropped_frame /\ current_frame = NoFrame)
        /\ vo' = "redrawing"
     \/ /\ ~config_ok \/ NoRedraw
        /\ vo' = "process"
        /\ UNCHANGED <<request_redraw, dropped_frame>>
  /\ UNCHANGED <<config_ok, need_wakeup, terminate, hasframe,
                 hasframe_rendered, want_redraw, send_reset, paused, rendering,
                 current_frame, frame_queued, wakeup_pts, driver_redraw, frame,
                 working, until, vo_paused, asleep, player, screen>>

RedrawDraw ==
  /\ vo = "redrawing"
  /\ osd_stale' = FALSE /\ damaged' = FALSE /\ UNCHANGED workload
  /\ vo' = "process"
  /\ UNCHANGED <<internal, driver_redraw, frame, working, until, vo_paused,
                 asleep, player>>

(* wait_vo(): a driver without an event loop of its own waits on           *)
(* in->wakeup, others on something that vo->driver->wakeup() ends.         *)
Mut_Wait ==                                 \* does not look at need_wakeup
  /\ vo = "wait"
  /\ asleep' = (until > 0)
  /\ vo' = IF asleep' THEN "sleep" ELSE "woke"
  /\ UNCHANGED <<internal, driver_redraw, frame, working, until, vo_paused,
                 player, screen>>
Wait ==
  /\ vo = "wait"
  /\ asleep' = (~need_wakeup /\ until > 0)
  /\ vo' = IF asleep' THEN "sleep" ELSE "woke"
  /\ UNCHANGED <<internal, driver_redraw, frame, working, until, vo_paused,
                 player, screen>>

Wake ==
  /\ vo = "sleep" /\ (~asleep \/ until = 0)
  /\ vo' = "woke" /\ asleep' = FALSE
  /\ UNCHANGED <<internal, driver_redraw, frame, working, until, vo_paused,
                 player, screen>>

Woke ==
  /\ vo = "woke"
  /\ need_wakeup' = FALSE
  /\ vo' = "process" /\ until' = 0
  /\ UNCHANGED <<config_ok, terminate, hasframe, hasframe_rendered,
                 request_redraw, want_redraw, send_reset, paused, rendering,
                 dropped_frame, current_frame, frame_queued, wakeup_pts,
                 driver_redraw, frame, working, vo_paused, asleep, player,
                 screen>>

(* An event of the window, or a spurious wakeup.                           *)
WindowEvent ==
  /\ vo = "sleep" /\ asleep
  /\ asleep' = FALSE
  /\ UNCHANGED <<internal, driver_redraw, vo, frame, working, until, vo_paused,
                 player, screen>>

-----------------------------------------------------------------------------
Sooner(n) == IF n > 0 THEN n - 1 ELSE n
Tick ==
  /\ wakeup_pts' = Sooner(wakeup_pts)
  /\ until' = IF until = Forever THEN until ELSE Sooner(until)
  /\ frame' = IF frame = NoFrame THEN NoFrame
              ELSE [frame EXCEPT !.target = Sooner(@)]
  /\ frame_queued' = IF frame_queued = NoFrame \/ frame_queued.display_synced
                     THEN frame_queued
                     ELSE [frame_queued EXCEPT !.early = Sooner(@),
                             !.end = IF frame_queued.droppable
                                     THEN Larger(@ - 1, -1) ELSE Sooner(@)]
  /\ current_frame' = IF current_frame = NoFrame THEN NoFrame
                      ELSE [current_frame EXCEPT !.end = Sooner(@)]
  /\ <<wakeup_pts, until, frame, frame_queued, current_frame>>' #
       <<wakeup_pts, until, frame, frame_queued, current_frame>>
  /\ UNCHANGED <<config_ok, need_wakeup, terminate, hasframe,
                 hasframe_rendered, request_redraw, want_redraw, send_reset,
                 paused, rendering, dropped_frame, driver_redraw, vo, working,
                 vo_paused, asleep, player, screen>>

-----------------------------------------------------------------------------
PlayerCall ==
  \/ \E lead \in None .. MaxLead : IsReady(lead)
  \/ AskDisplaying \/ SetPaused \/ ChangeOsd \/ SeekReset
  \/ Reconfig \/ Destroy

PlayerStep ==
  \/ \E f \in Synced \cup Timed : QueueFrame(f)
  \/ WaitFrame \/ Iterate \/ RedrawForVo \/ Join

VoStep ==
  \/ Process \/ RenderNothing \/ RenderDropped \/ RenderBegin \/ Draw
  \/ RenderEnd \/ AfterRender \/ DoRedraw \/ RedrawDraw
  \/ Wait \/ Wake \/ Woke

Done == core = "gone" /\ UNCHANGED vars

Next == PlayerCall \/ PlayerStep \/ VoStep \/ WindowEvent \/ Tick \/ Done

Spec == Init /\ [][Next]_vars

(* The VO thread runs, time passes, and the player ends the call it is in. *)
(* Whatever else it does, it looks what it was woken for once per          *)
(* iteration of its loop (SF).  No call of the player is promised.         *)
Fairness ==
  WF_vars(PlayerStep) /\ SF_vars(Iterate) /\ WF_vars(VoStep) /\ WF_vars(Tick)

FairSpec == Spec /\ Fairness

-----------------------------------------------------------------------------
(* Every variable has its type: num_vsyncs is never negative, so a frame   *)
(* that is repeated ends, and wakeup_pts is a time that a frame can have.  *)
TypeOK ==
  /\ config_ok \in BOOLEAN /\ need_wakeup \in BOOLEAN /\ terminate \in BOOLEAN
  /\ hasframe \in BOOLEAN /\ hasframe_rendered \in BOOLEAN
  /\ request_redraw \in BOOLEAN /\ want_redraw \in BOOLEAN
  /\ send_reset \in BOOLEAN /\ paused \in BOOLEAN /\ rendering \in BOOLEAN
  /\ dropped_frame \in BOOLEAN /\ driver_redraw \in BOOLEAN
  /\ {current_frame, frame_queued} \subseteq FrameType \cup {NoFrame}
  /\ wakeup_pts \in None .. Latest
  /\ vo \in {"process", "render", "draw", "flip", "after", "redraw",
             "redrawing", "wait", "sleep", "woke", "done"}
  /\ frame \in IF vo \in {"draw", "flip"} THEN RenderType ELSE {NoFrame}
  /\ working \in BOOLEAN /\ until \in 0 .. Forever
  /\ vo_paused \in BOOLEAN /\ asleep \in BOOLEAN
  /\ core \in {"idle", "ready", "waitframe", "redraw", "reconfig", "terminate",
               "join", "gone"}
  /\ woken \in BOOLEAN /\ awaiting \in {"no", "ready", "end"}
  /\ workload \in Workloads
  /\ asked \in BOOLEAN /\ osd_stale \in BOOLEAN /\ damaged \in BOOLEAN

(* The assertion at vo.c:760: what vo_is_ready_for_frame() found still     *)
(* holds when the frame is queued, although the lock was released and the  *)
(* VO thread may be drawing and repeating the last one.                    *)
QueueAsserted ==
  /\ TypeOK
  /\ core = "ready" =>
       /\ config_ok /\ frame_queued = NoFrame
       /\ current_frame = NoFrame \/ current_frame.num_vsyncs < 1

(* While the VO thread is blocked there is nothing for it to do: no frame, *)
(* call, redraw, reset or change of pause, and it will be up in time for   *)
(* wakeup_pts, whoever set it and when (a player that was told that the VO *)
(* is ready is about to set it again).                                     *)
SleepsIdle ==
  asleep /\ until > 0 =>
    /\ frame_queued = NoFrame /\ core \notin {"reconfig", "terminate"}
    /\ ~request_redraw /\ ~send_reset /\ paused = vo_paused
    /\ wakeup_pts = None \/ until <= wakeup_pts \/ core = "ready"

(* vo.c:720 "If the VO is not ready yet, the function will return false,   *)
(* and the VO will call the wakeup callback once it's ready.", and "if the *)
(* time is too early, [...] call the wakeup callback once the time is      *)
(* right".  A paused display-synced frame is repeated only after a resume. *)
(* vo.c:1088, of vo_still_displaying(): "If this returns true, a wakeup    *)
(* some time in the future is guaranteed."                                 *)
PlayerWoken ==
  \A what \in {"ready", "end"} :
    awaiting = what ~> woken \/ awaiting # what \/ paused

(* A frame that was queued is drawn or dropped even if the player pauses,  *)
(* and calls that wait for the VO thread return.                           *)
CallsReturn ==
  core \in {"waitframe", "reconfig", "terminate", "join"} ~>
    core \in {"idle", "gone"}

(* The player changes the format or ends the VO.                           *)
Restarts == core \in {"reconfig", "terminate", "join", "gone"}

(* A redraw that the player asks for while no frame is being drawn or      *)
(* waits for its repetition reaches the screen, unless the player goes on  *)
(* to queue frames, changes the format or ends the VO.                     *)
(* vo.h:405 "redraw as soon as possible": a paused player redraws a window *)
(* that lost its contents, if no earlier want_redraw is left over.         *)
RedrawsDrawn ==
  /\ /\ osd_stale /\ request_redraw /\ ~rendering /\ config_ok
     /\ current_frame # NoFrame => current_frame.num_vsyncs = 0
     ~> ~osd_stale \/ frame_queued # NoFrame \/ Restarts
  /\ damaged /\ driver_redraw /\ ~want_redraw /\ paused /\ config_ok ~>
       ~damaged \/ ~paused \/ Restarts

(* vo.c:1054 "Make the VO redraw the OSD at some point in the future."     *)
EveryRedrawDrawn ==
  osd_stale /\ config_ok ~> ~osd_stale \/ frame_queued # NoFrame \/ Restarts

(* vo.h:405 "redraw as soon as possible", of every want_redraw.            *)
EveryExposeDrawn ==
  damaged /\ paused /\ config_ok ~> ~damaged \/ ~paused \/ Restarts
=============================================================================
