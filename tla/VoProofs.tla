------------------------------ MODULE VoProofs ------------------------------
(***************************************************************************)
(* Proofs about Vo for any number of vsyncs, any lead and duration of      *)
(* frames, and drivers that can redraw a frame or not.                     *)
(*                                                                         *)
(* The VO thread decides how long to wait before it releases in->lock, and *)
(* waits later.  Whatever the player does meanwhile has to set need_wakeup *)
(* unless it leaves the thread nothing to do.                              *)
(***************************************************************************)
EXTENDS Vo, TLAPS

(* The player was told that it may queue a frame.                          *)
Promised == core = "ready" => Ready

(* There is nothing to do for a thread that waits until then.              *)
Rest ==
  /\ frame_queued = NoFrame /\ ~request_redraw /\ ~send_reset
  /\ paused = vo_paused
  /\ wakeup_pts = None \/ until <= wakeup_pts \/ core = "ready"

(* What holds at each place of the VO thread's loop as long as nobody set  *)
(* need_wakeup.                                                            *)
Unasked ==
  ~need_wakeup =>
    /\ vo # "process" => core \notin {"reconfig", "terminate"}
    /\ vo = "after" /\ ~working => frame_queued = NoFrame
    /\ vo \in {"wait", "sleep"} /\ until > 0 => Rest

Sleeper == asleep => vo = "sleep" /\ ~need_wakeup

IInv == TypeOK /\ Promised /\ Unasked /\ Sleeper

-----------------------------------------------------------------------------
(* The types of what the actions put together.                             *)
LEMMA Numbers ==
  /\ MaxLead \in Nat /\ MaxDuration \in Nat /\ MaxVsyncs \in Nat
  /\ Latest \in Nat /\ Forever = Latest + 1 /\ MaxLead <= Latest
  /\ Larger(MaxVsyncs, 1) \in Nat /\ Larger(MaxVsyncs, 1) >= 1
  /\ MaxVsyncs <= Larger(MaxVsyncs, 1)
  BY VoAssumption DEF Latest, Forever, Larger

(* What the fields of a frame are.                                         *)
LEMMA FrameFields ==
  ASSUME NEW f \in FrameType
  PROVE  /\ f # NoFrame
         /\ f.num_vsyncs \in Nat /\ f.num_vsyncs <= Larger(MaxVsyncs, 1)
         /\ f.early \in 0 .. MaxLead
         /\ f.end \in Int /\ -1 <= f.end /\ f.end <= Latest
  BY VoAssumption, Numbers DEF FrameType

(* What the player queues is a frame, and ends at a time that is known.    *)
LEMMA QueuedType ==
  ASSUME NEW f \in Synced \cup Timed
  PROVE  /\ f \in FrameType
         /\ Larger(f.end, 0) \in None .. Latest
<1>1. CASE f \in Synced
  <2>1. PICK n \in Vsyncs :
          f = [display_synced |-> TRUE, num_vsyncs |-> n, early |-> 0,
               droppable |-> FALSE, end |-> 0]
    BY <1>1 DEF Synced
  <2>2. n \in 0 .. Larger(MaxVsyncs, 1)
    BY Numbers, VoAssumption
  <2>. QED BY <2>1, <2>2, Numbers DEF FrameType, Larger, None
<1>2. CASE f \in Timed
  <2>1. PICK t \in Timings :
          f = [display_synced |-> FALSE, num_vsyncs |-> 1,
               droppable |-> t[2] >= 0, early |-> Larger(t[1], 0),
               end |-> t[1] + Larger(t[2], 0)]
    BY <1>2 DEF Timed
  <2>2. t[1] \in -1 .. MaxLead /\ t[2] \in -1 .. MaxDuration
    BY VoAssumption
  <2>3. /\ Larger(t[1], 0) \in 0 .. MaxLead
        /\ t[1] + Larger(t[2], 0) \in -1 .. Latest
    BY <2>2, Numbers DEF Larger, Latest
  <2>. QED BY <2>1, <2>3, Numbers DEF FrameType, Larger, None
<1>. QED BY <1>1, <1>2

-----------------------------------------------------------------------------
(* Types, in parts small enough for the provers: the flags of playback, of *)
(* requests between the threads and the others; where the threads are; and *)
(* frames and times.                                                       *)
Playback ==
  /\ config_ok \in BOOLEAN /\ hasframe \in BOOLEAN
  /\ hasframe_rendered \in BOOLEAN /\ rendering \in BOOLEAN
  /\ dropped_frame \in BOOLEAN /\ working \in BOOLEAN
  /\ terminate \in BOOLEAN

Requests ==
  /\ need_wakeup \in BOOLEAN /\ request_redraw \in BOOLEAN
  /\ want_redraw \in BOOLEAN /\ driver_redraw \in BOOLEAN
  /\ send_reset \in BOOLEAN /\ asleep \in BOOLEAN

Notes ==
  /\ paused \in BOOLEAN /\ vo_paused \in BOOLEAN /\ woken \in BOOLEAN
  /\ asked \in BOOLEAN /\ osd_stale \in BOOLEAN /\ damaged \in BOOLEAN

Places ==
  /\ vo \in {"process", "render", "draw", "flip", "after", "redraw",
             "redrawing", "wait", "sleep", "woke", "done"}
  /\ core \in {"idle", "ready", "waitframe", "redraw", "reconfig", "terminate",
               "join", "gone"}
  /\ awaiting \in {"no", "ready", "end"}
  /\ workload \in Workloads

Data ==
  /\ current_frame \in FrameType \cup {NoFrame}
  /\ frame_queued \in FrameType \cup {NoFrame}
  /\ frame \in IF vo \in {"draw", "flip"} THEN RenderType ELSE {NoFrame}
  /\ wakeup_pts \in None .. Latest /\ until \in 0 .. Forever

(* The parts make up the type invariant.                                   *)
LEMMA TypeParts ==
  TypeOK <=> Playback /\ Requests /\ Notes /\ Places /\ Data
<1>1. {current_frame, frame_queued} \subseteq FrameType \cup {NoFrame} <=>
        /\ current_frame \in FrameType \cup {NoFrame}
        /\ frame_queued \in FrameType \cup {NoFrame}
  OBVIOUS
<1>. QED BY <1>1, Zenon DEF TypeOK, Playback, Requests, Notes, Places, Data

(* At first there is no frame and the VO thread is about to look.          *)
LEMMA InitHolds == Init => IInv
<1>. SUFFICES ASSUME Init PROVE IInv
  OBVIOUS
<1>1. Playback /\ Requests
  BY DEF Init, Playback, Requests
<1>2. Notes /\ Places
  BY DEF Init, Notes, Places
<1>3. Data
  BY Numbers DEF Init, Data, None
<1>4. TypeOK
  BY <1>1, <1>2, <1>3, TypeParts
<1>. QED BY <1>4 DEF Init, IInv, Promised, Unasked, Sleeper

-----------------------------------------------------------------------------
(* Every step leaves flags, or gives them the values of conditions.        *)
LEMMA PlaybackPreserved == Playback /\ [Next]_vars => Playback'
<1>. SUFFICES ASSUME Playback, [Next]_vars PROVE Playback'
  OBVIOUS
<1>1. ASSUME NEW lead \in None .. MaxLead, IsReady(lead) PROVE Playback'
  BY <1>1 DEF Playback, IsReady, WakeupLocked, screen
<1>2. CASE AskDisplaying
  BY <1>2 DEF Playback, AskDisplaying, internal, thread, screen
<1>3. CASE SetPaused
  BY <1>3 DEF Playback, SetPaused, WakeupLocked, screen
<1>4. CASE ChangeOsd
  BY <1>4 DEF Playback, ChangeOsd, Redraw, WakeupLocked, noRedraw, player
<1>5. CASE SeekReset
  BY <1>5 DEF Playback, SeekReset, ForgetFrames, WakeupLocked, screen
<1>6. ASSUME NEW function \in {"reconfig", "terminate"}, Call(function)
      PROVE Playback'
  BY <1>6 DEF Playback, Call, WakeupLocked, screen
<1>7. ASSUME NEW f \in Synced \cup Timed, QueueFrame(f) PROVE Playback'
  BY <1>7 DEF Playback, QueueFrame, WakeupLocked, screen
<1>8. CASE WaitFrame
  BY <1>8 DEF Playback, WaitFrame, internal, thread, screen
<1>9. CASE Iterate
  BY <1>9 DEF Playback, Iterate, internal, thread, screen
<1>10. CASE RedrawForVo
  BY <1>10 DEF Playback, RedrawForVo, Redraw, WakeupLocked, noRedraw
<1>11. CASE Join
  BY <1>11 DEF Playback, Join, internal, thread, screen
<1>12. CASE Process
  BY <1>12 DEF Playback, Process, RunReconfig, TerminateVo, LeaveThread,
         ForgetFrames
<1>13. CASE RenderNothing
  BY <1>13 DEF Playback, RenderNothing, internal, player, screen
<1>14. CASE RenderDropped
  BY <1>14 DEF Playback, RenderDropped, Finish, screen
<1>15. CASE RenderBegin
  BY <1>15 DEF Playback, RenderBegin, screen
<1>16. CASE Draw
  BY <1>16 DEF Playback, Draw, internal, player
<1>17. CASE RenderEnd
  BY <1>17 DEF Playback, RenderEnd, Finish, screen
<1>18. CASE AfterRender
  BY <1>18 DEF Playback, AfterRender, PassOn, Due, screen
<1>19. CASE DoRedraw
  BY <1>19 DEF Playback, DoRedraw, player, screen
<1>20. CASE RedrawDraw
  BY <1>20 DEF Playback, RedrawDraw, internal, player
<1>21. CASE Wait
  BY <1>21 DEF Playback, Wait, internal, player, screen
<1>22. CASE Wake
  BY <1>22 DEF Playback, Wake, internal, player, screen
<1>23. CASE Woke
  BY <1>23 DEF Playback, Woke, player, screen
<1>24. CASE WindowEvent
  BY <1>24 DEF Playback, WindowEvent, internal, player, screen
<1>25. CASE Tick
  BY <1>25 DEF Playback, Tick, player, screen
<1>26. CASE UNCHANGED vars
  BY <1>26 DEF Playback, vars, internal, thread, player, screen
<1>. QED
  BY <1>1, <1>2, <1>3, <1>4, <1>5, <1>6, <1>7, <1>8, <1>9, <1>10, <1>11, <1>12,
     <1>13, <1>14, <1>15, <1>16, <1>17, <1>18, <1>19, <1>20, <1>21, <1>22,
     <1>23, <1>24, <1>25, <1>26
  DEF Next, PlayerCall, Reconfig, Destroy, PlayerStep, VoStep, Done

(* The flags of requests stay flags.                                       *)
LEMMA RequestsPreserved == Requests /\ [Next]_vars => Requests'
<1>. SUFFICES ASSUME Requests, [Next]_vars PROVE Requests'
  OBVIOUS
<1>1. ASSUME NEW lead \in None .. MaxLead, IsReady(lead) PROVE Requests'
  BY <1>1 DEF Requests, IsReady, WakeupLocked, screen
<1>2. CASE AskDisplaying
  BY <1>2 DEF Requests, AskDisplaying, internal, thread, screen
<1>3. CASE SetPaused
  BY <1>3 DEF Requests, SetPaused, WakeupLocked, screen
<1>4. CASE ChangeOsd
  BY <1>4 DEF Requests, ChangeOsd, Redraw, WakeupLocked, noRedraw, player
<1>5. CASE SeekReset
  BY <1>5 DEF Requests, SeekReset, ForgetFrames, WakeupLocked, screen
<1>6. ASSUME NEW function \in {"reconfig", "terminate"}, Call(function)
      PROVE Requests'
  BY <1>6 DEF Requests, Call, WakeupLocked, screen
<1>7. ASSUME NEW f \in Synced \cup Timed, QueueFrame(f) PROVE Requests'
  BY <1>7 DEF Requests, QueueFrame, WakeupLocked, screen
<1>8. CASE WaitFrame
  BY <1>8 DEF Requests, WaitFrame, internal, thread, screen
<1>9. CASE Iterate
  BY <1>9 DEF Requests, Iterate, internal, thread, screen
<1>10. CASE RedrawForVo
  BY <1>10 DEF Requests, RedrawForVo, Redraw, WakeupLocked, noRedraw
<1>11. CASE Join
  BY <1>11 DEF Requests, Join, internal, thread, screen
<1>12. CASE Process
  BY <1>12 DEF Requests, Process, RunReconfig, TerminateVo, LeaveThread,
         ForgetFrames
<1>13. CASE RenderNothing
  BY <1>13 DEF Requests, RenderNothing, internal, player, screen
<1>14. CASE RenderDropped
  BY <1>14 DEF Requests, RenderDropped, Finish, screen
<1>15. CASE RenderBegin
  BY <1>15 DEF Requests, RenderBegin, screen
<1>16. CASE Draw
  BY <1>16 DEF Requests, Draw, internal, player
<1>17. CASE RenderEnd
  BY <1>17 DEF Requests, RenderEnd, Finish, screen
<1>18. CASE AfterRender
  BY <1>18 DEF Requests, AfterRender, PassOn, Due, screen
<1>19. CASE DoRedraw
  BY <1>19 DEF Requests, DoRedraw, player, screen
<1>20. CASE RedrawDraw
  BY <1>20 DEF Requests, RedrawDraw, internal, player
<1>21. CASE Wait
  BY <1>21 DEF Requests, Wait, internal, player, screen
<1>22. CASE Wake
  BY <1>22 DEF Requests, Wake, internal, player, screen
<1>23. CASE Woke
  BY <1>23 DEF Requests, Woke, player, screen
<1>24. CASE WindowEvent
  BY <1>24 DEF Requests, WindowEvent, internal, player, screen
<1>25. CASE Tick
  BY <1>25 DEF Requests, Tick, player, screen
<1>26. CASE UNCHANGED vars
  BY <1>26 DEF Requests, vars, internal, thread, player, screen
<1>. QED
  BY <1>1, <1>2, <1>3, <1>4, <1>5, <1>6, <1>7, <1>8, <1>9, <1>10, <1>11, <1>12,
     <1>13, <1>14, <1>15, <1>16, <1>17, <1>18, <1>19, <1>20, <1>21, <1>22,
     <1>23, <1>24, <1>25, <1>26
  DEF Next, PlayerCall, Reconfig, Destroy, PlayerStep, VoStep, Done

(* So do the other flags,                                                  *)
LEMMA NotesPreserved == Notes /\ Requests /\ [Next]_vars => Notes'
<1>. SUFFICES ASSUME Notes, Requests, [Next]_vars PROVE Notes'
  OBVIOUS
<1>1. ASSUME NEW lead \in None .. MaxLead, IsReady(lead) PROVE Notes'
  BY <1>1 DEF Notes, Requests, IsReady, WakeupLocked, screen
<1>2. CASE AskDisplaying
  BY <1>2 DEF Notes, Requests, AskDisplaying, internal, thread, screen
<1>3. CASE SetPaused
  BY <1>3 DEF Notes, Requests, SetPaused, WakeupLocked, screen
<1>4. CASE ChangeOsd
  BY <1>4 DEF Notes, Requests, ChangeOsd, Redraw, WakeupLocked, noRedraw, player
<1>5. CASE SeekReset
  BY <1>5 DEF Notes, Requests, SeekReset, ForgetFrames, WakeupLocked, screen
<1>6. ASSUME NEW function \in {"reconfig", "terminate"}, Call(function)
      PROVE Notes'
  BY <1>6 DEF Notes, Requests, Call, WakeupLocked, screen
<1>7. ASSUME NEW f \in Synced \cup Timed, QueueFrame(f) PROVE Notes'
  BY <1>7 DEF Notes, Requests, QueueFrame, WakeupLocked, screen
<1>8. CASE WaitFrame
  BY <1>8 DEF Notes, Requests, WaitFrame, internal, thread, screen
<1>9. CASE Iterate
  BY <1>9 DEF Notes, Requests, Iterate, internal, thread, screen
<1>10. CASE RedrawForVo
  BY <1>10 DEF Notes, Requests, RedrawForVo, Redraw, WakeupLocked, noRedraw
<1>11. CASE Join
  BY <1>11 DEF Notes, Requests, Join, internal, thread, screen
<1>12. CASE Process
  BY <1>12 DEF Notes, Requests, Process, RunReconfig, TerminateVo, LeaveThread,
         ForgetFrames
<1>13. CASE RenderNothing
  BY <1>13 DEF Notes, Requests, RenderNothing, internal, player, screen
<1>14. CASE RenderDropped
  BY <1>14 DEF Notes, Requests, RenderDropped, Finish, screen
<1>15. CASE RenderBegin
  BY <1>15 DEF Notes, Requests, RenderBegin, screen
<1>16. CASE Draw
  BY <1>16 DEF Notes, Requests, Draw, internal, player
<1>17. CASE RenderEnd
  BY <1>17 DEF Notes, Requests, RenderEnd, Finish, screen
<1>18. CASE AfterRender
  BY <1>18 DEF Notes, Requests, AfterRender, PassOn, Due, screen
<1>19. CASE DoRedraw
  BY <1>19 DEF Notes, Requests, DoRedraw, player, screen
<1>20. CASE RedrawDraw
  BY <1>20 DEF Notes, Requests, RedrawDraw, internal, player
<1>21. CASE Wait
  BY <1>21 DEF Notes, Requests, Wait, internal, player, screen
<1>22. CASE Wake
  BY <1>22 DEF Notes, Requests, Wake, internal, player, screen
<1>23. CASE Woke
  BY <1>23 DEF Notes, Requests, Woke, player, screen
<1>24. CASE WindowEvent
  BY <1>24 DEF Notes, Requests, WindowEvent, internal, player, screen
<1>25. CASE Tick
  BY <1>25 DEF Notes, Requests, Tick, player, screen
<1>26. CASE UNCHANGED vars
  BY <1>26 DEF Notes, Requests, vars, internal, thread, player, screen
<1>. QED
  BY <1>1, <1>2, <1>3, <1>4, <1>5, <1>6, <1>7, <1>8, <1>9, <1>10, <1>11, <1>12,
     <1>13, <1>14, <1>15, <1>16, <1>17, <1>18, <1>19, <1>20, <1>21, <1>22,
     <1>23, <1>24, <1>25, <1>26
  DEF Next, PlayerCall, Reconfig, Destroy, PlayerStep, VoStep, Done

(* and both threads stay at places of their code.                          *)
LEMMA PlacesPreserved == Places /\ [Next]_vars => Places'
<1>. SUFFICES ASSUME Places, [Next]_vars PROVE Places'
  OBVIOUS
<1>1. ASSUME NEW lead \in None .. MaxLead, IsReady(lead) PROVE Places'
  BY <1>1 DEF Places, IsReady, WakeupLocked, screen
<1>2. CASE AskDisplaying
  BY <1>2 DEF Places, AskDisplaying, internal, thread, screen
<1>3. CASE SetPaused
  BY <1>3 DEF Places, SetPaused, WakeupLocked, screen
<1>4. CASE ChangeOsd
  BY <1>4 DEF Places, ChangeOsd, Redraw, WakeupLocked, noRedraw, player
<1>5. CASE SeekReset
  BY <1>5 DEF Places, SeekReset, ForgetFrames, WakeupLocked, screen
<1>6. ASSUME NEW function \in {"reconfig", "terminate"}, Call(function)
      PROVE Places'
  BY <1>6 DEF Places, Call, WakeupLocked, screen
<1>7. ASSUME NEW f \in Synced \cup Timed, QueueFrame(f) PROVE Places'
  BY <1>7 DEF Places, QueueFrame, WakeupLocked, screen
<1>8. CASE WaitFrame
  BY <1>8 DEF Places, WaitFrame, internal, thread, screen
<1>9. CASE Iterate
  BY <1>9 DEF Places, Iterate, internal, thread, screen
<1>10. CASE RedrawForVo
  BY <1>10 DEF Places, RedrawForVo, Redraw, WakeupLocked, noRedraw
<1>11. CASE Join
  BY <1>11 DEF Places, Join, internal, thread, screen
<1>12. CASE Process
  BY <1>12 DEF Places, Process, RunReconfig, TerminateVo, LeaveThread,
         ForgetFrames
<1>13. CASE RenderNothing
  BY <1>13 DEF Places, RenderNothing, internal, player, screen
<1>14. CASE RenderDropped
  BY <1>14 DEF Places, RenderDropped, Finish, screen
<1>15. CASE RenderBegin
  BY <1>15 DEF Places, RenderBegin, screen
<1>16. CASE Draw
  BY <1>16 DEF Places, Draw, internal, player
<1>17. CASE RenderEnd
  BY <1>17 DEF Places, RenderEnd, Finish, screen
<1>18. CASE AfterRender
  BY <1>18 DEF Places, AfterRender, PassOn, Due, screen
<1>19. CASE DoRedraw
  BY <1>19 DEF Places, DoRedraw, player, screen
<1>20. CASE RedrawDraw
  BY <1>20 DEF Places, RedrawDraw, internal, player
<1>21. CASE Wait
  BY <1>21 DEF Places, Wait, internal, player, screen
<1>22. CASE Wake
  BY <1>22 DEF Places, Wake, internal, player, screen
<1>23. CASE Woke
  BY <1>23 DEF Places, Woke, player, screen
<1>24. CASE WindowEvent
  BY <1>24 DEF Places, WindowEvent, internal, player, screen
<1>25. CASE Tick
  BY <1>25 DEF Places, Tick, player, screen
<1>26. CASE UNCHANGED vars
  BY <1>26 DEF Places, vars, internal, thread, player, screen
<1>. QED
  BY <1>1, <1>2, <1>3, <1>4, <1>5, <1>6, <1>7, <1>8, <1>9, <1>10, <1>11, <1>12,
     <1>13, <1>14, <1>15, <1>16, <1>17, <1>18, <1>19, <1>20, <1>21, <1>22,
     <1>23, <1>24, <1>25, <1>26
  DEF Next, PlayerCall, Reconfig, Destroy, PlayerStep, VoStep, Done

-----------------------------------------------------------------------------
(* What the code changes of a frame.                                       *)
LEMMA FrameUpdates ==
  ASSUME NEW f \in FrameType
  PROVE  /\ \A n \in 0 .. Larger(MaxVsyncs, 1) :
              [f EXCEPT !.num_vsyncs = n, !.display_synced = FALSE]
                \in FrameType
         /\ \A n \in 0 .. Larger(MaxVsyncs, 1), l \in 0 .. MaxLead,
               e \in -1 .. Latest :
              [f EXCEPT !.num_vsyncs = n, !.early = l, !.end = e] \in FrameType
         /\ \A l \in 0 .. MaxLead, e \in -1 .. Latest :
              [f EXCEPT !.early = l, !.end = e] \in FrameType
         /\ \A e \in -1 .. Latest : [f EXCEPT !.end = e] \in FrameType
<1>1. \A g \in FrameType : [g EXCEPT !.display_synced = FALSE] \in FrameType
  BY DEF FrameType
<1>2. \A g \in FrameType, n \in 0 .. Larger(MaxVsyncs, 1) :
        [g EXCEPT !.num_vsyncs = n] \in FrameType
  BY DEF FrameType
<1>3. \A g \in FrameType, l \in 0 .. MaxLead :
        [g EXCEPT !.early = l] \in FrameType
  BY DEF FrameType
<1>4. \A g \in FrameType, e \in -1 .. Latest :
        [g EXCEPT !.end = e] \in FrameType
  BY DEF FrameType
<1>5. \A l \in 0 .. MaxLead, e \in -1 .. Latest :
        [f EXCEPT !.early = l, !.end = e] \in FrameType
  BY <1>3, <1>4
<1>6. \A n \in 0 .. Larger(MaxVsyncs, 1), l \in 0 .. MaxLead,
         e \in -1 .. Latest :
        [f EXCEPT !.num_vsyncs = n, !.early = l, !.end = e] \in FrameType
  BY <1>2, <1>3, <1>4
<1>. QED BY <1>1, <1>2, <1>4, <1>5, <1>6

(* A frame that is drawn or dropped is there, and has been counted down.   *)
LEMMA DrawnType ==
  ASSUME Data, HasWork
  PROVE  Current \in FrameType /\ Drawn \in FrameType
<1>1. Current \in FrameType
  BY DEF HasWork, Current, Data
<1>2. Larger(Current.num_vsyncs - 1, 0) \in 0 .. Larger(MaxVsyncs, 1)
  BY <1>1, FrameFields, Numbers DEF Larger
<1>3. Larger(Current.end, 0) \in -1 .. Latest
  BY <1>1, FrameFields, Numbers DEF Larger
<1>4. 0 \in 0 .. MaxLead
  BY Numbers
<1>. QED BY <1>1, <1>2, <1>3, <1>4, FrameUpdates DEF Drawn

(* Frames keep their type, and times stay within their bounds.             *)
LEMMA DataPreserved == Data /\ [Next]_vars => Data'
<1>. SUFFICES ASSUME Data, [Next]_vars PROVE Data'
  OBVIOUS
<1>1. ASSUME NEW lead \in None .. MaxLead, IsReady(lead) PROVE Data'
  BY <1>1, Numbers DEF Data, IsReady, None
<1>2. CASE AskDisplaying
  BY <1>2 DEF Data, AskDisplaying, internal, thread, screen
<1>3. CASE SetPaused
  BY <1>3 DEF Data, SetPaused, WakeupLocked, screen
<1>4. CASE ChangeOsd
  BY <1>4 DEF Data, ChangeOsd, Redraw, WakeupLocked, noRedraw, player
<1>5. CASE SeekReset
  <2>1. current_frame' \in FrameType \cup {NoFrame}
    <3>1. 0 \in 0 .. Larger(MaxVsyncs, 1)
      BY Numbers
    <3>. QED BY <1>5, <3>1, FrameUpdates DEF Data, SeekReset, Stopped
  <2>. QED BY <1>5, <2>1 DEF Data, SeekReset, ForgetFrames
<1>6. ASSUME NEW function \in {"reconfig", "terminate"}, Call(function)
      PROVE Data'
  BY <1>6 DEF Data, Call, WakeupLocked, screen
<1>7. ASSUME NEW f \in Synced \cup Timed, QueueFrame(f) PROVE Data'
  <2>1. f \in FrameType /\ wakeup_pts' \in None .. Latest
    BY <1>7, QueuedType, Numbers DEF QueueFrame, None
  <2>. QED BY <1>7, <2>1 DEF Data, QueueFrame
<1>8. CASE WaitFrame
  BY <1>8 DEF Data, WaitFrame, internal, thread, screen
<1>9. CASE Iterate
  BY <1>9 DEF Data, Iterate, internal, thread, screen
<1>10. CASE RedrawForVo
  BY <1>10 DEF Data, RedrawForVo, Redraw, WakeupLocked, noRedraw
<1>11. CASE Join
  BY <1>11 DEF Data, Join, internal, thread, screen
<1>12. CASE Process
  BY <1>12 DEF Data, Process, RunReconfig, TerminateVo, LeaveThread,
         ForgetFrames
<1>13. CASE RenderNothing
  BY <1>13 DEF Data, RenderNothing, internal, player, screen
<1>14. CASE RenderDropped
  BY <1>14, DrawnType DEF Data, RenderDropped, Finish
<1>15. CASE RenderBegin
  <2>1. current_frame' \in FrameType /\ frame' \in RenderType
    BY <1>15, DrawnType, FrameFields DEF RenderBegin, RenderType
  <2>. QED BY <1>15, <2>1 DEF Data, RenderBegin
<1>16. CASE Draw
  BY <1>16 DEF Data, Draw, internal, player
<1>17. CASE RenderEnd
  BY <1>17 DEF Data, RenderEnd, Finish, screen
<1>18. CASE AfterRender
  <2>1. PICK busy \in {working, working \/ MayWork} :
          /\ vo' \in {"redraw", "wait"}
          /\ until' \in {0, WaitUntil(busy)}
    BY <1>18 DEF AfterRender
  <2>2. WaitUntil(busy) \in 0 .. Forever
    BY Numbers DEF Data, WaitUntil, None
  <2>3. wakeup_pts' \in None .. Latest
    BY <1>18, Numbers DEF Data, AfterRender, None
  <2>. QED BY <1>18, <2>1, <2>2, <2>3, Numbers DEF Data, AfterRender
<1>19. CASE DoRedraw
  BY <1>19 DEF Data, DoRedraw, player, screen
<1>20. CASE RedrawDraw
  BY <1>20 DEF Data, RedrawDraw, internal, player
<1>21. CASE Wait
  BY <1>21 DEF Data, Wait, internal, player, screen
<1>22. CASE Wake
  BY <1>22 DEF Data, Wake, internal, player, screen
<1>23. CASE Woke
  BY <1>23, Numbers DEF Data, Woke
<1>24. CASE WindowEvent
  BY <1>24 DEF Data, WindowEvent, internal, player, screen
<1>25. CASE Tick
  <2>1. wakeup_pts' \in None .. Latest /\ until' \in 0 .. Forever
    BY <1>25, Numbers DEF Data, Tick, Sooner, None
  <2>2. frame' \in IF vo \in {"draw", "flip"} THEN RenderType ELSE {NoFrame}
    <3>1. CASE frame \in RenderType
      <4>1. frame.target \in 0 .. MaxLead /\ frame # NoFrame
        BY <3>1, VoAssumption DEF RenderType
      <4>2. Sooner(frame.target) \in 0 .. MaxLead
        BY <4>1, Numbers DEF Sooner
      <4>3. frame' = [frame EXCEPT !.target = Sooner(frame.target)]
        BY <1>25, <4>1 DEF Tick
      <4>4. frame' \in RenderType /\ vo \in {"draw", "flip"} /\ vo' = vo
        BY <1>25, <3>1, <4>1, <4>2, <4>3 DEF RenderType, Data, Tick
      <4>. QED BY <4>4
    <3>2. CASE frame = NoFrame
      BY <1>25, <3>2, VoAssumption DEF Tick, Data
    <3>. QED BY <3>1, <3>2 DEF Data
  <2>3. frame_queued' \in FrameType \cup {NoFrame}
    <3>1. ASSUME frame_queued \in FrameType
          PROVE  frame_queued' \in FrameType
      <4>1. /\ Sooner(frame_queued.early) \in 0 .. MaxLead
            /\ Larger(frame_queued.end - 1, -1) \in -1 .. Latest
            /\ Sooner(frame_queued.end) \in -1 .. Latest
        BY <3>1, FrameFields, Numbers DEF Sooner, Larger
      <4>2. PICK e \in -1 .. Latest :
              frame_queued' \in {frame_queued,
                [frame_queued EXCEPT !.early = Sooner(frame_queued.early),
                                     !.end = e]}
        BY <1>25, <3>1, <4>1, FrameFields DEF Tick
      <4>3. [frame_queued EXCEPT !.early = Sooner(frame_queued.early),
                                   !.end = e]
              \in FrameType
        BY <3>1, <4>1, FrameUpdates
      <4>. QED BY <3>1, <4>2, <4>3
    <3>. QED BY <1>25, <3>1 DEF Data, Tick
  <2>4. current_frame' \in FrameType \cup {NoFrame}
    <3>1. ASSUME current_frame \in FrameType
          PROVE  current_frame' \in FrameType
      <4>1. Sooner(current_frame.end) \in -1 .. Latest
        BY <3>1, FrameFields, Numbers DEF Sooner
      <4>2. current_frame' =
              [current_frame EXCEPT !.end = Sooner(current_frame.end)]
        BY <1>25, <3>1, FrameFields DEF Tick
      <4>. QED BY <3>1, <4>1, <4>2, FrameUpdates
    <3>. QED BY <1>25, <3>1 DEF Data, Tick
  <2>. QED BY <1>25, <2>1, <2>2, <2>3, <2>4 DEF Data, Tick
<1>26. CASE UNCHANGED vars
  BY <1>26 DEF Data, vars, internal, thread, player, screen
<1>. QED
  BY <1>1, <1>2, <1>3, <1>4, <1>5, <1>6, <1>7, <1>8, <1>9, <1>10, <1>11, <1>12,
     <1>13, <1>14, <1>15, <1>16, <1>17, <1>18, <1>19, <1>20, <1>21, <1>22,
     <1>23, <1>24, <1>25, <1>26
  DEF Next, PlayerCall, Reconfig, Destroy, PlayerStep, VoStep, Done

(* Every step keeps every variable's type.                                 *)
LEMMA TypePreserved == TypeOK /\ [Next]_vars => TypeOK'
<1>1. TypeOK' <=> Playback' /\ Requests' /\ Notes' /\ Places' /\ Data'
  BY TypeParts, PTL
<1>. QED
  BY <1>1, TypeParts, PlaybackPreserved, RequestsPreserved, NotesPreserved,
     PlacesPreserved, DataPreserved

-----------------------------------------------------------------------------
(* Only the player makes work; the VO thread has none when the player was  *)
(* told that it may queue a frame.                                         *)
LEMMA PromisedPreserved == Data /\ Promised /\ [Next]_vars => Promised'
<1>. SUFFICES ASSUME Data, Promised, [Next]_vars PROVE Promised'
  OBVIOUS
<1>1. ASSUME NEW lead \in None .. MaxLead, IsReady(lead) PROVE Promised'
  <2>1. Ready' <=> Ready
    BY <1>1 DEF Ready, IsReady
  <2>. QED BY <1>1, <2>1 DEF Promised, IsReady
<1>2. CASE AskDisplaying
  BY <1>2 DEF Promised, Ready, AskDisplaying, internal, thread, screen
<1>3. CASE SetPaused
  BY <1>3 DEF Promised, Ready, SetPaused, WakeupLocked, screen
<1>4. CASE ChangeOsd
  BY <1>4 DEF Promised, Ready, ChangeOsd, Redraw, WakeupLocked, noRedraw, player
<1>5. CASE SeekReset
  BY <1>5 DEF Promised, SeekReset
<1>6. ASSUME NEW function \in {"reconfig", "terminate"}, Call(function)
      PROVE Promised'
  BY <1>6 DEF Promised, Ready, Call, WakeupLocked, screen
<1>7. ASSUME NEW f \in Synced \cup Timed, QueueFrame(f) PROVE Promised'
  BY <1>7 DEF Promised, Ready, QueueFrame, WakeupLocked, screen
<1>8. CASE WaitFrame
  BY <1>8 DEF Promised, Ready, WaitFrame, internal, thread, screen
<1>9. CASE Iterate
  BY <1>9 DEF Promised, Ready, Iterate, internal, thread, screen
<1>10. CASE RedrawForVo
  BY <1>10 DEF Promised, Ready, RedrawForVo, Redraw, WakeupLocked, noRedraw
<1>11. CASE Join
  BY <1>11 DEF Promised, Ready, Join, internal, thread, screen
<1>12. CASE Process
  <2>1. core' = "ready" =>
          /\ core = "ready"
          /\ UNCHANGED <<config_ok, frame_queued, current_frame>>
    BY <1>12 DEF Process, RunReconfig, TerminateVo, LeaveThread
  <2>. QED BY <2>1 DEF Promised, Ready
<1>13. CASE RenderNothing
  BY <1>13 DEF Promised, Ready, RenderNothing, internal, player, screen
<1>14. CASE RenderDropped
  <2>1. core # "ready"
    BY <1>14, FrameFields DEF Data, Promised, Ready, HasWork, RenderDropped
  <2>. QED BY <1>14, <2>1 DEF Promised, RenderDropped, Finish
<1>15. CASE RenderBegin
  <2>1. core # "ready"
    BY <1>15, FrameFields DEF Data, Promised, Ready, HasWork, RenderBegin
  <2>. QED BY <1>15, <2>1 DEF Promised, RenderBegin
<1>16. CASE Draw
  BY <1>16 DEF Promised, Ready, Draw, internal, player
<1>17. CASE RenderEnd
  BY <1>17 DEF Promised, Ready, RenderEnd, Finish, screen
<1>18. CASE AfterRender
  BY <1>18 DEF Promised, Ready, AfterRender
<1>19. CASE DoRedraw
  BY <1>19 DEF Promised, Ready, DoRedraw, player, screen
<1>20. CASE RedrawDraw
  BY <1>20 DEF Promised, Ready, RedrawDraw, internal, player
<1>21. CASE Wait
  BY <1>21 DEF Promised, Ready, Wait, internal, player, screen
<1>22. CASE Wake
  BY <1>22 DEF Promised, Ready, Wake, internal, player, screen
<1>23. CASE Woke
  BY <1>23 DEF Promised, Ready, Woke, player, screen
<1>24. CASE WindowEvent
  BY <1>24 DEF Promised, Ready, WindowEvent, internal, player, screen
<1>25. CASE Tick
  <2>1. CASE current_frame \in FrameType
    <3>1. current_frame' =
              [current_frame EXCEPT !.end = Sooner(current_frame.end)]
      BY <1>25, <2>1, FrameFields DEF Tick
    <3>2. current_frame'.num_vsyncs = current_frame.num_vsyncs
      BY <2>1, <3>1 DEF FrameType
    <3>3. /\ UNCHANGED <<config_ok, core>>
          /\ frame_queued = NoFrame => frame_queued' = NoFrame
      BY <1>25 DEF Tick, player
    <3>. QED BY <2>1, <3>2, <3>3, FrameFields DEF Promised, Ready
  <2>2. CASE current_frame = NoFrame
    BY <1>25, <2>2 DEF Promised, Ready, Tick, player
  <2>. QED BY <2>1, <2>2 DEF Data
<1>26. CASE UNCHANGED vars
  BY <1>26 DEF Promised, Ready, vars, internal, thread, player, screen
<1>. QED
  BY <1>1, <1>2, <1>3, <1>4, <1>5, <1>6, <1>7, <1>8, <1>9, <1>10, <1>11, <1>12,
     <1>13, <1>14, <1>15, <1>16, <1>17, <1>18, <1>19, <1>20, <1>21, <1>22,
     <1>23, <1>24, <1>25, <1>26
  DEF Next, PlayerCall, Reconfig, Destroy, PlayerStep, VoStep, Done

(* Whoever gives the VO thread something to do after it looked sets        *)
(* need_wakeup.                                                            *)
LEMMA UnaskedPreserved == Data /\ Places /\ Unasked /\ [Next]_vars => Unasked'
<1>. SUFFICES ASSUME Data, Places, Unasked, [Next]_vars PROVE Unasked'
  OBVIOUS
<1>1. ASSUME NEW lead \in None .. MaxLead, IsReady(lead) PROVE Unasked'
  BY <1>1 DEF Unasked, Rest, Places, IsReady, WakeupLocked
<1>2. CASE AskDisplaying
  BY <1>2 DEF Unasked, Rest, AskDisplaying, internal, thread, screen
<1>3. CASE SetPaused
  BY <1>3 DEF Unasked, Rest, SetPaused, WakeupLocked, screen
<1>4. CASE ChangeOsd
  BY <1>4 DEF Unasked, Rest, ChangeOsd, Redraw, WakeupLocked, noRedraw, player
<1>5. CASE SeekReset
  BY <1>5 DEF Unasked, Rest, SeekReset, ForgetFrames, WakeupLocked, screen
<1>6. ASSUME NEW function \in {"reconfig", "terminate"}, Call(function)
      PROVE Unasked'
  BY <1>6 DEF Unasked, Rest, Call, WakeupLocked, screen
<1>7. ASSUME NEW f \in Synced \cup Timed, QueueFrame(f) PROVE Unasked'
  BY <1>7 DEF Unasked, Rest, QueueFrame, WakeupLocked, screen
<1>8. CASE WaitFrame
  BY <1>8 DEF Unasked, Rest, WaitFrame, internal, thread, screen
<1>9. CASE Iterate
  BY <1>9 DEF Unasked, Rest, Iterate, internal, thread, screen
<1>10. CASE RedrawForVo
  BY <1>10 DEF Unasked, Rest, RedrawForVo, Redraw, WakeupLocked, noRedraw
<1>11. CASE Join
  BY <1>11 DEF Unasked, Rest, Join, internal, thread, screen
<1>12. CASE Process
  BY <1>12 DEF Unasked, Process, RunReconfig, TerminateVo, LeaveThread
<1>13. CASE RenderNothing
  BY <1>13 DEF Unasked, HasWork, RenderNothing, internal, player
<1>14. CASE RenderDropped
  BY <1>14 DEF Unasked, RenderDropped, Finish
<1>15. CASE RenderBegin
  BY <1>15 DEF Unasked, Rest, RenderBegin, screen
<1>16. CASE Draw
  BY <1>16 DEF Unasked, Rest, Draw, internal, player
<1>17. CASE RenderEnd
  BY <1>17 DEF Unasked, RenderEnd, Finish
<1>18. CASE AfterRender
  <2>1. SUFFICES ASSUME ~need_wakeup, vo' = "wait", until' > 0 PROVE Rest'
    BY <1>18 DEF Unasked, AfterRender
  <2>2. PICK busy \in {working, working \/ MayWork} :
          until' = WaitUntil(busy) /\ ~request_redraw
    BY <1>18, <2>1 DEF AfterRender
  <2>3. ~busy /\ ~working
    <3>1. ~busy
      BY <2>1, <2>2 DEF WaitUntil
    <3>. QED BY <2>2, <3>1, Zenon
  <2>4. wakeup_pts' = None \/ until' <= wakeup_pts'
    BY <1>18, <2>2, <2>3, Numbers DEF Data, WaitUntil, AfterRender, Due, None
  <2>5. frame_queued = NoFrame
    BY <1>18, <2>1, <2>3 DEF Unasked, AfterRender
  <2>. QED BY <1>18, <2>2, <2>4, <2>5 DEF Rest, AfterRender
<1>19. CASE DoRedraw
  BY <1>19 DEF Unasked, Rest, DoRedraw, player, screen
<1>20. CASE RedrawDraw
  BY <1>20 DEF Unasked, Rest, RedrawDraw, internal, player
<1>21. CASE Wait
  BY <1>21 DEF Unasked, Rest, Wait, internal, player
<1>22. CASE Wake
  BY <1>22 DEF Unasked, Rest, Wake, internal, player
<1>23. CASE Woke
  BY <1>23 DEF Unasked, Rest, Woke, player, screen
<1>24. CASE WindowEvent
  BY <1>24 DEF Unasked, Rest, WindowEvent, internal, player, screen
<1>25. CASE Tick
  <2>1. /\ UNCHANGED <<need_wakeup, vo, core, working, request_redraw,
                       send_reset, paused, vo_paused>>
        /\ frame_queued = NoFrame => frame_queued' = NoFrame
    BY <1>25 DEF Tick, player
  <2>2. ASSUME until' > 0, until <= wakeup_pts
        PROVE  until' <= wakeup_pts'
    <3>1. until \in 0 .. Forever /\ wakeup_pts \in None .. Latest
      BY DEF Data
    <3>2. wakeup_pts' = Sooner(wakeup_pts) /\ until' \in {until, Sooner(until)}
      BY <1>25 DEF Tick
    <3>3. until # Forever
      BY <2>2, <3>1, Numbers DEF None
    <3>4. until' = Sooner(until)
      BY <1>25, <3>3 DEF Tick
    <3>. QED BY <2>2, <3>1, <3>2, <3>4, Numbers DEF Sooner, None
  <2>3. until' > 0 => until > 0
    BY <1>25, Numbers DEF Data, Tick, Sooner
  <2>4. wakeup_pts = None => wakeup_pts' = None
    BY <1>25 DEF Tick, Sooner, None
  <2>. QED BY <2>1, <2>2, <2>3, <2>4 DEF Unasked, Rest
<1>26. CASE UNCHANGED vars
  BY <1>26 DEF Unasked, Rest, vars, internal, thread, player, screen
<1>. QED
  BY <1>1, <1>2, <1>3, <1>4, <1>5, <1>6, <1>7, <1>8, <1>9, <1>10, <1>11, <1>12,
     <1>13, <1>14, <1>15, <1>16, <1>17, <1>18, <1>19, <1>20, <1>21, <1>22,
     <1>23, <1>24, <1>25, <1>26
  DEF Next, PlayerCall, Reconfig, Destroy, PlayerStep, VoStep, Done

(* The VO thread blocks only without need_wakeup, and who sets it wakes    *)
(* the thread.                                                             *)
LEMMA SleeperPreserved == Sleeper /\ [Next]_vars => Sleeper'
<1>. SUFFICES ASSUME Sleeper, [Next]_vars PROVE Sleeper'
  OBVIOUS
<1>1. ASSUME NEW lead \in None .. MaxLead, IsReady(lead) PROVE Sleeper'
  BY <1>1 DEF Sleeper, IsReady, WakeupLocked, screen
<1>2. CASE AskDisplaying
  BY <1>2 DEF Sleeper, AskDisplaying, internal, thread, screen
<1>3. CASE SetPaused
  BY <1>3 DEF Sleeper, SetPaused, WakeupLocked, screen
<1>4. CASE ChangeOsd
  BY <1>4 DEF Sleeper, ChangeOsd, Redraw, WakeupLocked, noRedraw, player
<1>5. CASE SeekReset
  BY <1>5 DEF Sleeper, SeekReset, ForgetFrames, WakeupLocked, screen
<1>6. ASSUME NEW function \in {"reconfig", "terminate"}, Call(function)
      PROVE Sleeper'
  BY <1>6 DEF Sleeper, Call, WakeupLocked, screen
<1>7. ASSUME NEW f \in Synced \cup Timed, QueueFrame(f) PROVE Sleeper'
  BY <1>7 DEF Sleeper, QueueFrame, WakeupLocked, screen
<1>8. CASE WaitFrame
  BY <1>8 DEF Sleeper, WaitFrame, internal, thread, screen
<1>9. CASE Iterate
  BY <1>9 DEF Sleeper, Iterate, internal, thread, screen
<1>10. CASE RedrawForVo
  BY <1>10 DEF Sleeper, RedrawForVo, Redraw, WakeupLocked, noRedraw
<1>11. CASE Join
  BY <1>11 DEF Sleeper, Join, internal, thread, screen
<1>12. CASE Process
  BY <1>12 DEF Sleeper, Process, RunReconfig, TerminateVo, LeaveThread,
         ForgetFrames
<1>13. CASE RenderNothing
  BY <1>13 DEF Sleeper, RenderNothing, internal, player, screen
<1>14. CASE RenderDropped
  BY <1>14 DEF Sleeper, RenderDropped, Finish, screen
<1>15. CASE RenderBegin
  BY <1>15 DEF Sleeper, RenderBegin, screen
<1>16. CASE Draw
  BY <1>16 DEF Sleeper, Draw, internal, player
<1>17. CASE RenderEnd
  BY <1>17 DEF Sleeper, RenderEnd, Finish, screen
<1>18. CASE AfterRender
  BY <1>18 DEF Sleeper, AfterRender, PassOn, Due, screen
<1>19. CASE DoRedraw
  BY <1>19 DEF Sleeper, DoRedraw, player, screen
<1>20. CASE RedrawDraw
  BY <1>20 DEF Sleeper, RedrawDraw, internal, player
<1>21. CASE Wait
  BY <1>21 DEF Sleeper, Wait, internal, player, screen
<1>22. CASE Wake
  BY <1>22 DEF Sleeper, Wake, internal, player, screen
<1>23. CASE Woke
  BY <1>23 DEF Sleeper, Woke, player, screen
<1>24. CASE WindowEvent
  BY <1>24 DEF Sleeper, WindowEvent, internal, player, screen
<1>25. CASE Tick
  BY <1>25 DEF Sleeper, Tick, player, screen
<1>26. CASE UNCHANGED vars
  BY <1>26 DEF Sleeper, vars, internal, thread, player, screen
<1>. QED
  BY <1>1, <1>2, <1>3, <1>4, <1>5, <1>6, <1>7, <1>8, <1>9, <1>10, <1>11, <1>12,
     <1>13, <1>14, <1>15, <1>16, <1>17, <1>18, <1>19, <1>20, <1>21, <1>22,
     <1>23, <1>24, <1>25, <1>26
  DEF Next, PlayerCall, Reconfig, Destroy, PlayerStep, VoStep, Done

-----------------------------------------------------------------------------
(* The invariant of every behaviour.                                       *)
LEMMA Invariance == Spec => []IInv
<1>1. IInv /\ [Next]_vars => IInv'
  <2>. SUFFICES ASSUME IInv, [Next]_vars PROVE IInv'
    OBVIOUS
  <2>1. TypeOK /\ Playback /\ Requests /\ Notes /\ Places /\ Data
    BY TypeParts DEF IInv
  <2>2. Promised /\ Unasked /\ Sleeper
    BY DEF IInv
  <2>. QED
    BY <2>1, <2>2, TypePreserved, PromisedPreserved, UnaskedPreserved,
       SleeperPreserved DEF IInv
<1>. QED BY InitHolds, <1>1, PTL DEF Spec

(* Frames, times and flags of vo.c have their types at any bounds: among   *)
(* them, num_vsyncs is never negative and wakeup_pts is a frame's time.    *)
THEOREM TypeCorrect == Spec => []TypeOK
<1>1. IInv => TypeOK
  BY DEF IInv
<1>. QED BY Invariance, <1>1, PTL

(* vo_queue_frame()'s assertion that the VO is ready holds.                *)
THEOREM FramesAccepted == Spec => []QueueAsserted
<1>1. IInv => QueueAsserted
  BY DEF IInv, Promised, Ready, QueueAsserted
<1>. QED BY Invariance, <1>1, PTL

(* The VO thread never sleeps while it has something to do.                *)
THEOREM SleeperIdle == Spec => []SleepsIdle
<1>1. IInv => SleepsIdle
  BY DEF IInv, Unasked, Sleeper, Rest, SleepsIdle
<1>. QED BY Invariance, <1>1, PTL
=============================================================================
