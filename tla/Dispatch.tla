------------------------------ MODULE Dispatch ------------------------------
(***************************************************************************)
(* misc/dispatch.c: the queue through which every other thread reaches the *)
(* state that belongs to one target thread (the player core, the VO        *)
(* thread, a window thread).  Other threads queue callbacks for the target *)
(* (enqueue, enqueue_notify, run) or stop it and use its state themselves  *)
(* (lock, unlock).  The target serves both in mp_dispatch_queue_process(). *)
(*                                                                         *)
(* queue->lock is a mutex that every function holds while it touches the   *)
(* queue, so a step of this module is one critical section: the code from  *)
(* a pthread_mutex_lock() (or the return of a pthread_cond_wait()) to the  *)
(* next pthread_mutex_unlock() (or wait).  A callback, a wakeup_fn() call  *)
(* and the user code between two calls run with the mutex released.        *)
(***************************************************************************)
EXTENDS Integers, Sequences, FiniteSets

CONSTANTS Target,       \* the thread that owns the dispatch queue
          Clients,      \* the other threads
          Fns,          \* callbacks (fn with its fn_data) queued asynchronously
          HasWakeupFn,  \* mp_dispatch_set_wakeup_fn() was called
          MaxDepth,     \* bound: nested mp_dispatch_queue_process() calls
          MaxItems,     \* bound: items in the queue
          NoThread, NoItem

Threads == Clients \cup {Target}

(* struct mp_dispatch_item.  The item of mp_dispatch_run() lives on the    *)
(* stack of the calling client and is named after it.                      *)
Items == [fn : Fns \cup Clients, asynchronous : BOOLEAN, mergeable : BOOLEAN]
AsyncItem(f)  == [fn |-> f, asynchronous |-> TRUE,  mergeable |-> FALSE]
NotifyItem(f) == [fn |-> f, asynchronous |-> TRUE,  mergeable |-> TRUE]
RunItem(c)    == [fn |-> c, asynchronous |-> FALSE, mergeable |-> FALSE]

(* struct lock_frame, with the two other locals of the invocation it       *)
(* belongs to: "wait > 0" and the item being run.                          *)
Frames == [thread : Threads, locked : BOOLEAN,
           locked_thread : Threads \cup {NoThread},
           wait : BOOLEAN, item : Items \cup {NoItem}]

ASSUME DispatchAssumption ==
  /\ Target \notin Clients
  /\ NoThread \notin Clients \cup {Target}
  /\ Fns \cap Clients = {}
  /\ HasWakeupFn \in BOOLEAN
  /\ MaxDepth \in Nat /\ MaxItems \in Nat
  /\ NoItem \notin Items

VARIABLES
  items,         \* queue->head ... queue->tail
  interrupted, idling, lock_request,
  frame,         \* queue->frame and its ->prev chain, the top frame last
  cond,          \* the threads blocked on queue->cond
  pc,            \* where each thread is
  calls,         \* the invocations of queue_process each thread is inside of
  held,          \* the depth of the frame each thread has locked, or 0
  completed,     \* item.completed of each client's mp_dispatch_run()
  awake          \* wakeup_fn() was called since the target last slept

vars == <<items, interrupted, idling, lock_request, frame, cond, pc, calls,
          held, completed, awake>>

PCs == {"user",               \* outside of this file, or in a callback
        "sleep",              \* the target sleeps on a primitive of its own
        "blocked",            \* queue_process: waits for a lock's end
        "timedwait",          \* queue_process: waits for work
        "wakeup",             \* append: about to call wakeup_fn()
        "runwakeup", "run",   \* mp_dispatch_run: the same, then the wait
        "grab",               \* mp_dispatch_lock: another lock is requested
        "kick",               \* mp_dispatch_lock: about to call wakeup_fn()
        "kicked",             \* mp_dispatch_lock: has called it
        "trap"}               \* mp_dispatch_lock: waits for idling

TypeOK ==
  /\ items \in Seq(Items)
  /\ interrupted \in BOOLEAN /\ idling \in BOOLEAN /\ lock_request \in BOOLEAN
  /\ frame \in Seq(Frames)
  /\ cond \in SUBSET Threads
  /\ pc \in [Threads -> PCs]
  /\ calls \in [Threads -> SUBSET (Nat \ {0})]
  /\ held \in [Threads -> Nat]
  /\ completed \in [Clients -> BOOLEAN]
  /\ awake \in BOOLEAN

-----------------------------------------------------------------------------
Init ==
  /\ items = <<>>
  /\ interrupted = FALSE /\ idling = FALSE /\ lock_request = FALSE
  /\ frame = <<>>
  /\ cond = {}
  /\ pc = [t \in Threads |-> "user"]
  /\ calls = [t \in Threads |-> {}]
  /\ held = [t \in Threads |-> 0]
  /\ completed = [c \in Clients |-> FALSE]
  /\ awake = FALSE

(* The invocation of queue_process a thread is in, innermost first.        *)
Innermost(t) == {k \in calls[t] : \A j \in calls[t] : j <= k}

(* The three places from which user code may touch the target's state: the *)
(* target between two calls, a callback, and the holder of the lock.       *)
Free(t)      == calls[t] = {} /\ held[t] = 0
InItem(t, k) == k \in Innermost(t) /\ frame[k].item # NoItem
HasLock(t)   == calls[t] = {} /\ held[t] # 0

Owns(t) ==
  /\ pc[t] \in {"user", "sleep", "wakeup"}
  /\ \/ t = Target /\ Free(t)
     \/ \E k \in calls[t] : InItem(t, k)
     \/ HasLock(t)

Accesses(t) == pc[t] = "user" /\ Owns(t)

Goto(t, l) == pc' = [pc EXCEPT ![t] = l]

-----------------------------------------------------------------------------
(* mp_dispatch_queue_process(): the body of its while (1), run by t in the *)
(* invocation k.  fr, cl, idl and cnd are frame, calls, idling and cond as *)
(* the code before it in the same critical section left them.              *)
Mut_IsBlocked(k, fr) == lock_request \/ Len(fr) # k   \* ignores the holder
IsBlocked(k, fr) == lock_request \/ Len(fr) # k \/ fr[k].locked

Block(t, k, fr, cl, idl, cnd) ==
  /\ IsBlocked(k, fr)
  /\ frame' = fr /\ calls' = cl /\ idling' = idl /\ cond' = cnd \cup {t}
  /\ Goto(t, "blocked")
  /\ UNCHANGED <<items, interrupted>>

Mut_TakeItem_idles(t, k, fr, cl, idl, cnd) ==   \* idling stays set
  /\ ~IsBlocked(k, fr) /\ items # <<>>
  /\ items' = Tail(items)
  /\ frame' = [fr EXCEPT ![k].item = Head(items)] /\ calls' = cl
  /\ idling' = idl /\ cond' = cnd
  /\ Goto(t, "user")
  /\ UNCHANGED interrupted

Mut_TakeItem_keeps(t, k, fr, cl, idl, cnd) ==   \* the item stays in the list
  /\ ~IsBlocked(k, fr) /\ items # <<>>
  /\ frame' = [fr EXCEPT ![k].item = Head(items)] /\ calls' = cl
  /\ idling' = FALSE /\ cond' = cnd
  /\ Goto(t, "user")
  /\ UNCHANGED <<items, interrupted>>

TakeItem(t, k, fr, cl, idl, cnd) ==
  /\ ~IsBlocked(k, fr) /\ items # <<>>
  /\ items' = Tail(items)
  /\ frame' = [fr EXCEPT ![k].item = Head(items)] /\ calls' = cl
  /\ idling' = FALSE /\ cond' = cnd
  /\ Goto(t, "user")
  /\ UNCHANGED interrupted

TimedWait(t, k, fr, cl, idl, cnd) ==
  /\ ~IsBlocked(k, fr) /\ items = <<>> /\ fr[k].wait /\ ~interrupted
  /\ frame' = fr /\ calls' = cl /\ idling' = idl /\ cond' = cnd \cup {t}
  /\ Goto(t, "timedwait")
  /\ UNCHANGED <<items, interrupted>>

Mut_Return(t, k, fr, cl, idl, cnd) ==           \* idling stays set
  /\ ~IsBlocked(k, fr) /\ items = <<>> /\ (interrupted \/ ~fr[k].wait)
  /\ frame' = SubSeq(fr, 1, k - 1) /\ calls' = [cl EXCEPT ![t] = @ \ {k}]
  /\ interrupted' = FALSE /\ idling' = idl /\ cond' = cnd
  /\ Goto(t, "user")
  /\ UNCHANGED items

Return(t, k, fr, cl, idl, cnd) ==
  /\ ~IsBlocked(k, fr) /\ items = <<>> /\ (interrupted \/ ~fr[k].wait)
  /\ frame' = SubSeq(fr, 1, k - 1) /\ calls' = [cl EXCEPT ![t] = @ \ {k}]
  /\ idling' = FALSE /\ interrupted' = FALSE /\ cond' = cnd
  /\ Goto(t, "user")
  /\ UNCHANGED items

Loop(t, k, fr, cl, idl, cnd) ==
  \/ Block(t, k, fr, cl, idl, cnd)
  \/ TakeItem(t, k, fr, cl, idl, cnd)
  \/ TimedWait(t, k, fr, cl, idl, cnd)
  \/ Return(t, k, fr, cl, idl, cnd)

(* The frame of a new invocation of t, called with a timeout or not.       *)
NewFrame(t, w) ==
  [thread |-> t, locked |-> FALSE, locked_thread |-> NoThread,
   wait |-> w, item |-> NoItem]

Mut_Process(t, w) ==      \* no broadcast for a pending lock
  /\ Accesses(t) \/ (t = Target /\ pc[t] = "sleep" /\ awake)
  /\ Len(frame) < MaxDepth
  /\ awake' = (awake /\ pc[t] # "sleep")
  /\ LET k == Len(frame) + 1
     IN  Loop(t, k, Append(frame, NewFrame(t, w)),
              [calls EXCEPT ![t] = @ \cup {k}], TRUE, cond)
  /\ UNCHANGED <<lock_request, held, completed>>

Process(t, w) ==
  /\ Accesses(t) \/ (t = Target /\ pc[t] = "sleep" /\ awake)
  /\ Len(frame) < MaxDepth
  /\ awake' = (awake /\ pc[t] # "sleep")
  /\ LET k == Len(frame) + 1
     IN  Loop(t, k, Append(frame, NewFrame(t, w)),
              [calls EXCEPT ![t] = @ \cup {k}], TRUE,
              IF lock_request THEN {} ELSE cond)
  /\ UNCHANGED <<lock_request, held, completed>>

(* The return of either wait, which evaluates the loop's condition again.  *)
Resume(t) ==
  /\ pc[t] \in {"blocked", "timedwait"} /\ t \notin cond
  /\ \E k \in Innermost(t) : Loop(t, k, frame, calls, idling, cond)
  /\ UNCHANGED <<lock_request, held, completed, awake>>

(* The timeout passes: pthread_cond_timedwait() fails and wait becomes 0.  *)
Timeout(t) ==
  /\ pc[t] = "timedwait" /\ t \in cond
  /\ \E k \in Innermost(t) : frame' = [frame EXCEPT ![k].wait = FALSE]
  /\ cond' = cond \ {t}
  /\ UNCHANGED <<items, interrupted, idling, lock_request, pc, calls, held,
                 completed, awake>>

(* The callback returns; the loop goes on in the same critical section.    *)
Mut_ItemDone(t) ==        \* no broadcast after the callback
  /\ pc[t] = "user"
  /\ \E k \in calls[t] :
       /\ InItem(t, k)
       /\ completed' = [c \in Clients |->
                          completed[c] \/ frame[k].item = RunItem(c)]
       /\ Loop(t, k, [frame EXCEPT ![k].item = NoItem], calls, TRUE, cond)
  /\ UNCHANGED <<lock_request, held, awake>>

ItemDone(t) ==
  /\ pc[t] = "user"
  /\ \E k \in calls[t] :
       /\ InItem(t, k)
       /\ completed' = [c \in Clients |->
                          completed[c] \/ frame[k].item = RunItem(c)]
       /\ Loop(t, k, [frame EXCEPT ![k].item = NoItem], calls, TRUE, {})
  /\ UNCHANGED <<lock_request, held, awake>>

-----------------------------------------------------------------------------
(* mp_dispatch_append(), with the pc that follows a call of wakeup_fn and  *)
(* the pc that follows none.                                               *)
Mergeable(item) ==
  item.mergeable /\ \E i \in 1..Len(items) : items[i] = item

Mut_AppendItem_nokick(t, item, kick, done) ==   \* no wakeup_fn() call
  /\ Len(items) < MaxItems
  /\ items' = Append(items, item)
  /\ cond' = {}
  /\ interrupted' = (interrupted \/ ~HasWakeupFn)
  /\ Goto(t, done)
  /\ UNCHANGED <<idling, lock_request, frame, calls, held, awake>>

AppendItem(t, item, kick, done) ==
  /\ Len(items) < MaxItems
  /\ IF Mergeable(item)
       THEN Goto(t, done) /\ UNCHANGED <<items, interrupted, cond>>
       ELSE /\ items' = Append(items, item)
            /\ cond' = {}
            /\ interrupted' = (interrupted \/ ~HasWakeupFn)
            /\ Goto(t, IF HasWakeupFn THEN kick ELSE done)
  /\ UNCHANGED <<idling, lock_request, frame, calls, held, awake>>

(* mp_dispatch_enqueue() and its _autofree variant; enqueue_notify().      *)
Enqueue(t, f) ==
  /\ pc[t] = "user"
  /\ AppendItem(t, AsyncItem(f), "wakeup", "user")
  /\ UNCHANGED completed

EnqueueNotify(t, f) ==
  /\ pc[t] = "user"
  /\ AppendItem(t, NotifyItem(f), "wakeup", "user")
  /\ UNCHANGED completed

(* mp_dispatch_run(): queue the item on the stack, then wait for it.       *)
Run(c) ==
  /\ pc[c] = "user" /\ Free(c)
  /\ completed' = [completed EXCEPT ![c] = FALSE]
  /\ AppendItem(c, RunItem(c), "runwakeup", "run")

RunWait(c) ==
  /\ pc[c] = "run" /\ c \notin cond
  /\ IF completed[c] THEN Goto(c, "user") /\ UNCHANGED cond
                     ELSE cond' = cond \cup {c} /\ UNCHANGED pc
  /\ UNCHANGED <<items, interrupted, idling, lock_request, frame, calls,
                 held, completed, awake>>

WakeupFn(t) ==
  /\ \/ pc[t] = "wakeup" /\ Goto(t, "user")
     \/ pc[t] = "runwakeup" /\ Goto(t, "run")
     \/ pc[t] = "kick" /\ Goto(t, "kicked")
  /\ awake' = (awake \/ HasWakeupFn)
  /\ UNCHANGED <<items, interrupted, idling, lock_request, frame, cond, calls,
                 held, completed>>

CancelFn(t, f) ==
  /\ pc[t] = "user"
  /\ LET kept == {i \in 1..Len(items) : items[i].fn # f}
         n == Cardinality(kept)
     IN  \E at \in [1..n -> kept] :      \* the kept entries in their order
           /\ \A i, j \in 1..n : i < j => at[i] < at[j]
           /\ items' = [i \in 1..n |-> items[at[i]]]
  /\ UNCHANGED <<interrupted, idling, lock_request, frame, cond, pc, calls,
                 held, completed, awake>>

Interrupt(t) ==
  /\ pc[t] = "user"
  /\ interrupted' = TRUE
  /\ cond' = {}
  /\ UNCHANGED <<items, idling, lock_request, frame, pc, calls, held,
                 completed, awake>>

-----------------------------------------------------------------------------
(* mp_dispatch_lock(): the end of the function, reached once idling is set *)
(* while this thread's request stands.                                     *)
Grant(t) ==
  /\ idling
  /\ frame' = [frame EXCEPT ![Len(frame)].locked = TRUE,
                            ![Len(frame)].locked_thread = t]
  /\ lock_request' = FALSE
  /\ idling' = FALSE
  /\ held' = [held EXCEPT ![t] = Len(frame)]
  /\ Goto(t, "user")

(* The first loop: another thread's request is pending.                    *)
Mut_Lock(c) ==            \* waits for idling without calling wakeup_fn()
  /\ \/ pc[c] = "user" /\ Free(c)
     \/ pc[c] = "grab" /\ c \notin cond
  /\ \/ /\ lock_request
        /\ cond' = cond \cup {c} /\ Goto(c, "grab")
        /\ UNCHANGED <<idling, lock_request, frame, held>>
     \/ /\ ~lock_request /\ ~idling
        /\ lock_request' = TRUE /\ Goto(c, "kicked")
        /\ UNCHANGED <<idling, frame, cond, held>>
     \/ ~lock_request /\ Grant(c) /\ UNCHANGED cond
  /\ UNCHANGED <<items, interrupted, calls, completed, awake>>

Lock(c) ==
  /\ \/ pc[c] = "user" /\ Free(c)
     \/ pc[c] = "grab" /\ c \notin cond
  /\ \/ /\ lock_request
        /\ cond' = cond \cup {c} /\ Goto(c, "grab")
        /\ UNCHANGED <<idling, lock_request, frame, held>>
     \/ /\ ~lock_request /\ ~idling
        /\ lock_request' = TRUE /\ Goto(c, "kick")
        /\ UNCHANGED <<idling, frame, cond, held>>
     \/ ~lock_request /\ Grant(c) /\ UNCHANGED cond
  /\ UNCHANGED <<items, interrupted, calls, completed, awake>>

(* The second loop: wait until the target is caught in queue_process.  A   *)
(* thread that wakes up from the wait finds idling or calls wakeup_fn()    *)
(* again before it waits once more.                                        *)
LockWait(c) ==
  /\ \/ /\ pc[c] \in {"kicked", "trap"} /\ c \notin cond
        /\ Grant(c)
        /\ UNCHANGED cond
     \/ /\ pc[c] = "kicked" /\ ~idling
        /\ cond' = cond \cup {c} /\ Goto(c, "trap")
        /\ UNCHANGED <<idling, lock_request, frame, held>>
     \/ /\ pc[c] = "trap" /\ c \notin cond /\ ~idling
        /\ Goto(c, "kick")
        /\ UNCHANGED <<idling, lock_request, frame, cond, held>>
  /\ UNCHANGED <<items, interrupted, calls, completed, awake>>

Unlock(t) ==
  /\ pc[t] = "user" /\ HasLock(t)
  /\ frame' = [frame EXCEPT ![Len(frame)].locked = FALSE]
  /\ idling' = TRUE
  /\ cond' = {}
  /\ held' = [held EXCEPT ![t] = 0]
  /\ UNCHANGED <<items, interrupted, lock_request, pc, calls, completed, awake>>

-----------------------------------------------------------------------------
(* The target goes to sleep on a primitive of its own, which wakeup_fn()   *)
(* or a timer of its own ends; a spurious return of a wait.                *)
Sleep ==
  /\ HasWakeupFn /\ pc[Target] = "user" /\ Free(Target)
  /\ Goto(Target, "sleep")
  /\ UNCHANGED <<items, interrupted, idling, lock_request, frame, cond, calls,
                 held, completed, awake>>

SleepTimeout ==
  /\ pc[Target] = "sleep"
  /\ Goto(Target, "user")
  /\ UNCHANGED <<items, interrupted, idling, lock_request, frame, cond, calls,
                 held, completed, awake>>

SpuriousWakeup(t) ==
  /\ t \in cond
  /\ cond' = cond \ {t}
  /\ UNCHANGED <<items, interrupted, idling, lock_request, frame, pc, calls,
                 held, completed, awake>>

Next ==
  \/ \E t \in Threads :
       \/ \E w \in BOOLEAN : Process(t, w)
       \/ Resume(t) \/ Timeout(t) \/ ItemDone(t)
       \/ \E f \in Fns : Enqueue(t, f) \/ EnqueueNotify(t, f) \/ CancelFn(t, f)
       \/ WakeupFn(t) \/ Interrupt(t) \/ Unlock(t) \/ SpuriousWakeup(t)
  \/ \E c \in Clients : Run(c) \/ RunWait(c) \/ Lock(c) \/ LockWait(c)
  \/ Sleep \/ SleepTimeout

Spec == Init /\ [][Next]_vars

(* What the code's scheduling guarantees.  A thread that can go on does    *)
(* (the mutex is starvation free, a broadcast wakes every waiter), and     *)
(* user code that owns the target's state ends: a callback or a locked     *)
(* section calls queue_process finitely often and then returns or unlocks, *)
(* and the target, when it does not sleep, comes back to queue_process.    *)
(* Timeouts and spurious wakeups need not happen (mp_wait_events() waits   *)
(* for INFINITY when nothing is pending).                                  *)
Finish(k) == Len(frame) = k /\ \E t \in Threads : ItemDone(t) \/ Unlock(t)
Serve     == Free(Target) /\ \E w \in BOOLEAN : Process(Target, w)

Fairness ==
  /\ \A t \in Threads : WF_vars(Resume(t)) /\ WF_vars(WakeupFn(t))
  /\ \A k \in 1..MaxDepth : SF_vars(Finish(k))
  /\ SF_vars(Serve)
  /\ \A c \in Clients :
       /\ WF_vars(RunWait(c)) /\ WF_vars(LockWait(c))
       /\ WF_vars(pc[c] = "grab" /\ Lock(c))

LiveSpec == Spec /\ Fairness

-----------------------------------------------------------------------------
(* At most one thread at a time is in a place from which it may touch the  *)
(* target's state: the target outside of queue_process, the thread that    *)
(* runs a callback, or the holder of mp_dispatch_lock().                   *)
ExclusiveAccess == \A t, u \in Threads : Owns(t) /\ Owns(u) => t = u

(* The assertions of dispatch.c, each at the state its line is reached in: *)
(* 268 and 300 and 387 (nobody idles while a thread owns the state), 282   *)
(* (a woken top invocation idles), 363-365 (what a granted lock finds) and *)
(* 380-382 (what an unlock finds).                                         *)
AssertNotIdling == \A t \in Threads : Accesses(t) => ~idling
AssertWoken ==
  \A t \in Threads : pc[t] = "blocked" =>
    \A k \in Innermost(t) : Len(frame) = k /\ ~frame[k].locked => idling
AssertGrant ==
  /\ \A c \in Clients : pc[c] \in {"kick", "kicked", "trap"} => lock_request
  /\ idling => frame # <<>> /\ ~frame[Len(frame)].locked
AssertUnlock ==
  \A t \in Threads : pc[t] = "user" /\ HasLock(t) =>
    /\ frame # <<>>
    /\ frame[Len(frame)].locked
    /\ frame[Len(frame)].locked_thread = t
Asserts == AssertNotIdling /\ AssertWoken /\ AssertGrant /\ AssertUnlock

(* The item of mp_dispatch_run() is on the stack of its caller: until it   *)
(* is completed exactly one list entry or running invocation refers to it, *)
(* and from then on, when the caller may return, none does.                *)
StackItemRefs(c) ==
  Cardinality({i \in 1..Len(items) : items[i] = RunItem(c)})
    + Cardinality({k \in 1..Len(frame) : frame[k].item = RunItem(c)})
StackItemLifetime ==
  \A c \in Clients :
    StackItemRefs(c) =
      IF pc[c] \in {"runwakeup", "run"} /\ ~completed[c] THEN 1 ELSE 0

(* No lost wakeup: a thread is never left waiting on the condition         *)
(* variable after what it waits for has come true: work or an interrupt    *)
(* for the top invocation, the end of a lock, the target idling for a      *)
(* pending lock, completion for mp_dispatch_run().  A sleeping target with *)
(* work or a lock request has had wakeup_fn() called or is about to.       *)
TopWaits(t) == t \in cond /\ Len(frame) \in Innermost(t)
NoLostWakeup ==
  /\ \A t \in Threads :
       /\ pc[t] = "timedwait" /\ TopWaits(t) => items = <<>> /\ ~interrupted
       /\ pc[t] = "blocked" /\ TopWaits(t) =>
            lock_request \/ frame[Len(frame)].locked
  /\ \A c \in Clients :
       /\ pc[c] = "trap" /\ c \in cond => ~idling
       /\ pc[c] = "run" /\ c \in cond => ~completed[c]
  /\ pc[Target] = "sleep" /\ (items # <<>> \/ lock_request) =>
       awake \/ \E t \in Threads : pc[t] \in {"wakeup", "runwakeup", "kick"}

(* A lock that has been requested is granted, whatever the target and the  *)
(* other threads do and however far their invocations are nested, without  *)
(* any timeout.  mp_dispatch_run() returns, but for two behaviours that    *)
(* the code does not exclude: other threads lock the target over and over  *)
(* (an unlock followed by a lock may always overtake it), and a callback   *)
(* waits in a nested invocation that never returns, so that the item it    *)
(* runs for is never marked as completed.                                  *)
LockedForever == []<>(\E t \in Threads : held[t] # 0)
NestedForever == <>[](Len(frame) > 1)
CallsReturn ==
  /\ lock_request ~> ~lock_request
  /\ LockedForever \/ NestedForever \/
       \A c \in Clients : pc[c] \in {"runwakeup", "run"} ~> pc[c] = "user"

-----------------------------------------------------------------------------
(* The refinement: the owner is the thread that owns the target's state;   *)
(* the state of a mp_dispatch_run() is read from its item.                 *)
Owner == IF \E t \in Threads : Owns(t) THEN CHOOSE t \in Threads : Owns(t)
                                       ELSE NoThread
Executing(c) == \E k \in 1..Len(frame) : frame[k].item = RunItem(c)
CallState ==
  [c \in Clients |->
     IF pc[c] \notin {"runwakeup", "run"} THEN "none"
     ELSE IF completed[c] THEN "done"
     ELSE IF Executing(c) THEN "running"
     ELSE "queued"]

CA == INSTANCE CoreAccess WITH owner <- Owner, call <- CallState

(* Dispatch implements CoreAccess: ownership is exclusive and handed over  *)
(* through nobody, and a mp_dispatch_run() is served exactly once, by an   *)
(* owner, before it returns.                                               *)
ImplementsCoreAccess == CA!Spec

=============================================================================
