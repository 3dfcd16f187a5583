--------------------------- MODULE DispatchProofs ---------------------------
(***************************************************************************)
(* Proofs about Dispatch for any number of clients, any depth of nested    *)
(* calls and any length of the queue, and whatever asynchronous items are  *)
(* queued, merged and cancelled.                                           *)
(*                                                                         *)
(* First, the structure of the frame stack: whoever owns the target's      *)
(* state is alone, and the assertions hold.  Then, what mp_dispatch_run()  *)
(* promises: the item on the caller's stack is referred to exactly as long *)
(* as the caller waits (StackItemsLive), and every critical section of     *)
(* misc/dispatch.c is a step of CoreAccess or leaves what it speaks of     *)
(* alone (ServesItsUsers).  Last, no wakeup of a waiting thread is lost    *)
(* (NothingMissed).                                                        *)
(***************************************************************************)
EXTENDS Dispatch, SequenceTheorems, FiniteSetTheorems, TLAPS

(* The frame stack and what the threads know of it.  A frame below the top *)
(* is suspended by the user code that made the call above it: the holder   *)
(* of the frame's lock or the callback the frame runs.                     *)
Stack(fr, cl) ==
  /\ \A t \in Threads : cl[t] = {k \in 1..Len(fr) : fr[k].thread = t}
  /\ \A k \in 1..Len(fr) : fr[k].locked =>
       /\ fr[k].item = NoItem
       /\ fr[k].locked_thread \in Clients
       /\ held[fr[k].locked_thread] = k
  /\ \A t \in Threads : held[t] # 0 =>
       /\ held[t] \in 1..Len(fr)
       /\ fr[held[t]].locked
       /\ fr[held[t]].locked_thread = t
       /\ \A k \in cl[t] : held[t] < k
  /\ Len(fr) # 0 => fr[1].thread = Target
  /\ \A k \in 1..(Len(fr) - 1) :
       \/ fr[k].locked /\ fr[k + 1].thread = fr[k].locked_thread
       \/ fr[k].item # NoItem /\ fr[k + 1].thread = fr[k].thread

(* idling says that the top frame neither runs a callback nor is locked.   *)
Idle(fr, idl) ==
  idl <=> Len(fr) # 0 /\ ~fr[Len(fr)].locked /\ fr[Len(fr)].item = NoItem

(* Where each thread is: in the loop of its innermost invocation unless    *)
(* that runs a callback, in user code if it holds the lock and calls       *)
(* nothing, and only a client that owns nothing is inside of run or lock.  *)
Place(fr, cl, t, l) ==
  /\ \A k \in cl[t] : (\A j \in cl[t] : j <= k) =>
       IF fr[k].item = NoItem THEN l \in {"blocked", "timedwait"}
                              ELSE l \in {"user", "wakeup"}
  /\ cl[t] = {} => l \notin {"blocked", "timedwait"}
  /\ cl[t] = {} /\ held[t] # 0 => l \in {"user", "wakeup"}
  /\ t = Target /\ cl[t] = {} => l \in {"user", "wakeup", "sleep"}
  /\ l = "sleep" => t = Target /\ cl[t] = {} /\ held[t] = 0
  /\ l \notin {"blocked", "timedwait", "user", "wakeup", "sleep"} =>
       t \in Clients /\ cl[t] = {} /\ held[t] = 0

(* The pending request of mp_dispatch_lock() is that of one thread.        *)
Requests == {t \in Threads : pc[t] \in {"kick", "kicked", "trap"}}
Request ==
  /\ \A t \in Requests : lock_request
  /\ \A t, u \in Requests : t = u

IInv ==
  /\ TypeOK
  /\ Stack(frame, calls)
  /\ Idle(frame, idling)
  /\ \A t \in Threads : Place(frame, calls, t, pc[t])
  /\ Request

-----------------------------------------------------------------------------
(* How the stack invariant fares under the operations on the top frame.    *)
LEMMA TopField ==
  ASSUME NEW fr \in Seq(Frames), NEW cl, Stack(fr, cl),
         NEW k \in 1..Len(fr), NEW g \in Frames,
         g.thread = fr[k].thread, g.locked = fr[k].locked,
         g.locked_thread = fr[k].locked_thread,
         fr[k].locked => g.item = fr[k].item,
         k = Len(fr) \/ g.item = fr[k].item
  PROVE  /\ [fr EXCEPT ![k] = g] \in Seq(Frames)
         /\ Stack([fr EXCEPT ![k] = g], cl)
<1> DEFINE h == [fr EXCEPT ![k] = g]
<1>1. /\ h \in Seq(Frames) /\ Len(h) = Len(fr)
      /\ \A j \in 1..Len(fr) : h[j] = IF j = k THEN g ELSE fr[j]
  BY ExceptSeq
<1>2. \A j \in 1..Len(fr) : /\ h[j].thread = fr[j].thread
                            /\ h[j].locked = fr[j].locked
                            /\ h[j].locked_thread = fr[j].locked_thread
                            /\ fr[j].locked => h[j].item = fr[j].item
                            /\ j # Len(fr) => h[j].item = fr[j].item
  BY <1>1
<1> HIDE DEF h
<1>3. Stack(h, cl)
  <2>. USE DEF Stack
  <2>1. \A u \in Threads : cl[u] = {j \in 1..Len(h) : h[j].thread = u}
    BY <1>1, <1>2
  <2>2. \A j \in 1..Len(h) : h[j].locked =>
          /\ h[j].item = NoItem
          /\ h[j].locked_thread \in Clients
          /\ held[h[j].locked_thread] = j
    BY <1>1, <1>2
  <2>3. \A u \in Threads : held[u] # 0 =>
          /\ held[u] \in 1..Len(h)
          /\ h[held[u]].locked
          /\ h[held[u]].locked_thread = u
          /\ \A j \in cl[u] : held[u] < j
    BY <1>1, <1>2
  <2>4. Len(h) # 0 => h[1].thread = Target
    BY <1>1, <1>2
  <2>5. \A j \in 1..(Len(h) - 1) :
          \/ h[j].locked /\ h[j + 1].thread = h[j].locked_thread
          \/ h[j].item # NoItem /\ h[j + 1].thread = h[j].thread
    BY <1>1, <1>2
  <2>. QED BY <2>1, <2>2, <2>3, <2>4, <2>5
<1> QED BY <1>1, <1>3 DEF h

(* An invocation returns: the top frame leaves the stack.                  *)
LEMMA PopStack ==
  ASSUME TypeOK, NEW fr \in Seq(Frames),
         NEW cl \in [Threads -> SUBSET (Nat \ {0})], Stack(fr, cl),
         NEW t \in Threads, NEW k \in cl[t], k = Len(fr), ~fr[k].locked
  PROVE  /\ SubSeq(fr, 1, k - 1) \in Seq(Frames)
         /\ Len(SubSeq(fr, 1, k - 1)) = k - 1
         /\ \A j \in 1..(k - 1) : SubSeq(fr, 1, k - 1)[j] = fr[j]
         /\ Stack(SubSeq(fr, 1, k - 1), [cl EXCEPT ![t] = @ \ {k}])
<1> DEFINE h == SubSeq(fr, 1, k - 1)
           d == [cl EXCEPT ![t] = @ \ {k}]
<1>0. k \in 1..Len(fr) /\ fr[k].thread = t
  BY DEF Stack
<1>1. /\ h \in Seq(Frames) /\ Len(h) = k - 1
      /\ \A j \in 1..(k - 1) : h[j] = fr[j]
  <2>1. \A j \in 1..(k - 1) : fr[j] \in Frames
    BY <1>0
  <2> QED BY <1>0, <2>1, SubSeqProperties
<1>2. \A u \in Threads : d[u] = {j \in 1..(k - 1) : fr[j].thread = u}
  BY <1>0 DEF Stack
<1> HIDE DEF h, d
<1>3. Stack(h, d)
  <2>1. \A u \in Threads : d[u] = {j \in 1..Len(h) : h[j].thread = u}
    BY <1>1, <1>2
  <2>2. \A u \in Threads : held[u] # 0 => held[u] \in 1..(k - 1)
    BY <1>0 DEF Stack
  <2>3. \A u \in Threads : \A j \in d[u] : j \in cl[u]
    BY <1>0, <1>2 DEF Stack
  <2>4. \A j \in 1..Len(h) : h[j].locked =>
          /\ h[j].item = NoItem
          /\ h[j].locked_thread \in Clients
          /\ held[h[j].locked_thread] = j
    BY <1>0, <1>1 DEF Stack
  <2>5. ASSUME NEW u \in Threads, held[u] # 0
        PROVE  /\ held[u] \in 1..Len(h)
               /\ h[held[u]].locked
               /\ h[held[u]].locked_thread = u
               /\ \A j \in d[u] : held[u] < j
    BY <1>1, <2>2, <2>3, <2>5 DEF Stack
  <2>6. Len(h) # 0 => h[1].thread = Target
    BY <1>0, <1>1 DEF Stack
  <2>7. ASSUME NEW j \in 1..(Len(h) - 1)
        PROVE  \/ h[j].locked /\ h[j + 1].thread = h[j].locked_thread
               \/ h[j].item # NoItem /\ h[j + 1].thread = h[j].thread
    <3>1. j \in 1..(Len(fr) - 1) /\ j \in 1..(k - 1) /\ j + 1 \in 1..(k - 1)
      BY <1>0, <1>1
    <3>2. h[j] = fr[j] /\ h[j + 1] = fr[j + 1]
      BY <1>1, <3>1
    <3> QED BY <3>1, <3>2 DEF Stack
  <2> QED BY <2>1, <2>4, <2>5, <2>6, <2>7, Zenon DEF Stack
<1> QED BY <1>1, <1>3 DEF h, d

(* The user code that may act on the top frame: the target below the first *)
(* frame, the callback of the top frame or the holder of its lock.         *)
OnTop(fr, t) ==
  \/ Len(fr) = 0 /\ t = Target
  \/ Len(fr) # 0 /\ fr[Len(fr)].item # NoItem /\ t = fr[Len(fr)].thread
  \/ Len(fr) # 0 /\ fr[Len(fr)].locked /\ t = fr[Len(fr)].locked_thread

(* Who owns the state starts an invocation: a frame of its own comes on    *)
(* top.                                                                    *)
LEMMA PushStack ==
  ASSUME TypeOK, NEW fr \in Seq(Frames),
         NEW cl \in [Threads -> SUBSET (Nat \ {0})], Stack(fr, cl),
         NEW t \in Threads, OnTop(fr, t),
         NEW g \in Frames, g.thread = t, ~g.locked, g.item = NoItem
  PROVE  LET k == Len(fr) + 1
             h == Append(fr, g)
             d == [cl EXCEPT ![t] = @ \cup {k}]
         IN  /\ h \in Seq(Frames) /\ Len(h) = k /\ h[k] = g
             /\ \A j \in 1..Len(fr) : h[j] = fr[j]
             /\ d \in [Threads -> SUBSET (Nat \ {0})]
             /\ d[t] = cl[t] \cup {k} /\ \A u \in Threads \ {t} : d[u] = cl[u]
             /\ \A j \in d[t] : j <= k
             /\ Stack(h, d)
<1> DEFINE k == Len(fr) + 1
           h == Append(fr, g)
           d == [cl EXCEPT ![t] = @ \cup {k}]
<1>1. g.thread = t /\ ~g.locked /\ g.item = NoItem
  OBVIOUS
<1>2. /\ h \in Seq(Frames) /\ Len(h) = k /\ h[k] = g
      /\ \A j \in 1..Len(fr) : h[j] = fr[j]
  BY <1>1
<1>3. /\ d \in [Threads -> SUBSET (Nat \ {0})]
      /\ d[t] = cl[t] \cup {k} /\ \A u \in Threads \ {t} : d[u] = cl[u]
  OBVIOUS
<1>4. \A j \in cl[t] : j <= Len(fr)
  BY DEF Stack
<1>5. \A j \in d[t] : j <= k
  BY <1>3, <1>4
<1> HIDE DEF h, d
<1>6. Stack(h, d)
  <2>1. \A u \in Threads : d[u] = {j \in 1..Len(h) : h[j].thread = u}
    BY <1>1, <1>2, <1>3 DEF Stack
  <2>2. \A j \in 1..Len(h) : h[j].locked =>
          /\ h[j].item = NoItem
          /\ h[j].locked_thread \in Clients
          /\ held[h[j].locked_thread] = j
    BY <1>1, <1>2 DEF Stack
  <2>3. ASSUME NEW u \in Threads, held[u] # 0
        PROVE  /\ held[u] \in 1..Len(h)
               /\ h[held[u]].locked
               /\ h[held[u]].locked_thread = u
               /\ \A j \in d[u] : held[u] < j
    BY <1>2, <1>3, <2>3 DEF Stack
  <2>4. Len(h) # 0 => h[1].thread = Target
    BY <1>1, <1>2 DEF Stack, OnTop
  <2>5. ASSUME NEW j \in 1..(Len(h) - 1)
        PROVE  \/ h[j].locked /\ h[j + 1].thread = h[j].locked_thread
               \/ h[j].item # NoItem /\ h[j + 1].thread = h[j].thread
    <3>1. CASE j = Len(fr)
      BY <1>1, <1>2, <3>1 DEF OnTop
    <3>2. CASE j # Len(fr)
      <4>1. j \in 1..(Len(fr) - 1) /\ j + 1 \in 1..Len(fr) /\ j \in 1..Len(fr)
        BY <1>2, <3>2
      <4> QED BY <1>2, <4>1 DEF Stack
    <3> QED BY <3>1, <3>2
  <2> QED BY <2>1, <2>2, <2>3, <2>4, <2>5, Zenon DEF Stack
<1> QED BY <1>2, <1>3, <1>5, <1>6 DEF h, d

(* A thread that owns the target's state is on top of the stack.           *)
LEMMA OwnerOnTop ==
  ASSUME IInv, NEW t \in Threads, Owns(t)
  PROVE  /\ OnTop(frame, t) /\ ~idling
         /\ \A k \in calls[t] : InItem(t, k) => k = Len(frame) /\ ~frame[k].locked
         /\ HasLock(t) => held[t] = Len(frame) /\ Len(frame) # 0
<1> USE DEF IInv
<1>0. Len(frame) \in Nat
  BY DEF TypeOK
<1>1. ASSUME NEW k \in calls[t], InItem(t, k)
      PROVE  k = Len(frame) /\ Len(frame) # 0 /\ ~frame[k].locked
             /\ frame[k].thread = t /\ frame[k].item # NoItem
  <2>1. /\ k \in 1..Len(frame) /\ frame[k].thread = t
        /\ frame[k].item # NoItem /\ ~frame[k].locked
    BY <1>1 DEF Stack, InItem
  <2>2. k + 1 \notin calls[t]
    BY <1>1, <2>1 DEF InItem, Innermost
  <2>3. k \in 1..(Len(frame) - 1) => k + 1 \in 1..Len(frame)
    BY <1>0
  <2>4. k \notin 1..(Len(frame) - 1)
    BY <2>1, <2>2, <2>3 DEF Stack
  <2> QED BY <1>0, <2>1, <2>4
<1>2. ASSUME HasLock(t)
      PROVE  held[t] = Len(frame) /\ Len(frame) # 0
             /\ frame[Len(frame)].locked /\ frame[Len(frame)].locked_thread = t
  <2>1. /\ held[t] \in 1..Len(frame) /\ frame[held[t]].locked
        /\ frame[held[t]].locked_thread = t /\ frame[held[t]].item = NoItem
    BY <1>2 DEF Stack, HasLock
  <2>2. ASSUME held[t] \in 1..(Len(frame) - 1)
        PROVE  held[t] + 1 \in calls[t]
    <3>1. frame[held[t] + 1].thread = t
      BY <2>1, <2>2 DEF Stack
    <3>2. held[t] + 1 \in 1..Len(frame)
      BY <1>0, <2>2
    <3> QED BY <3>1, <3>2 DEF Stack
  <2>3. held[t] \notin 1..(Len(frame) - 1)
    BY <1>2, <2>2 DEF HasLock
  <2> QED BY <1>0, <2>1, <2>3
<1>3. ASSUME t = Target, Free(t)
      PROVE  Len(frame) = 0
  BY <1>0, <1>3 DEF Stack, Free
<1>4. OnTop(frame, t)
  BY <1>1, <1>2, <1>3 DEF Owns, OnTop
<1>5. ~idling
  BY <1>1, <1>2, <1>3 DEF Owns, Idle
<1> QED BY <1>1, <1>2, <1>4, <1>5

(* What holds when a thread gets to the head of the loop, of the state that *)
(* the code before it in the same critical section left.                   *)
AtLoop(t, k, fr, cl, idl, cnd) ==
  /\ fr \in Seq(Frames) /\ cl \in [Threads -> SUBSET (Nat \ {0})]
  /\ idl \in BOOLEAN /\ cnd \in SUBSET Threads
  /\ Stack(fr, cl) /\ Idle(fr, idl)
  /\ k \in cl[t] /\ (\A j \in cl[t] : j <= k) /\ fr[k].item = NoItem
  /\ \A u \in Threads \ {t} : Place(fr, cl, u, pc[u])
  /\ t \notin Requests

(* The body of the loop keeps the invariant wherever it is entered.        *)
LEMMA LoopInv ==
  ASSUME TypeOK, Request, NEW t \in Threads,
         NEW k, NEW fr, NEW cl, NEW idl, NEW cnd,
         AtLoop(t, k, fr, cl, idl, cnd),
         Loop(t, k, fr, cl, idl, cnd),
         UNCHANGED <<held, lock_request>>,
         completed' \in [Clients -> BOOLEAN], awake' \in BOOLEAN
  PROVE  IInv'
<1>a. /\ fr \in Seq(Frames) /\ cl \in [Threads -> SUBSET (Nat \ {0})]
      /\ idl \in BOOLEAN /\ cnd \in SUBSET Threads
      /\ Stack(fr, cl) /\ Idle(fr, idl)
      /\ k \in cl[t] /\ (\A j \in cl[t] : j <= k) /\ fr[k].item = NoItem
      /\ \A u \in Threads \ {t} : Place(fr, cl, u, pc[u])
      /\ t \notin Requests
  BY DEF AtLoop
<1> USE <1>a
<1>0. k \in 1..Len(fr) /\ fr[k].thread = t /\ fr[k] \in Frames
      /\ Len(fr) \in Nat
  BY DEF Stack
<1>k. \A j \in cl[t] : (\A i \in cl[t] : i <= j) => j = k
  BY DEF Stack
<1>p. ASSUME NEW l \in PCs, Goto(t, l)
      PROVE  /\ pc' \in [Threads -> PCs] /\ pc'[t] = l
             /\ \A u \in Threads \ {t} : pc'[u] = pc[u]
             /\ l \notin {"kick", "kicked", "trap"} => Request'
  <2>1. pc' \in [Threads -> PCs] /\ pc'[t] = l
        /\ \A u \in Threads \ {t} : pc'[u] = pc[u]
    BY <1>p DEF Goto, TypeOK
  <2>2. l \notin {"kick", "kicked", "trap"} => Requests' = Requests
    BY <2>1 DEF Requests
  <2> QED BY <2>1, <2>2 DEF Request
<1>1. CASE Block(t, k, fr, cl, idl, cnd) \/ TimedWait(t, k, fr, cl, idl, cnd)
  <2>1. /\ frame' = fr /\ calls' = cl /\ idling' = idl
        /\ cond' = cnd \cup {t} /\ UNCHANGED <<items, interrupted>>
        /\ pc' \in [Threads -> PCs] /\ pc'[t] \in {"blocked", "timedwait"}
        /\ \A u \in Threads \ {t} : pc'[u] = pc[u]
        /\ Request'
    BY <1>1, <1>p DEF Block, TimedWait, PCs
  <2>2. TypeOK'
    BY <2>1 DEF TypeOK
  <2>3. Stack(frame, calls)' /\ Idle(frame, idling)'
    BY <2>1 DEF Stack, Idle
  <2>4. ASSUME NEW u \in Threads
        PROVE  Place(frame, calls, u, pc[u])'
    <3>1. CASE u = t
      BY <1>k, <2>1, <3>1 DEF Place
    <3>2. CASE u # t
      BY <2>1, <3>2 DEF Place
    <3> QED BY <3>1, <3>2
  <2> QED BY <2>1, <2>2, <2>3, <2>4 DEF IInv
<1>2. CASE TakeItem(t, k, fr, cl, idl, cnd)
  <2> DEFINE g == [fr[k] EXCEPT !.item = Head(items)]
  <2>1. /\ items # <<>> /\ Len(fr) = k /\ ~fr[k].locked
        /\ items' = Tail(items)
        /\ frame' = [fr EXCEPT ![k] = g] /\ calls' = cl
        /\ idling' = FALSE /\ cond' = cnd /\ UNCHANGED interrupted
        /\ pc' \in [Threads -> PCs] /\ pc'[t] = "user"
        /\ \A u \in Threads \ {t} : pc'[u] = pc[u]
        /\ Request'
    BY <1>2, <1>p DEF TakeItem, IsBlocked, PCs
  <2>2. Head(items) \in Items /\ Tail(items) \in Seq(Items)
    BY <2>1, HeadTailProperties DEF TypeOK
  <2>3. /\ g \in Frames /\ g.thread = fr[k].thread /\ g.locked = fr[k].locked
        /\ g.locked_thread = fr[k].locked_thread /\ g.item = Head(items)
    BY <1>0, <2>2 DEF Frames
  <2>4. frame' \in Seq(Frames) /\ Stack(frame', cl)
    <3>1. fr[k].locked => g.item = fr[k].item
      BY <2>1
    <3> HIDE DEF g
    <3> QED BY <1>0, <2>1, <2>3, <3>1, TopField
  <2>5. /\ Len(frame') = Len(fr) /\ frame'[k] = g
        /\ \A j \in 1..Len(fr) : j # k => frame'[j] = fr[j]
    BY <1>0, <2>1
  <2>6. g.item # NoItem
    BY <2>2, <2>3, DispatchAssumption
  <2> HIDE DEF g
  <2>7. TypeOK'
    BY <2>1, <2>2, <2>4 DEF TypeOK
  <2>8. Stack(frame, calls)' /\ Idle(frame, idling)'
    BY <1>0, <2>1, <2>4, <2>5, <2>6 DEF Stack, Idle
  <2>9. ASSUME NEW u \in Threads
        PROVE  Place(frame, calls, u, pc[u])'
    <3>1. CASE u = t
      BY <1>k, <2>1, <2>5, <2>6, <3>1 DEF Place
    <3>2. CASE u # t
      <4>1. \A j \in cl[u] : j \in 1..Len(fr) /\ j # k
        BY <1>0, <3>2 DEF Stack
      <4> QED BY <2>1, <2>5, <3>2, <4>1 DEF Place
    <3> QED BY <3>1, <3>2
  <2> QED BY <2>1, <2>7, <2>8, <2>9 DEF IInv
<1>3. CASE Return(t, k, fr, cl, idl, cnd)
  <2> DEFINE h == SubSeq(fr, 1, k - 1)
             d == [cl EXCEPT ![t] = @ \ {k}]
  <2>1. /\ Len(fr) = k /\ ~fr[k].locked
        /\ frame' = h /\ calls' = d /\ UNCHANGED items
        /\ idling' = FALSE /\ interrupted' = FALSE /\ cond' = cnd
        /\ pc' \in [Threads -> PCs] /\ pc'[t] = "user"
        /\ \A u \in Threads \ {t} : pc'[u] = pc[u]
        /\ Request'
    BY <1>3, <1>p DEF Return, IsBlocked, PCs
  <2>2. /\ h \in Seq(Frames) /\ Len(h) = k - 1
        /\ \A j \in 1..(k - 1) : h[j] = fr[j]
        /\ Stack(h, d)
    <3>1. k = Len(fr) /\ ~fr[k].locked
      BY <2>1
    <3> QED BY <3>1, PopStack, ZenonT(40)
  <2>3. /\ d \in [Threads -> SUBSET (Nat \ {0})] /\ d[t] = cl[t] \ {k}
        /\ \A u \in Threads \ {t} : d[u] = cl[u]
    OBVIOUS
  <2> HIDE DEF h, d
  <2>4. TypeOK'
    BY <2>1, <2>2, <2>3 DEF TypeOK
  <2>5. Stack(frame, calls)'
    BY <2>1, <2>2 DEF Stack
  <2>6. k # 1 => /\ k - 1 \in 1..(Len(fr) - 1) /\ (k - 1) + 1 = k
                 /\ \/ fr[k - 1].locked /\ fr[k].thread = fr[k - 1].locked_thread
                    \/ fr[k - 1].item # NoItem /\ fr[k].thread = fr[k - 1].thread
    BY <1>0, <2>1 DEF Stack
  <2>7. Idle(frame, idling)'
    BY <1>0, <2>1, <2>2, <2>6 DEF Idle
  <2>8. ASSUME NEW u \in Threads
        PROVE  Place(frame, calls, u, pc[u])'
    <3>1. CASE u = t /\ k = 1
      <4>1. d[t] = {}
        BY <1>0, <2>1, <2>2, <3>1 DEF Stack
      <4>2. t = Target
        BY <1>0, <3>1 DEF Stack
      <4> QED BY <2>1, <3>1, <4>1, <4>2 DEF Place
    <3>2. CASE u = t /\ k # 1 /\ fr[k - 1].locked /\ t = fr[k - 1].locked_thread
      <4>1. held[t] = k - 1
        BY <1>0, <2>1, <2>6, <3>2 DEF Stack
      <4>2. \A j \in cl[t] : j \in 1..k /\ k - 1 < j
        BY <1>0, <2>1, <2>6, <3>2, <4>1 DEF Stack
      <4>3. d[t] = {}
        BY <1>0, <2>3, <4>2
      <4> QED BY <2>1, <3>2, <4>3 DEF Place
    <3>3. CASE u = t /\ k # 1 /\ fr[k - 1].item # NoItem /\ t = fr[k - 1].thread
      <4>1. k - 1 \in d[t] /\ d[t] \subseteq 1..(k - 1)
        BY <1>0, <2>1, <2>2, <2>6, <3>3 DEF Stack
      <4>2. \A j \in d[t] : (\A i \in d[t] : i <= j) => j = k - 1
        BY <1>0, <4>1
      <4>3. frame'[k - 1].item # NoItem
        BY <2>1, <2>2, <2>6, <3>3
      <4> QED BY <2>1, <3>3, <4>1, <4>2, <4>3 DEF Place
    <3>4. CASE u # t
      <4>1. \A j \in cl[u] : j \in 1..(k - 1)
        BY <1>0, <2>1, <3>4 DEF Stack
      <4>2. calls'[u] = cl[u] /\ pc'[u] = pc[u] /\ held'[u] = held[u]
            /\ \A j \in cl[u] : frame'[j] = fr[j]
        BY <2>1, <2>2, <2>3, <3>4, <4>1
      <4>3. Place(fr, cl, u, pc[u])
        BY <3>4
      <4> QED BY <4>2, <4>3 DEF Place
    <3> QED BY <1>0, <2>6, <3>1, <3>2, <3>3, <3>4
  <2> QED BY <2>1, <2>4, <2>5, <2>7, <2>8 DEF IInv
<1> QED BY <1>1, <1>2, <1>3 DEF Loop

-----------------------------------------------------------------------------
(* At first no frame is there and everybody is outside.                    *)
LEMMA InitInv == Init => IInv
<1> SUFFICES ASSUME Init PROVE IInv
  OBVIOUS
<1>1. TypeOK
  <2>1. items \in Seq(Items) /\ frame \in Seq(Frames) /\ cond \in SUBSET Threads
    BY DEF Init
  <2>2. pc \in [Threads -> PCs] /\ held \in [Threads -> Nat]
    BY DEF Init, PCs
  <2>3. calls \in [Threads -> SUBSET (Nat \ {0})]
    BY DEF Init
  <2>4. completed \in [Clients -> BOOLEAN] /\ awake \in BOOLEAN
        /\ interrupted \in BOOLEAN /\ idling \in BOOLEAN
        /\ lock_request \in BOOLEAN
    BY Zenon DEF Init
  <2> QED BY <2>1, <2>2, <2>3, <2>4 DEF TypeOK
<1>2. Stack(frame, calls) /\ Idle(frame, idling)
  BY DEF Init, Stack, Idle
<1>3. \A t \in Threads : Place(frame, calls, t, pc[t])
  BY DEF Init, Place
<1>4. Request
  BY DEF Init, Request, Requests
<1> QED BY <1>1, <1>2, <1>3, <1>4 DEF IInv

(* Steps that leave the stack, idling and the request alone and move one   *)
(* thread at most to a place its calls and its lock allow.                 *)
LEMMA QuietStep ==
  ASSUME IInv, NEW t \in Threads, NEW l \in PCs,
         pc' \in [Threads -> PCs], pc'[t] = l,
         \A u \in Threads \ {t} : pc'[u] = pc[u],
         Place(frame, calls, t, l),
         t \in Requests <=> l \in {"kick", "kicked", "trap"},
         UNCHANGED <<idling, lock_request, frame, calls, held>>,
         items' \in Seq(Items), interrupted' \in BOOLEAN,
         cond' \in SUBSET Threads, completed' \in [Clients -> BOOLEAN],
         awake' \in BOOLEAN
  PROVE  IInv'
<1>1. TypeOK'
  BY DEF IInv, TypeOK
<1>2. Stack(frame, calls)' /\ Idle(frame, idling)'
  BY DEF IInv, Stack, Idle
<1>3. \A u \in Threads : Place(frame, calls, u, pc[u])'
  BY DEF IInv, Place
<1>4. Request'
  <2>1. Requests' = Requests
    BY DEF Requests
  <2> QED BY <2>1 DEF IInv, Request
<1> QED BY <1>1, <1>2, <1>3, <1>4 DEF IInv

(* Granting a lock takes the idling top frame for the client that asked.   *)
LEMMA GrantInv ==
  ASSUME IInv, NEW c \in Clients, Grant(c),
         calls[c] = {}, held[c] = 0,
         \A t \in Requests : t = c,
         UNCHANGED <<items, interrupted, calls, completed, awake, cond>>
  PROVE  IInv'
<1> USE DEF IInv
<1> DEFINE n == Len(frame)
           g == [frame[n] EXCEPT !.locked = TRUE, !.locked_thread = c]
<1>0. c \in Threads /\ n \in Nat
  BY DEF Threads, TypeOK
<1>1. n # 0 /\ ~frame[n].locked /\ frame[n].item = NoItem
  BY DEF Grant, Idle
<1>2. n \in 1..n /\ frame[n] \in Frames
  BY <1>0, <1>1 DEF TypeOK
<1>3. /\ g \in Frames /\ g.thread = frame[n].thread /\ g.locked
      /\ g.locked_thread = c /\ g.item = frame[n].item
  BY <1>0, <1>2 DEF Frames
<1>4. frame' = [frame EXCEPT ![n] = g]
  BY <1>2 DEF Grant, Frames
<1> HIDE DEF g
<1>5. /\ frame' \in Seq(Frames) /\ Len(frame') = n /\ frame'[n] = g
      /\ \A j \in 1..n : j # n => frame'[j] = frame[j]
  BY <1>2, <1>3, <1>4, ExceptSeq DEF TypeOK
<1>6. /\ held' \in [Threads -> Nat] /\ held'[c] = n
      /\ \A t \in Threads \ {c} : held'[t] = held[t]
      /\ pc' \in [Threads -> PCs] /\ pc'[c] = "user"
      /\ \A t \in Threads \ {c} : pc'[t] = pc[t]
      /\ lock_request' = FALSE /\ idling' = FALSE
  BY <1>0 DEF Grant, Goto, TypeOK, PCs
<1> HIDE DEF n
<1>7. \A j \in 1..n : j # n => (frame[j].locked => frame[j].locked_thread # c)
  BY <1>0, <1>1 DEF Stack, n
<1>8. TypeOK'
  BY <1>5, <1>6 DEF TypeOK
<1>9. Stack(frame, calls)'
  <2>1. \A t \in Threads : calls[t] = {j \in 1..n : frame'[j].thread = t}
    BY <1>2, <1>3, <1>5 DEF Stack, n
  <2>2. ASSUME NEW j \in 1..n, frame'[j].locked
        PROVE  /\ frame'[j].item = NoItem
               /\ frame'[j].locked_thread \in Clients
               /\ held'[frame'[j].locked_thread] = j
    <3>1. CASE j = n
      BY <1>1, <1>3, <1>5, <1>6, <3>1
    <3>2. CASE j # n
      <4>1. frame'[j] = frame[j] /\ frame[j].locked_thread # c
        BY <1>5, <1>7, <2>2, <3>2
      <4>2. frame[j].locked_thread \in Threads \ {c}
            /\ frame[j].item = NoItem /\ held[frame[j].locked_thread] = j
            /\ frame[j].locked_thread \in Clients
        BY <2>2, <4>1 DEF Stack, Threads, n
      <4> QED BY <1>6, <4>1, <4>2
    <3> QED BY <3>1, <3>2
  <2>3. ASSUME NEW t \in Threads, held'[t] # 0
        PROVE  /\ held'[t] \in 1..n
               /\ frame'[held'[t]].locked
               /\ frame'[held'[t]].locked_thread = t
               /\ \A j \in calls[t] : held'[t] < j
    <3>1. CASE t = c
      BY <1>2, <1>3, <1>5, <1>6, <3>1
    <3>2. CASE t # c
      <4>1. held'[t] = held[t] /\ held[t] \in 1..n /\ frame[held[t]].locked
            /\ frame[held[t]].locked_thread = t
            /\ \A j \in calls[t] : held[t] < j
        BY <1>6, <2>3, <3>2 DEF Stack, n
      <4>2. held[t] # n
        BY <1>1, <4>1
      <4> QED BY <1>5, <4>1, <4>2
    <3> QED BY <3>1, <3>2
  <2>4. frame'[1].thread = Target
    BY <1>1, <1>2, <1>3, <1>5 DEF Stack, n
  <2>5. ASSUME NEW j \in 1..(n - 1)
        PROVE  \/ frame'[j].locked /\ frame'[j + 1].thread = frame'[j].locked_thread
               \/ frame'[j].item # NoItem /\ frame'[j + 1].thread = frame'[j].thread
    <3>1. j \in 1..n /\ j # n /\ j + 1 \in 1..n
      BY <1>0
    <3>2. frame'[j] = frame[j] /\ frame'[j + 1].thread = frame[j + 1].thread
      BY <1>3, <1>5, <3>1
    <3> QED BY <3>2 DEF Stack, n
  <2> QED BY <1>5, <2>1, <2>2, <2>3, <2>4, <2>5 DEF Stack, Grant
<1>10. Idle(frame, idling)'
  BY <1>3, <1>5, <1>6 DEF Idle
<1>11. ASSUME NEW t \in Threads
       PROVE  Place(frame, calls, t, pc[t])'
  <2>1. CASE t = c
    BY <1>6, <2>1, DispatchAssumption DEF Place
  <2>2. CASE t # c
    <3>1. \A j \in calls[t] : j \in 1..n /\ frame'[j].item = frame[j].item
      BY <1>3, <1>5 DEF Stack, n
    <3> QED BY <1>6, <2>2, <3>1 DEF Place
  <2> QED BY <2>1, <2>2
<1>12. Request'
  <2>1. Requests' = {}
    BY <1>6 DEF Requests
  <2> QED BY <2>1 DEF Request
<1> QED BY <1>8, <1>9, <1>10, <1>11, <1>12

(* mp_dispatch_unlock(): the target gets its state back.                   *)
LEMMA UnlockInv ==
  ASSUME IInv, NEW t \in Threads, Unlock(t)
  PROVE  IInv'
<1> USE DEF IInv
<1> DEFINE n == Len(frame)
           g == [frame[n] EXCEPT !.locked = FALSE]
<1>1. Owns(t) /\ HasLock(t) /\ n \in Nat
  BY DEF Unlock, Owns, TypeOK
<1>2. n # 0 /\ held[t] = n /\ calls[t] = {}
  BY <1>1, OwnerOnTop DEF HasLock
<1>3. /\ n \in 1..n /\ frame[n] \in Frames /\ frame[n].locked
      /\ frame[n].locked_thread = t /\ frame[n].item = NoItem
      /\ t \in Clients
  BY <1>1, <1>2 DEF TypeOK, Stack
<1>4. /\ g \in Frames /\ g.thread = frame[n].thread /\ ~g.locked
      /\ g.locked_thread = t /\ g.item = NoItem
  BY <1>3 DEF Frames
<1>5. frame' = [frame EXCEPT ![n] = g]
  BY <1>3 DEF Unlock, Frames
<1> HIDE DEF g
<1>6. /\ frame' \in Seq(Frames) /\ Len(frame') = n /\ frame'[n] = g
      /\ \A j \in 1..n : j # n => frame'[j] = frame[j]
  BY <1>3, <1>4, <1>5, ExceptSeq DEF TypeOK
<1>7. /\ held' \in [Threads -> Nat] /\ held'[t] = 0
      /\ \A u \in Threads \ {t} : held'[u] = held[u]
      /\ idling' = TRUE /\ cond' = {}
      /\ UNCHANGED <<items, interrupted, lock_request, pc, calls, completed,
                     awake>>
  BY DEF Unlock, TypeOK
<1> HIDE DEF n
<1>8. TypeOK'
  BY <1>6, <1>7 DEF TypeOK
<1>9. Stack(frame, calls)'
  <2>1. \A u \in Threads : calls[u] = {j \in 1..n : frame'[j].thread = u}
    BY <1>3, <1>4, <1>6 DEF Stack, n
  <2>2. ASSUME NEW j \in 1..n, frame'[j].locked
        PROVE  /\ frame'[j].item = NoItem
               /\ frame'[j].locked_thread \in Clients
               /\ held'[frame'[j].locked_thread] = j
    <3>1. j # n
      BY <1>4, <1>6, <2>2
    <3>2. /\ frame'[j] = frame[j] /\ frame[j].locked
          /\ frame[j].item = NoItem
          /\ frame[j].locked_thread \in Clients
          /\ held[frame[j].locked_thread] = j
      BY <1>6, <2>2, <3>1 DEF Stack, n
    <3>3. frame[j].locked_thread \in Threads \ {t}
      BY <1>2, <3>1, <3>2 DEF Threads
    <3> QED BY <1>7, <3>2, <3>3
  <2>3. ASSUME NEW u \in Threads, held'[u] # 0
        PROVE  /\ held'[u] \in 1..n
               /\ frame'[held'[u]].locked
               /\ frame'[held'[u]].locked_thread = u
               /\ \A j \in calls[u] : held'[u] < j
    <3>1. u # t /\ held'[u] = held[u]
      BY <1>7, <2>3
    <3>2. /\ held[u] \in 1..n /\ frame[held[u]].locked
          /\ frame[held[u]].locked_thread = u
          /\ \A j \in calls[u] : held[u] < j
      BY <2>3, <3>1 DEF Stack, n
    <3>3. held[u] # n
      BY <1>3, <3>1, <3>2
    <3> QED BY <1>6, <3>1, <3>2, <3>3
  <2>4. frame'[1].thread = Target
    BY <1>2, <1>3, <1>4, <1>6 DEF Stack, n
  <2>5. ASSUME NEW j \in 1..(n - 1)
        PROVE  \/ frame'[j].locked /\ frame'[j + 1].thread = frame'[j].locked_thread
               \/ frame'[j].item # NoItem /\ frame'[j + 1].thread = frame'[j].thread
    <3>1. j \in 1..n /\ j # n /\ j + 1 \in 1..n
      BY <1>1
    <3>2. frame'[j] = frame[j] /\ frame'[j + 1].thread = frame[j + 1].thread
      BY <1>4, <1>6, <3>1
    <3> QED BY <3>2 DEF Stack, n
  <2> QED BY <1>6, <1>7, <2>1, <2>2, <2>3, <2>4, <2>5 DEF Stack
<1>10. Idle(frame, idling)'
  BY <1>2, <1>4, <1>6, <1>7 DEF Idle
<1>11. ASSUME NEW u \in Threads
       PROVE  Place(frame, calls, u, pc[u])'
  <2>1. CASE u = t
    BY <1>2, <1>3, <1>7, <2>1, DispatchAssumption DEF Place, Unlock
  <2>2. CASE u # t
    <3>1. \A j \in calls[u] : j \in 1..n /\ frame'[j].item = frame[j].item
      BY <1>3, <1>4, <1>6 DEF Stack, n
    <3> QED BY <1>7, <2>2, <3>1 DEF Place
  <2> QED BY <2>1, <2>2
<1>12. Request'
  <2>1. Requests' = Requests
    BY <1>7 DEF Requests
  <2> QED BY <1>7, <2>1 DEF Request
<1> QED BY <1>8, <1>9, <1>10, <1>11, <1>12

(* On entry a new frame on top of the stack is ready for the loop.         *)
LEMMA ProcessLoop ==
  ASSUME IInv, NEW t \in Threads, NEW w \in BOOLEAN, Process(t, w)
  PROVE  LET k == Len(frame) + 1
             fr == Append(frame, NewFrame(t, w))
         IN  /\ AtLoop(t, k, fr, [calls EXCEPT ![t] = @ \cup {k}], TRUE,
                       IF lock_request THEN {} ELSE cond)
             /\ k = Len(fr)
<1> DEFINE k == Len(frame) + 1
           fr == Append(frame, NewFrame(t, w))
           cl == [calls EXCEPT ![t] = @ \cup {k}]
           cnd == IF lock_request THEN {} ELSE cond
<1>1. TypeOK /\ Request /\ Stack(frame, calls)
  BY DEF IInv
<1>2. OnTop(frame, t) /\ t \notin Requests
  <2>1. CASE Accesses(t)
    BY <2>1, OwnerOnTop DEF Accesses, Requests
  <2>2. CASE t = Target /\ pc[t] = "sleep"
    <3>1. calls[t] = {}
      BY <2>2 DEF IInv, Place
    <3>2. Len(frame) = 0
      <4>1. calls[t] = {j \in 1..Len(frame) : frame[j].thread = t} /\ Len(frame) \in Nat
        BY <1>1 DEF Stack, TypeOK
      <4>2. Len(frame) # 0 => frame[1].thread = t
        BY <1>1, <2>2 DEF Stack
      <4> QED BY <3>1, <4>1, <4>2
    <3> QED BY <2>2, <3>2 DEF OnTop, Requests
  <2> QED BY <2>1, <2>2 DEF Process
<1>3. /\ fr \in Seq(Frames) /\ Len(fr) = k /\ fr[k] = NewFrame(t, w)
      /\ \A j \in 1..Len(frame) : fr[j] = frame[j]
      /\ cl \in [Threads -> SUBSET (Nat \ {0})]
      /\ cl[t] = calls[t] \cup {k} /\ \A u \in Threads \ {t} : cl[u] = calls[u]
      /\ \A j \in cl[t] : j <= k
      /\ Stack(fr, cl)
  <2>1. frame \in Seq(Frames) /\ calls \in [Threads -> SUBSET (Nat \ {0})]
    BY <1>1 DEF TypeOK
  <2>2. /\ NewFrame(t, w) \in Frames /\ NewFrame(t, w).thread = t
        /\ ~NewFrame(t, w).locked /\ NewFrame(t, w).item = NoItem
    BY DEF NewFrame, Frames
  <2> QED BY <1>1, <1>2, <2>1, <2>2, PushStack
<1>5. cnd \in SUBSET Threads /\ k \in cl[t] /\ k # 0
  BY <1>1, <1>3 DEF TypeOK
<1>6. fr[k].item = NoItem /\ ~fr[k].locked
  BY <1>3 DEF NewFrame
<1> HIDE DEF fr, cl, cnd
<1>7. Idle(fr, TRUE)
  BY <1>3, <1>5, <1>6 DEF Idle
<1>8. ASSUME NEW u \in Threads \ {t}
      PROVE  Place(fr, cl, u, pc[u])
  <2>1. cl[u] = calls[u] /\ \A j \in calls[u] : fr[j] = frame[j]
    BY <1>1, <1>3 DEF Stack
  <2> QED BY <2>1 DEF IInv, Place
<1>9. AtLoop(t, k, fr, cl, TRUE, cnd)
  BY <1>2, <1>3, <1>5, <1>6, <1>7, <1>8 DEF AtLoop
<1> QED BY <1>3, <1>9 DEF fr, cl, cnd

(* mp_dispatch_queue_process() enters the loop.                            *)
LEMMA ProcessInv ==
  ASSUME IInv, NEW t \in Threads, NEW w \in BOOLEAN, Process(t, w)
  PROVE  IInv'
<1> DEFINE k == Len(frame) + 1
           fr == Append(frame, NewFrame(t, w))
           cl == [calls EXCEPT ![t] = @ \cup {k}]
           cnd == IF lock_request THEN {} ELSE cond
<1>1. AtLoop(t, k, fr, cl, TRUE, cnd)
  BY ProcessLoop
<1>2. /\ Loop(t, k, fr, cl, TRUE, cnd)
      /\ awake' \in BOOLEAN /\ completed' \in [Clients -> BOOLEAN]
      /\ UNCHANGED <<held, lock_request>>
  BY DEF Process, IInv, TypeOK
<1> HIDE DEF k, fr, cl, cnd
<1> QED BY <1>1, <1>2, LoopInv DEF IInv

(* Who returns from the wait of the loop is ready for the loop.            *)
LEMMA ResumeLoop ==
  ASSUME IInv, NEW t \in Threads, Resume(t), NEW k \in Innermost(t)
  PROVE  AtLoop(t, k, frame, calls, idling, cond)
<1>1. TypeOK /\ Request /\ Stack(frame, calls) /\ Idle(frame, idling)
      /\ \A u \in Threads \ {t} : Place(frame, calls, u, pc[u])
  BY DEF IInv
<1>3. k \in calls[t] /\ \A j \in calls[t] : j <= k
  BY DEF Innermost
<1>4. frame[k].item = NoItem
  BY <1>3 DEF IInv, Place, Resume
<1>5. /\ t \notin Requests
      /\ frame \in Seq(Frames) /\ calls \in [Threads -> SUBSET (Nat \ {0})]
      /\ idling \in BOOLEAN /\ cond \in SUBSET Threads
  BY <1>1 DEF Resume, Requests, TypeOK
<1> QED BY <1>1, <1>3, <1>4, <1>5 DEF AtLoop

(* mp_dispatch_queue_process() goes on after a wait.                       *)
LEMMA ResumeInv ==
  ASSUME IInv, NEW t \in Threads, Resume(t)
  PROVE  IInv'
<1>1. PICK k \in Innermost(t) : Loop(t, k, frame, calls, idling, cond)
  BY DEF Resume
<1>2. AtLoop(t, k, frame, calls, idling, cond)
  BY ResumeLoop
<1>3. /\ UNCHANGED <<held, lock_request>>
      /\ awake' \in BOOLEAN /\ completed' \in [Clients -> BOOLEAN]
  BY DEF Resume, IInv, TypeOK
<1> QED BY <1>1, <1>2, <1>3, LoopInv DEF IInv

(* Who returns from a callback is ready for the loop.                      *)
LEMMA ItemDoneLoop ==
  ASSUME IInv, NEW t \in Threads, pc[t] = "user", NEW k \in calls[t], InItem(t, k)
  PROVE  /\ AtLoop(t, k, [frame EXCEPT ![k].item = NoItem], calls, TRUE, {})
         /\ k = Len(frame) /\ Len([frame EXCEPT ![k].item = NoItem]) = k
<1>1. TypeOK /\ Request /\ Stack(frame, calls) /\ Idle(frame, idling)
  BY DEF IInv
<1> DEFINE g == [frame[k] EXCEPT !.item = NoItem]
           fr == [frame EXCEPT ![k] = g]
<1>3. k = Len(frame) /\ ~frame[k].locked
  <2>1. Owns(t)
    BY DEF Owns
  <2> QED BY <2>1, OwnerOnTop
<1>4. k \in 1..Len(frame) /\ frame[k] \in Frames /\ frame[k].thread = t
  BY <1>1 DEF TypeOK, Stack
<1>5. /\ g \in Frames /\ g.thread = frame[k].thread /\ g.locked = frame[k].locked
      /\ g.locked_thread = frame[k].locked_thread /\ g.item = NoItem
  BY <1>4 DEF Frames
<1>6. [frame EXCEPT ![k].item = NoItem] = fr
  BY <1>4 DEF Frames
<1> HIDE DEF g
<1>7. fr \in Seq(Frames) /\ Stack(fr, calls)
  <2>1. frame \in Seq(Frames)
    BY <1>1 DEF TypeOK
  <2> QED BY <1>1, <1>3, <1>4, <1>5, <2>1, TopField
<1>8. /\ Len(fr) = Len(frame) /\ fr[k] = g
      /\ \A j \in 1..Len(frame) : j # k => fr[j] = frame[j]
  BY <1>1, <1>4 DEF TypeOK
<1> HIDE DEF fr
<1>9. Idle(fr, TRUE)
  BY <1>3, <1>4, <1>5, <1>8 DEF Idle
<1>10. ASSUME NEW u \in Threads \ {t}
       PROVE  Place(fr, calls, u, pc[u])
  <2>1. \A j \in calls[u] : fr[j] = frame[j]
    BY <1>1, <1>4, <1>8 DEF Stack
  <2> QED BY <2>1 DEF IInv, Place
<1>11. /\ t \notin Requests /\ calls \in [Threads -> SUBSET (Nat \ {0})]
       /\ {} \in SUBSET Threads
  BY <1>1 DEF Requests, TypeOK
<1>12. \A j \in calls[t] : j <= k
  BY DEF InItem, Innermost
<1>13. AtLoop(t, k, fr, calls, TRUE, {})
  BY <1>5, <1>7, <1>8, <1>9, <1>10, <1>11, <1>12 DEF AtLoop
<1> QED BY <1>3, <1>6, <1>8, <1>13

(* mp_dispatch_queue_process() goes on after a callback.                   *)
LEMMA ItemDoneInv ==
  ASSUME IInv, NEW t \in Threads, ItemDone(t)
  PROVE  IInv'
<1>1. PICK k \in calls[t] :
        /\ InItem(t, k)
        /\ completed' = [c \in Clients |->
                           completed[c] \/ frame[k].item = RunItem(c)]
        /\ Loop(t, k, [frame EXCEPT ![k].item = NoItem], calls, TRUE, {})
  BY DEF ItemDone
<1>2. AtLoop(t, k, [frame EXCEPT ![k].item = NoItem], calls, TRUE, {})
  BY <1>1, ItemDoneLoop DEF ItemDone
<1>3. /\ UNCHANGED <<held, lock_request>>
      /\ awake' \in BOOLEAN /\ completed' \in [Clients -> BOOLEAN]
  BY <1>1 DEF ItemDone, IInv, TypeOK
<1> QED BY <1>1, <1>2, <1>3, LoopInv DEF IInv

(* The time of a wait is over.                                             *)
LEMMA TimeoutInv ==
  ASSUME IInv, NEW t \in Threads, Timeout(t)
  PROVE  IInv'
<1> USE DEF IInv
<1>1. PICK k \in Innermost(t) : frame' = [frame EXCEPT ![k].wait = FALSE]
  BY DEF Timeout
<1> DEFINE g == [frame[k] EXCEPT !.wait = FALSE]
<1>2. frame \in Seq(Frames) /\ k \in 1..Len(frame) /\ frame[k] \in Frames
  BY DEF TypeOK, Innermost, Stack
<1>3. /\ g \in Frames /\ g.thread = frame[k].thread /\ g.locked = frame[k].locked
      /\ g.locked_thread = frame[k].locked_thread /\ g.item = frame[k].item
  BY <1>2 DEF Frames
<1>4. frame' = [frame EXCEPT ![k] = g]
  BY <1>1, <1>2 DEF Frames
<1> HIDE DEF g
<1>5. frame' \in Seq(Frames) /\ Stack(frame', calls)
  BY <1>2, <1>3, <1>4, TopField
<1>6. /\ Len(frame') = Len(frame)
      /\ \A j \in 1..Len(frame) : /\ frame'[j].item = frame[j].item
                                  /\ frame'[j].locked = frame[j].locked
  BY <1>2, <1>3, <1>4, ExceptSeq
<1>7. /\ UNCHANGED <<items, interrupted, idling, lock_request, pc, calls, held,
                     completed, awake>>
      /\ cond' = cond \ {t}
  BY DEF Timeout
<1>8. TypeOK'
  BY <1>5, <1>7 DEF TypeOK
<1>9. Stack(frame, calls)'
  BY <1>5, <1>7 DEF Stack
<1>10. Idle(frame, idling)'
  BY <1>2, <1>6, <1>7 DEF Idle, TypeOK
<1>11. ASSUME NEW u \in Threads
       PROVE  Place(frame, calls, u, pc[u])'
  <2>1. \A j \in calls[u] : frame'[j].item = frame[j].item
    BY <1>6 DEF Stack
  <2> QED BY <1>7, <2>1 DEF Place
<1>12. Request'
  <2>1. Requests' = Requests
    BY <1>7 DEF Requests
  <2> QED BY <1>7, <2>1 DEF Request
<1> QED BY <1>8, <1>9, <1>10, <1>11, <1>12

(* The steps of mp_dispatch_append() leave everything but the list, the    *)
(* condition variable and the caller's place alone.                        *)
LEMMA AppendInv ==
  ASSUME IInv, NEW t \in Threads, pc[t] = "user", NEW it \in Items,
         NEW kick \in {"wakeup", "runwakeup"}, NEW done \in {"user", "run"},
         kick = "wakeup" <=> done = "user",
         done = "run" => t \in Clients /\ Free(t),
         AppendItem(t, it, kick, done),
         completed' \in [Clients -> BOOLEAN]
  PROVE  IInv'
<1>1. PICK l \in {kick, done} : Goto(t, l)
  BY DEF AppendItem
<1>2. /\ UNCHANGED <<idling, lock_request, frame, calls, held, awake>>
      /\ items' \in Seq(Items) /\ interrupted' \in BOOLEAN
      /\ cond' \in SUBSET Threads
  <2>1. CASE Mergeable(it)
    BY <2>1 DEF AppendItem, IInv, TypeOK
  <2>2. CASE ~Mergeable(it)
    <3>1. items' = Append(items, it) /\ cond' = {}
          /\ interrupted' = (interrupted \/ ~HasWakeupFn)
          /\ UNCHANGED <<idling, lock_request, frame, calls, held, awake>>
      BY <2>2 DEF AppendItem
    <3>2. interrupted' \in BOOLEAN
      BY <3>1, Zenon
    <3> QED BY <3>1, <3>2 DEF IInv, TypeOK
  <2> QED BY <2>1, <2>2
<1>3. l \in PCs /\ pc' \in [Threads -> PCs] /\ pc'[t] = l
      /\ \A u \in Threads \ {t} : pc'[u] = pc[u]
  BY <1>1 DEF IInv, TypeOK, Goto, PCs
<1>4. Place(frame, calls, t, "user")
  BY DEF IInv
<1>5. Place(frame, calls, t, l)
  <2>1. CASE l \in {"user", "wakeup"}
    BY <1>4, <2>1 DEF Place
  <2>2. CASE l \in {"run", "runwakeup"}
    BY <1>1, <2>2, DispatchAssumption DEF Place, Free
  <2> QED BY <1>1, <2>1, <2>2
<1>6. t \notin Requests /\ l \notin {"kick", "kicked", "trap"}
  BY <1>1 DEF Requests
<1>7. awake' \in BOOLEAN
  BY <1>2 DEF IInv, TypeOK
<1> QED BY <1>2, <1>3, <1>5, <1>6, <1>7, QuietStep

(* Every step keeps the invariant: one lemma per action above.             *)
LEMMA StepInv == IInv /\ [Next]_vars => IInv'
<1> SUFFICES ASSUME IInv, [Next]_vars PROVE IInv'
  OBVIOUS
<1> USE DEF IInv
<1>b. Target \in Threads /\ Clients \subseteq Threads /\ Target \notin Clients
  BY DispatchAssumption DEF Threads
<1>1. ASSUME NEW t \in Threads, NEW f \in Fns,
             Enqueue(t, f) \/ EnqueueNotify(t, f)
      PROVE  IInv'
  <2>1. AsyncItem(f) \in Items /\ NotifyItem(f) \in Items
    BY DEF AsyncItem, NotifyItem, Items
  <2>2. completed' \in [Clients -> BOOLEAN]
    BY <1>1 DEF Enqueue, EnqueueNotify, TypeOK
  <2> QED BY <1>1, <2>1, <2>2, AppendInv DEF Enqueue, EnqueueNotify
<1>2. ASSUME NEW c \in Clients, Run(c)
      PROVE  IInv'
  <2>1. RunItem(c) \in Items
    BY DEF RunItem, Items
  <2>2. completed' \in [Clients -> BOOLEAN]
    BY <1>2 DEF Run, TypeOK
  <2> QED BY <1>2, <1>b, <2>1, <2>2, AppendInv DEF Run
<1>3. ASSUME NEW t \in Threads, NEW f \in Fns, CancelFn(t, f)
      PROVE  IInv'
  <2>1. items' \in Seq(Items)
    <3> DEFINE kept == {i \in 1..Len(items) : items[i].fn # f}
               n == Cardinality(kept)
    <3>1. PICK at \in [1..n -> kept] : items' = [i \in 1..n |-> items[at[i]]]
      BY <1>3 DEF CancelFn
    <3>2. n \in Nat
      <4>1. IsFiniteSet(1..Len(items))
        BY FS_Interval DEF TypeOK
      <4>2. IsFiniteSet(kept)
        BY <4>1, FS_Subset
      <4> QED BY <4>2, FS_CardinalityType
    <3>3. ASSUME NEW i \in 1..n
          PROVE  items[at[i]] \in Items
      <4>1. at[i] \in 1..Len(items)
        <5> HIDE DEF n
        <5>1. at[i] \in kept
          BY <3>1
        <5> QED BY <5>1
      <4> QED BY <4>1 DEF TypeOK
    <3> HIDE DEF n
    <3> QED BY <3>1, <3>2, <3>3
  <2>2. /\ pc' = pc /\ UNCHANGED <<idling, lock_request, frame, calls, held>>
        /\ interrupted' \in BOOLEAN /\ cond' \in SUBSET Threads
        /\ completed' \in [Clients -> BOOLEAN] /\ awake' \in BOOLEAN
    BY <1>3 DEF CancelFn, TypeOK
  <2>3. pc[t] \in PCs /\ Place(frame, calls, t, pc[t]) /\ pc' \in [Threads -> PCs]
        /\ (t \in Requests <=> pc[t] \in {"kick", "kicked", "trap"})
    BY <2>2 DEF TypeOK, Requests
  <2> QED BY <2>1, <2>2, <2>3, QuietStep
<1>4. ASSUME NEW t \in Threads, Interrupt(t) \/ SpuriousWakeup(t)
      PROVE  IInv'
  <2>1. /\ pc' = pc /\ UNCHANGED <<idling, lock_request, frame, calls, held>>
        /\ interrupted' \in BOOLEAN /\ cond' \in SUBSET Threads
        /\ completed' \in [Clients -> BOOLEAN] /\ awake' \in BOOLEAN
        /\ items' \in Seq(Items)
    BY <1>4 DEF Interrupt, SpuriousWakeup, TypeOK
  <2>2. pc[t] \in PCs /\ Place(frame, calls, t, pc[t]) /\ pc' \in [Threads -> PCs]
        /\ (t \in Requests <=> pc[t] \in {"kick", "kicked", "trap"})
    BY <2>1 DEF TypeOK, Requests
  <2> QED BY <2>1, <2>2, QuietStep
<1>5. ASSUME NEW t \in Threads, WakeupFn(t)
      PROVE  IInv'
  <2>1. PICK l \in {"user", "run", "kicked"} :
          /\ Goto(t, l)
          /\ l = "user" <=> pc[t] = "wakeup"
          /\ l = "run" <=> pc[t] = "runwakeup"
          /\ l = "kicked" <=> pc[t] = "kick"
    BY <1>5 DEF WakeupFn
  <2>2. /\ UNCHANGED <<idling, lock_request, frame, calls, held>>
        /\ interrupted' \in BOOLEAN /\ cond' \in SUBSET Threads
        /\ completed' \in [Clients -> BOOLEAN] /\ items' \in Seq(Items)
    BY <1>5 DEF WakeupFn, TypeOK
  <2>3. awake' \in BOOLEAN
    BY <1>5, Zenon DEF WakeupFn
  <2>4. /\ l \in PCs /\ pc' \in [Threads -> PCs] /\ pc'[t] = l
        /\ \A u \in Threads \ {t} : pc'[u] = pc[u]
        /\ (t \in Requests <=> l \in {"kick", "kicked", "trap"})
    BY <1>5, <2>1 DEF Goto, TypeOK, PCs, Requests, WakeupFn
  <2>5. Place(frame, calls, t, pc[t])
    OBVIOUS
  <2>6. Place(frame, calls, t, l)
    <3>1. CASE l = "user"
      BY <2>1, <2>5, <3>1 DEF Place
    <3>2. CASE l \in {"run", "kicked"}
      <4>1. t \in Clients /\ calls[t] = {} /\ held[t] = 0
        BY <2>1, <2>5, <3>2 DEF Place
      <4> QED BY <1>b, <3>2, <4>1 DEF Place
    <3> QED BY <2>1, <3>1, <3>2
  <2> QED BY <2>2, <2>3, <2>4, <2>6, QuietStep
<1>6. ASSUME NEW c \in Clients, RunWait(c)
      PROVE  IInv'
  <2>1. PICK l \in {"user", "run"} :
          pc' = [pc EXCEPT ![c] = l] /\ pc[c] = "run"
    <3>1. CASE completed[c]
      BY <1>6, <3>1 DEF RunWait, Goto
    <3>2. CASE ~completed[c]
      <4>1. pc' = pc /\ pc[c] = "run"
        BY <1>6, <3>2 DEF RunWait
      <4>2. pc' = [pc EXCEPT ![c] = "run"]
        BY <4>1 DEF TypeOK
      <4> QED BY <4>1, <4>2
    <3> QED BY <3>1, <3>2
  <2>2. /\ UNCHANGED <<idling, lock_request, frame, calls, held>>
        /\ interrupted' \in BOOLEAN /\ cond' \in SUBSET Threads
        /\ completed' \in [Clients -> BOOLEAN] /\ items' \in Seq(Items)
        /\ awake' \in BOOLEAN
    BY <1>6, <1>b DEF RunWait, TypeOK
  <2>3. /\ l \in PCs /\ pc' \in [Threads -> PCs] /\ pc'[c] = l
        /\ \A u \in Threads \ {c} : pc'[u] = pc[u]
        /\ c \notin Requests /\ l \notin {"kick", "kicked", "trap"}
    BY <1>b, <2>1 DEF TypeOK, PCs, Requests
  <2>4. calls[c] = {} /\ held[c] = 0
    BY <1>b, <2>1 DEF Place
  <2>5. Place(frame, calls, c, l)
    BY <1>b, <2>1, <2>4 DEF Place
  <2> QED BY <1>b, <2>2, <2>3, <2>5, QuietStep
<1>7. ASSUME Sleep \/ SleepTimeout
      PROVE  IInv'
  <2>1. PICK l \in {"user", "sleep"} :
          Goto(Target, l) /\ calls[Target] = {} /\ held[Target] = 0
    BY <1>7, <1>b DEF Sleep, SleepTimeout, Free, Place
  <2>2. /\ UNCHANGED <<idling, lock_request, frame, calls, held>>
        /\ interrupted' \in BOOLEAN /\ cond' \in SUBSET Threads
        /\ completed' \in [Clients -> BOOLEAN] /\ items' \in Seq(Items)
        /\ awake' \in BOOLEAN
    BY <1>7 DEF Sleep, SleepTimeout, TypeOK
  <2>3. /\ l \in PCs /\ pc' \in [Threads -> PCs] /\ pc'[Target] = l
        /\ \A u \in Threads \ {Target} : pc'[u] = pc[u]
        /\ Target \notin Requests /\ l \notin {"kick", "kicked", "trap"}
    BY <1>7, <1>b, <2>1 DEF Goto, TypeOK, PCs, Requests, Sleep, SleepTimeout
  <2>4. Place(frame, calls, Target, l)
    BY <2>1 DEF Place
  <2> QED BY <1>b, <2>2, <2>3, <2>4, QuietStep
<1>8. ASSUME NEW c \in Clients, Lock(c)
      PROVE  IInv'
  <2>0. calls[c] = {} /\ held[c] = 0 /\ pc[c] \in {"user", "grab"}
    BY <1>8, <1>b DEF Lock, Free, Place
  <2>1. CASE lock_request /\ Goto(c, "grab") /\ cond' = cond \cup {c}
             /\ UNCHANGED <<idling, lock_request, frame, held>>
    <3>1. /\ UNCHANGED <<idling, lock_request, frame, calls, held>>
          /\ interrupted' \in BOOLEAN /\ cond' \in SUBSET Threads
          /\ completed' \in [Clients -> BOOLEAN] /\ items' \in Seq(Items)
          /\ awake' \in BOOLEAN
      BY <1>8, <1>b, <2>1 DEF Lock, TypeOK
    <3>2. /\ "grab" \in PCs /\ pc' \in [Threads -> PCs] /\ pc'[c] = "grab"
          /\ \A u \in Threads \ {c} : pc'[u] = pc[u]
          /\ c \notin Requests
      BY <1>b, <2>0, <2>1 DEF Goto, TypeOK, PCs, Requests
    <3>3. Place(frame, calls, c, "grab")
      BY <1>b, <2>0 DEF Place
    <3> QED BY <1>b, <3>1, <3>2, <3>3, QuietStep
  <2>2. CASE ~lock_request /\ lock_request' = TRUE /\ Goto(c, "kick")
             /\ UNCHANGED <<idling, frame, cond, held>>
    <3>1. /\ pc' \in [Threads -> PCs] /\ pc'[c] = "kick"
          /\ \A u \in Threads \ {c} : pc'[u] = pc[u]
      BY <1>b, <2>2 DEF Goto, TypeOK, PCs
    <3>2. TypeOK'
      BY <1>8, <2>2, <3>1 DEF Lock, TypeOK
    <3>3. Stack(frame, calls)' /\ Idle(frame, idling)'
      BY <1>8, <2>2 DEF Lock, Stack, Idle
    <3>4. ASSUME NEW u \in Threads
          PROVE  Place(frame, calls, u, pc[u])'
      <4>1. CASE u = c
        BY <1>8, <1>b, <2>0, <2>2, <3>1, <4>1 DEF Lock, Place
      <4>2. CASE u # c
        BY <1>8, <2>2, <3>1, <4>2 DEF Lock, Place
      <4> QED BY <4>1, <4>2
    <3>5. Request'
      <4>1. Requests = {}
        BY <2>2 DEF Request, Requests
      <4>2. Requests' = {c}
        BY <1>b, <3>1, <4>1 DEF Requests
      <4> QED BY <2>2, <4>2 DEF Request
    <3> QED BY <3>2, <3>3, <3>4, <3>5
  <2>3. CASE ~lock_request /\ Grant(c) /\ UNCHANGED cond
    <3>1. \A t \in Requests : t = c
      BY <2>3 DEF Request
    <3>2. UNCHANGED <<items, interrupted, calls, completed, awake>>
      BY <1>8 DEF Lock
    <3> QED BY <2>0, <2>3, <3>1, <3>2, GrantInv
  <2> QED BY <1>8, <2>1, <2>2, <2>3 DEF Lock
<1>9. ASSUME NEW c \in Clients, LockWait(c)
      PROVE  IInv'
  <2>0. calls[c] = {} /\ held[c] = 0 /\ pc[c] \in {"kicked", "trap"}
        /\ c \in Requests
    BY <1>9, <1>b DEF LockWait, Place, Requests
  <2>1. CASE Grant(c) /\ UNCHANGED cond
    <3>1. \A t \in Requests : t = c
      BY <2>0 DEF Request
    <3>2. UNCHANGED <<items, interrupted, calls, completed, awake>>
      BY <1>9 DEF LockWait
    <3> QED BY <2>0, <2>1, <3>1, <3>2, GrantInv
  <2>2. ASSUME NEW l \in {"kick", "trap"}, Goto(c, l), cond' \in {cond, cond \cup {c}},
               UNCHANGED <<idling, lock_request, frame, held>>
        PROVE  IInv'
    <3>1. /\ UNCHANGED <<idling, lock_request, frame, calls, held>>
          /\ interrupted' \in BOOLEAN /\ cond' \in SUBSET Threads
          /\ completed' \in [Clients -> BOOLEAN] /\ items' \in Seq(Items)
          /\ awake' \in BOOLEAN
      BY <1>9, <1>b, <2>2 DEF LockWait, TypeOK
    <3>2. /\ l \in PCs /\ pc' \in [Threads -> PCs] /\ pc'[c] = l
          /\ \A u \in Threads \ {c} : pc'[u] = pc[u]
      BY <1>b, <2>2 DEF Goto, TypeOK, PCs
    <3>3. Place(frame, calls, c, l)
      BY <1>b, <2>0 DEF Place
    <3> QED BY <1>b, <2>0, <3>1, <3>2, <3>3, QuietStep
  <2> QED BY <1>9, <2>1, <2>2 DEF LockWait
<1>10. CASE UNCHANGED vars
  BY <1>10 DEF vars, TypeOK, Stack, Idle, Place, Request, Requests
<1> QED
  BY <1>1, <1>2, <1>3, <1>4, <1>5, <1>6, <1>7, <1>8, <1>9, <1>10,
     ProcessInv, ResumeInv, TimeoutInv, ItemDoneInv, UnlockInv DEF Next

(* The invariant holds in every reachable state.                           *)
THEOREM Invariant == Spec => []IInv
<1> QED BY InitInv, StepInv, PTL DEF Spec

(* Type correctness of the dispatch queue's state.                         *)
THEOREM TypeCorrect == Spec => []TypeOK
<1>1. IInv => TypeOK
  BY DEF IInv
<1> QED BY <1>1, Invariant, PTL

(* Exclusive access: whatever the number of clients, nested invocations    *)
(* and queued items, one thread at a time may touch the target's state.    *)
THEOREM MutualExclusion == Spec => []ExclusiveAccess
<1>1. ASSUME IInv PROVE ExclusiveAccess
  <2> SUFFICES ASSUME NEW t \in Threads, NEW u \in Threads, Owns(t), Owns(u)
               PROVE  t = u
    BY DEF ExclusiveAccess
  <2>1. OnTop(frame, t) /\ OnTop(frame, u)
    BY <1>1, OwnerOnTop
  <2>2. Len(frame) # 0 /\ frame[Len(frame)].locked => frame[Len(frame)].item = NoItem
    BY <1>1 DEF IInv, Stack, TypeOK
  <2> QED BY <2>1, <2>2 DEF OnTop
<1> QED BY <1>1, Invariant, PTL

(* No assertion of dispatch.c can fail.                                    *)
THEOREM AssertionsHold == Spec => []Asserts
<1>1. ASSUME IInv PROVE Asserts
  <2> USE <1>1 DEF IInv
  <2>1. AssertNotIdling
    BY OwnerOnTop DEF AssertNotIdling, Accesses
  <2>2. AssertWoken
    <3> SUFFICES ASSUME NEW t \in Threads, pc[t] = "blocked",
                        NEW k \in Innermost(t), Len(frame) = k, ~frame[k].locked
                 PROVE  idling
      BY DEF AssertWoken
    <3>1. k \in calls[t] /\ frame[k].item = NoItem /\ k # 0
      BY DEF Innermost, Place, Stack
    <3> QED BY <3>1 DEF Idle
  <2>3. AssertGrant
    <3>1. \A c \in Clients : pc[c] \in {"kick", "kicked", "trap"} => lock_request
      BY DEF Request, Requests, Threads
    <3>2. idling => frame # <<>> /\ ~frame[Len(frame)].locked
      BY DEF Idle, TypeOK
    <3> QED BY <3>1, <3>2 DEF AssertGrant
  <2>4. AssertUnlock
    <3> SUFFICES ASSUME NEW t \in Threads, pc[t] = "user", HasLock(t)
                 PROVE  /\ frame # <<>> /\ frame[Len(frame)].locked
                        /\ frame[Len(frame)].locked_thread = t
      BY DEF AssertUnlock
    <3>1. held[t] = Len(frame) /\ Len(frame) # 0 /\ held[t] # 0
      BY OwnerOnTop DEF Owns, HasLock
    <3> QED BY <3>1 DEF Stack, TypeOK
  <2> QED BY <2>1, <2>2, <2>3, <2>4 DEF Asserts
<1> QED BY <1>1, Invariant, PTL


-----------------------------------------------------------------------------
(* Where the list and the frames refer to the item of c's call.            *)
Queued(list, c) == {i \in 1..Len(list) : list[i] = RunItem(c)}
Running(fr, c)  == {k \in 1..Len(fr) : fr[k].item = RunItem(c)}

(* The caller has not been told that its item is done.                     *)
Pending(c) == pc[c] \in {"runwakeup", "run"} /\ ~completed[c]

(* One reference while it is pending, none otherwise.                      *)
Single(Q, R, pending) ==
  \/ pending /\ R = {} /\ \E i \in Nat : Q = {i}
  \/ pending /\ Q = {} /\ \E k \in Nat : R = {k}
  \/ ~pending /\ Q = {} /\ R = {}

RefInv == \A c \in Clients : Single(Queued(items, c), Running(frame, c), Pending(c))

-----------------------------------------------------------------------------
(* The item of a mp_dispatch_run() is its caller's own, and nothing but    *)
(* that call refers to it.                                                 *)
LEMMA RunItems ==
  ASSUME NEW c \in Clients
  PROVE  /\ RunItem(c) \in Items /\ RunItem(c) # NoItem
         /\ ~RunItem(c).asynchronous /\ ~RunItem(c).mergeable
         /\ RunItem(c).fn = c
         /\ \A d : RunItem(d) = RunItem(c) => d = c
<1>1. RunItem(c) \in Items
  BY DEF RunItem, Items
<1>2. RunItem(c) # NoItem
  BY <1>1, DispatchAssumption
<1>3. ASSUME NEW d, RunItem(d) = RunItem(c) PROVE d = c
  <2>1. RunItem(d).fn = RunItem(c).fn
    BY <1>3
  <2>. QED BY <2>1 DEF RunItem
<1>. QED BY <1>1, <1>2, <1>3 DEF RunItem

(* What the operations on the queue do to the references in it.            *)
LEMMA QueuedAppend ==
  ASSUME NEW list \in Seq(Items), NEW it \in Items, NEW c
  PROVE  Queued(Append(list, it), c) =
           Queued(list, c) \cup (IF it = RunItem(c) THEN {Len(list) + 1} ELSE {})
<1>1. /\ Len(Append(list, it)) = Len(list) + 1 /\ Len(list) \in Nat
      /\ Append(list, it)[Len(list) + 1] = it
      /\ \A i \in 1..Len(list) : Append(list, it)[i] = list[i]
  OBVIOUS
<1>. QED BY <1>1 DEF Queued

(* Another item at the end of the list changes nothing for a client.       *)
LEMMA QueuedOther ==
  ASSUME NEW list \in Seq(Items), NEW it \in Items, NEW c, it # RunItem(c)
  PROVE  Queued(Append(list, it), c) = Queued(list, c)
<1>1. Queued(Append(list, it), c) = Queued(list, c) \cup {}
  BY QueuedAppend
<1>. QED BY <1>1

(* Taking the head off the list moves the other entries by one.            *)
LEMMA QueuedTail ==
  ASSUME NEW list \in Seq(Items), list # <<>>, NEW c
  PROVE  /\ Queued(Tail(list), c) = {i - 1 : i \in Queued(list, c) \ {1}}
         /\ 1 \in Queued(list, c) <=> Head(list) = RunItem(c)
         /\ Queued(list, c) \subseteq Nat \ {0}
<1>1. /\ Len(list) \in Nat \ {0} /\ Head(list) = list[1]
      /\ Len(Tail(list)) = Len(list) - 1
      /\ \A i \in 1..(Len(list) - 1) : Tail(list)[i] = list[i + 1]
  OBVIOUS
<1>2. Queued(Tail(list), c) = {i \in 1..(Len(list) - 1) : list[i + 1] = RunItem(c)}
  BY <1>1 DEF Queued
<1>3. ASSUME NEW j \in {i \in 1..(Len(list) - 1) : list[i + 1] = RunItem(c)}
      PROVE  j \in {i - 1 : i \in Queued(list, c) \ {1}}
  <2>1. j + 1 \in Queued(list, c) \ {1} /\ j = (j + 1) - 1
    BY <1>1 DEF Queued
  <2>. QED BY <2>1
<1>4. ASSUME NEW i \in Queued(list, c) \ {1}
      PROVE  i - 1 \in {j \in 1..(Len(list) - 1) : list[j + 1] = RunItem(c)}
  BY <1>1 DEF Queued
<1>5. Queued(list, c) \subseteq Nat \ {0} /\ (1 \in Queued(list, c) <=> list[1] = RunItem(c))
  BY <1>1 DEF Queued
<1>. QED BY <1>1, <1>2, <1>3, <1>4, <1>5

(* The loop, for its three callers: the item that is taken moves from the  *)
(* queue to the frame, and the frame that is removed runs none.            *)
LEMMA LoopRefs ==
  ASSUME IInv, NEW t \in Threads,
         NEW k, NEW fr, NEW cl, NEW idl, NEW cnd,
         AtLoop(t, k, fr, cl, idl, cnd),
         pc[t] \in {"user", "sleep", "blocked", "timedwait"},
         \A c \in Clients :
           Single(Queued(items, c), Running(fr, c),
                  pc[c] \in {"runwakeup", "run"} /\ ~completed'[c]),
         Loop(t, k, fr, cl, idl, cnd)
  PROVE  RefInv'
<1>1. /\ fr \in Seq(Frames) /\ Stack(fr, cl) /\ k \in cl[t] /\ fr[k].item = NoItem
      /\ items \in Seq(Items) /\ pc \in [Threads -> PCs] /\ Clients \subseteq Threads
  BY DEF AtLoop, IInv, TypeOK, Threads
<1>2. k \in 1..Len(fr) /\ Len(fr) \in Nat /\ fr[k] \in Frames
  BY <1>1 DEF Stack
<1>. SUFFICES ASSUME NEW c \in Clients
              PROVE  Single(Queued(items', c), Running(frame', c), Pending(c)')
  BY DEF RefInv, Queued, Running
<1>3. PICK l \in {"blocked", "timedwait", "user"} : pc' = [pc EXCEPT ![t] = l]
  BY DEF Loop, Block, TakeItem, TimedWait, Return, Goto
<1>4. Pending(c)' <=> pc[c] \in {"runwakeup", "run"} /\ ~completed'[c]
  BY <1>1, <1>3 DEF Pending
<1>5. Single(Queued(items, c), Running(fr, c), Pending(c)')
  BY <1>4 DEF Single
<1>6. RunItem(c) # NoItem
  BY RunItems
<1>7. CASE Block(t, k, fr, cl, idl, cnd) \/ TimedWait(t, k, fr, cl, idl, cnd)
  <2>1. frame' = fr /\ items' = items
    BY <1>7 DEF Block, TimedWait
  <2>. QED BY <1>5, <2>1
<1>8. CASE Return(t, k, fr, cl, idl, cnd)
  <2>1. frame' = SubSeq(fr, 1, k - 1) /\ items' = items /\ Len(fr) = k
    BY <1>8 DEF Return, IsBlocked
  <2>2. Len(frame') = k - 1 /\ \A j \in 1..(k - 1) : frame'[j] = fr[j]
    <3>1. \A j \in 1..(k - 1) : fr[j] \in Frames
      BY <1>1, <1>2
    <3>. QED BY <1>2, <2>1, <3>1, SubSeqProperties
  <2>3. Running(frame', c) = Running(fr, c)
    BY <1>1, <1>2, <1>6, <2>1, <2>2 DEF Running
  <2>. QED BY <1>5, <2>1, <2>3
<1>9. CASE TakeItem(t, k, fr, cl, idl, cnd)
  <2>1. /\ items # <<>> /\ items' = Tail(items)
        /\ frame' = [fr EXCEPT ![k].item = Head(items)]
    BY <1>9 DEF TakeItem
  <2>2. /\ Queued(items', c) = {i - 1 : i \in Queued(items, c) \ {1}}
        /\ 1 \in Queued(items, c) <=> Head(items) = RunItem(c)
        /\ Queued(items, c) \subseteq Nat \ {0}
    BY <1>1, <2>1, QueuedTail
  <2>3. /\ Len(frame') = Len(fr) /\ frame'[k].item = Head(items)
        /\ \A j \in 1..Len(fr) : j # k => frame'[j] = fr[j]
    BY <1>1, <1>2, <2>1 DEF Frames
  <2>4. Running(frame', c) =
          Running(fr, c) \cup (IF Head(items) = RunItem(c) THEN {k} ELSE {})
    BY <1>1, <1>2, <1>6, <2>3 DEF Running
  <2>5. CASE Head(items) = RunItem(c)
    <3>1. Queued(items, c) = {1} /\ Running(fr, c) = {} /\ Pending(c)'
      BY <1>5, <2>2, <2>5 DEF Single
    <3>2. Queued(items', c) = {} /\ Running(frame', c) = {k} /\ k \in Nat
      BY <1>2, <2>2, <2>4, <2>5, <3>1
    <3>. QED BY <3>1, <3>2 DEF Single
  <2>6. CASE Head(items) # RunItem(c)
    <3>1. Running(frame', c) = Running(fr, c) /\ 1 \notin Queued(items, c)
      BY <2>2, <2>4, <2>6
    <3>2. ASSUME NEW i \in Nat, Queued(items, c) = {i}
          PROVE  i - 1 \in Nat /\ Queued(items', c) = {i - 1}
      BY <2>2, <3>1, <3>2
    <3>3. Queued(items, c) = {} => Queued(items', c) = {}
      BY <2>2
    <3>. QED BY <1>5, <3>1, <3>2, <3>3 DEF Single
  <2>. QED BY <2>5, <2>6
<1>. QED BY <1>7, <1>8, <1>9 DEF Loop

(* A new invocation of the loop starts without an item.                    *)
LEMMA ProcessRefs ==
  ASSUME IInv, RefInv, NEW t \in Threads, NEW w \in BOOLEAN, Process(t, w)
  PROVE  RefInv'
<1> DEFINE k == Len(frame) + 1
           fr == Append(frame, NewFrame(t, w))
           cl == [calls EXCEPT ![t] = @ \cup {k}]
           cnd == IF lock_request THEN {} ELSE cond
<1>1. AtLoop(t, k, fr, cl, TRUE, cnd)
  BY ProcessLoop
<1>2. /\ Loop(t, k, fr, cl, TRUE, cnd) /\ completed' = completed
      /\ pc[t] \in {"user", "sleep", "blocked", "timedwait"}
  BY DEF Process, Accesses
<1>3. ASSUME NEW c \in Clients
      PROVE  Running(fr, c) = Running(frame, c)
  <2>1. /\ Len(fr) = k /\ fr[k].item = NoItem /\ Len(frame) \in Nat
        /\ \A j \in 1..Len(frame) : fr[j] = frame[j]
    BY DEF IInv, TypeOK, NewFrame
  <2>2. RunItem(c) # NoItem
    BY RunItems
  <2>. QED BY <2>1, <2>2 DEF Running
<1>4. \A c \in Clients :
        Single(Queued(items, c), Running(fr, c),
               pc[c] \in {"runwakeup", "run"} /\ ~completed'[c])
  BY <1>2, <1>3 DEF RefInv, Pending
<1> HIDE DEF k, fr, cl, cnd
<1> QED BY <1>1, <1>2, <1>4, LoopRefs

(* The loop goes on after a wait.                                          *)
LEMMA ResumeRefs ==
  ASSUME IInv, RefInv, NEW t \in Threads, Resume(t)
  PROVE  RefInv'
<1>1. PICK k \in Innermost(t) : Loop(t, k, frame, calls, idling, cond)
  BY DEF Resume
<1>2. AtLoop(t, k, frame, calls, idling, cond)
  BY ResumeLoop
<1>3. completed' = completed /\ pc[t] \in {"user", "sleep", "blocked", "timedwait"}
  BY DEF Resume
<1>4. \A c \in Clients :
        Single(Queued(items, c), Running(frame, c),
               pc[c] \in {"runwakeup", "run"} /\ ~completed'[c])
  BY <1>3 DEF RefInv, Pending
<1> QED BY <1>1, <1>2, <1>3, <1>4, LoopRefs

(* A callback returns: its item is completed and no frame holds it.        *)
LEMMA ItemDoneRefs ==
  ASSUME IInv, RefInv, NEW t \in Threads, ItemDone(t)
  PROVE  RefInv'
<1>1. PICK k \in calls[t] :
        /\ InItem(t, k)
        /\ completed' = [c \in Clients |->
                           completed[c] \/ frame[k].item = RunItem(c)]
        /\ Loop(t, k, [frame EXCEPT ![k].item = NoItem], calls, TRUE, {})
  BY DEF ItemDone
<1> DEFINE fr == [frame EXCEPT ![k].item = NoItem]
           none == {}
<1>2. AtLoop(t, k, fr, calls, TRUE, none) /\ k = Len(frame)
  BY <1>1, ItemDoneLoop DEF ItemDone
<1>3. Loop(t, k, fr, calls, TRUE, none) /\ pc[t] = "user"
  BY <1>1 DEF ItemDone
<1>4. ASSUME NEW c \in Clients
      PROVE  Single(Queued(items, c), Running(fr, c),
                    pc[c] \in {"runwakeup", "run"} /\ ~completed'[c])
  <2>1. RunItem(c) # NoItem /\ frame \in Seq(Frames) /\ k \in 1..Len(frame)
    BY RunItems DEF IInv, TypeOK, Stack
  <2>2. /\ Len(fr) = Len(frame) /\ fr[k].item = NoItem
        /\ \A j \in 1..Len(frame) : j # k => fr[j] = frame[j]
    BY <2>1 DEF Frames
  <2>3. Running(fr, c) = Running(frame, c) \ {k}
    BY <2>1, <2>2 DEF Running
  <2>4. k \in Running(frame, c) <=> frame[k].item = RunItem(c)
    BY <2>1 DEF Running
  <2>5. completed'[c] = (completed[c] \/ frame[k].item = RunItem(c))
    BY <1>1
  <2>6. Single(Queued(items, c), Running(frame, c), Pending(c))
    BY DEF RefInv
  <2> HIDE DEF fr
  <2>7. CASE frame[k].item = RunItem(c)
    <3>1. Queued(items, c) = {} /\ Running(fr, c) = {} /\ completed'[c]
      BY <2>3, <2>4, <2>5, <2>6, <2>7 DEF Single
    <3>. QED BY <3>1 DEF Single
  <2>8. CASE frame[k].item # RunItem(c)
    <3>1. Running(fr, c) = Running(frame, c) /\ (completed'[c] <=> completed[c])
      BY <2>3, <2>4, <2>5, <2>8
    <3>. QED BY <2>6, <3>1 DEF Single, Pending
  <2>. QED BY <2>7, <2>8
<1> HIDE DEF fr, none
<1> QED BY <1>2, <1>3, <1>4, LoopRefs

(* mp_dispatch_cancel_fn() removes the items of a callback and no other:   *)
(* what it keeps stays in the queue, once.                                 *)
LEMMA CancelRefs ==
  ASSUME IInv, NEW t \in Threads, NEW f \in Fns, CancelFn(t, f), NEW c \in Clients,
         NEW R, NEW pending, Single(Queued(items, c), R, pending)
  PROVE  Single(Queued(items', c), R, pending)
<1> DEFINE kept == {i \in 1..Len(items) : items[i].fn # f}
           n == Cardinality(kept)
<1>1. PICK at \in [1..n -> kept] :
        /\ \A i, j \in 1..n : i < j => at[i] < at[j]
        /\ items' = [i \in 1..n |-> items[at[i]]]
  BY DEF CancelFn
<1>2. IsFiniteSet(kept) /\ n \in Nat /\ kept \subseteq Nat
  <2>1. Len(items) \in Nat
    BY DEF IInv, TypeOK
  <2>2. IsFiniteSet(1..Len(items))
    BY <2>1, FS_Interval
  <2>3. IsFiniteSet(kept)
    BY <2>2, FS_Subset
  <2>. QED BY <2>1, <2>3, FS_CardinalityType
<1>3. Queued(items, c) \subseteq kept
  <2>1. RunItem(c).fn # f
    BY RunItems, DispatchAssumption
  <2>. QED BY <2>1 DEF Queued
<1>4. Cardinality(1..n) = n
  <2>. HIDE DEF n
  <2>1. Cardinality(1..n) = IF 1 > n THEN 0 ELSE n - 1 + 1
    BY <1>2, FS_Interval
  <2>. QED BY <1>2, <2>1
<1>5. \A i, j \in 1..n : at[i] = at[j] => i = j
  <2>. HIDE DEF n, kept
  <2>. SUFFICES ASSUME NEW i \in 1..n, NEW j \in 1..n, at[i] = at[j]
                PROVE  i = j
    OBVIOUS
  <2>1. at[i] \in Nat /\ at[j] \in Nat /\ i \in Nat /\ j \in Nat
    <3>1. at[i] \in kept /\ at[j] \in kept
      OBVIOUS
    <3>2. kept \subseteq Nat
      BY <1>2
    <3>3. at[i] \in Nat /\ at[j] \in Nat
      BY <3>1, <3>2, Zenon
    <3>4. i \in Nat /\ j \in Nat
      BY <1>2
    <3>. QED BY <3>3, <3>4
  <2>2. ~(i < j) /\ ~(j < i)
    BY <1>1, <2>1
  <2>. QED BY <2>1, <2>2
<1>6. \A q \in kept : \E i \in 1..n : at[i] = q
  <2>. HIDE DEF kept
  <2>1. at \in Injection(1..n, kept)
    BY <1>5 DEF Injection, IsInjective
  <2>2. at \in Surjection(1..n, kept)
    BY <1>2, <1>4, <2>1, FS_Injection
  <2>. QED BY <2>2 DEF Surjection
<1>7. Queued(items', c) = {i \in 1..n : at[i] \in Queued(items, c)}
  <2>1. Len(items') = n /\ \A i \in 1..n : items'[i] = items[at[i]]
    <3>. HIDE DEF n
    <3>. QED BY <1>1, <1>2
  <2>2. \A i \in 1..n : at[i] \in 1..Len(items)
    <3>. HIDE DEF n
    <3>1. \A i \in 1..n : at[i] \in kept
      OBVIOUS
    <3>. QED BY <3>1
  <2>. HIDE DEF n
  <2>. QED BY <2>1, <2>2 DEF Queued
<1>. HIDE DEF n, kept
<1>8. ASSUME NEW q \in Nat, Queued(items, c) = {q}
      PROVE  \E i \in Nat : Queued(items', c) = {i}
  <2>1. PICK i \in 1..n : at[i] = q
    BY <1>3, <1>6, <1>8
  <2>2. Queued(items', c) = {i}
    BY <1>5, <1>7, <1>8, <2>1
  <2>. QED BY <1>2, <2>2
<1>9. Queued(items, c) = {} => Queued(items', c) = {}
  BY <1>7
<1>. QED BY <1>8, <1>9 DEF Single

(* Nothing is queued at first.                                             *)
LEMMA InitRefs == Init => RefInv
  BY DEF Init, RefInv, Queued, Running, Pending, Single, Threads

(* Every step keeps the count of the references to a stack item.           *)
LEMMA StepRefs == IInv /\ RefInv /\ [Next]_vars => RefInv'
<1> SUFFICES ASSUME IInv, RefInv, [Next]_vars PROVE RefInv'
  OBVIOUS
<1>b. /\ Target \in Threads /\ Clients \subseteq Threads /\ Target \notin Clients
      /\ pc \in [Threads -> PCs] /\ items \in Seq(Items)
      /\ completed \in [Clients -> BOOLEAN]
  BY DispatchAssumption DEF Threads, IInv, TypeOK
<1>1. ASSUME NEW t \in Threads, NEW it \in Items, pc[t] = "user",
             AppendItem(t, it, "wakeup", "user"), it.asynchronous,
             completed' = completed
      PROVE  RefInv'
  <2>. SUFFICES ASSUME NEW c \in Clients
                PROVE  Single(Queued(items', c), Running(frame', c), Pending(c)')
    BY DEF RefInv, Queued, Running
  <2>1. frame' = frame /\ Pending(c)' = Pending(c)
    BY <1>1, <1>b DEF AppendItem, Goto, Pending
  <2>2. Queued(items', c) = Queued(items, c)
    <3>1. CASE Mergeable(it)
      BY <1>1, <3>1 DEF AppendItem
    <3>2. CASE ~Mergeable(it)
      <4>1. it # RunItem(c) /\ items' = Append(items, it)
        BY <1>1, <3>2, RunItems DEF AppendItem
      <4>2. Queued(Append(items, it), c) = Queued(items, c)
        BY <1>b, <4>1, QueuedOther
      <4>. QED BY <4>1, <4>2
    <3>. QED BY <3>1, <3>2
  <2>. QED BY <2>1, <2>2 DEF RefInv
<1>2. ASSUME NEW t \in Threads, NEW f \in Fns, Enqueue(t, f) \/ EnqueueNotify(t, f)
      PROVE  RefInv'
  <2>1. /\ AsyncItem(f) \in Items /\ NotifyItem(f) \in Items
        /\ AsyncItem(f).asynchronous /\ NotifyItem(f).asynchronous
        /\ pc[t] = "user" /\ completed' = completed
    BY <1>2 DEF AsyncItem, NotifyItem, Items, Enqueue, EnqueueNotify
  <2> QED BY <1>1, <1>2, <2>1 DEF Enqueue, EnqueueNotify
<1>3. ASSUME NEW d \in Clients, Run(d)
      PROVE  RefInv'
  <2>. SUFFICES ASSUME NEW c \in Clients
                PROVE  Single(Queued(items', c), Running(frame', c), Pending(c)')
    BY DEF RefInv, Queued, Running
  <2>1. /\ pc[d] = "user" /\ frame' = frame /\ items' = Append(items, RunItem(d))
        /\ \E l \in {"runwakeup", "run"} : pc' = [pc EXCEPT ![d] = l]
        /\ completed' = [completed EXCEPT ![d] = FALSE]
    BY <1>3, RunItems DEF Run, AppendItem, Mergeable, Goto
  <2>2. RunItem(d) \in Items
    BY RunItems
  <2>3. Single(Queued(items, c), Running(frame, c), Pending(c))
    BY DEF RefInv
  <2>4. CASE c = d
    <3>1. Queued(items, c) = {} /\ Running(frame, c) = {}
      BY <2>1, <2>3, <2>4 DEF Single, Pending
    <3>2. Queued(items', c) = {Len(items) + 1} /\ Len(items) + 1 \in Nat
      BY <1>b, <2>1, <2>2, <2>4, <3>1, QueuedAppend
    <3>3. Pending(c)'
      BY <1>b, <2>1, <2>4 DEF Pending
    <3>. QED BY <2>1, <3>1, <3>2, <3>3 DEF Single
  <2>5. CASE c # d
    <3>1. RunItem(d) # RunItem(c)
      BY <2>5, RunItems
    <3>2. Queued(items', c) = Queued(items, c)
      <4>1. Queued(Append(items, RunItem(d)), c) = Queued(items, c)
        BY <1>b, <2>2, <3>1, QueuedOther
      <4>. QED BY <2>1, <4>1
    <3>3. Pending(c)' <=> Pending(c)
      BY <1>b, <2>1, <2>5 DEF Pending
    <3>. QED BY <2>1, <2>3, <3>2, <3>3 DEF Single
  <2>. QED BY <2>4, <2>5
<1>4. ASSUME NEW t \in Threads, NEW f \in Fns, CancelFn(t, f)
      PROVE  RefInv'
  <2>1. UNCHANGED <<frame, pc, completed>>
    BY <1>4 DEF CancelFn
  <2>2. ASSUME NEW c \in Clients
        PROVE  Single(Queued(items', c), Running(frame, c), Pending(c))
    BY <1>4, CancelRefs DEF RefInv
  <2>. QED BY <2>1, <2>2 DEF RefInv, Pending, Queued, Running
(* The other steps change no reference, and no caller's wait.              *)
<1>5. ASSUME UNCHANGED <<items, completed>>,
             Len(frame') = Len(frame),
             \A j \in 1..Len(frame) : frame'[j].item = frame[j].item,
             \A c \in Clients : Pending(c)' <=> Pending(c)
      PROVE  RefInv'
  <2>. SUFFICES ASSUME NEW c \in Clients
                PROVE  Single(Queued(items', c), Running(frame', c), Pending(c)')
    BY DEF RefInv, Queued, Running
  <2>1. Running(frame', c) = Running(frame, c)
    BY <1>5 DEF Running
  <2>. QED BY <1>5, <2>1 DEF RefInv, Single
<1>6. ASSUME NEW t \in Threads, Interrupt(t) \/ SpuriousWakeup(t) \/ WakeupFn(t)
      PROVE  RefInv'
  <2>1. UNCHANGED <<items, completed, frame>>
    BY <1>6 DEF Interrupt, SpuriousWakeup, WakeupFn
  <2>2. \A c \in Clients : Pending(c)' <=> Pending(c)
    BY <1>6, <1>b DEF Interrupt, SpuriousWakeup, WakeupFn, Goto, Pending
  <2>. QED BY <1>5, <2>1, <2>2
<1>7. ASSUME NEW d \in Clients, RunWait(d)
      PROVE  RefInv'
  <2>1. UNCHANGED <<items, completed, frame>>
    BY <1>7 DEF RunWait
  <2>2. \A c \in Clients : Pending(c)' <=> Pending(c)
    <3>1. CASE completed[d]
      BY <1>7, <1>b, <3>1 DEF RunWait, Goto, Pending
    <3>2. CASE ~completed[d]
      BY <1>7, <3>2 DEF RunWait, Pending
    <3>. QED BY <3>1, <3>2
  <2>. QED BY <1>5, <2>1, <2>2
<1>8. ASSUME Sleep \/ SleepTimeout
      PROVE  RefInv'
  <2>1. UNCHANGED <<items, completed, frame>>
    BY <1>8 DEF Sleep, SleepTimeout
  <2>2. \A c \in Clients : Pending(c)' <=> Pending(c)
    BY <1>8, <1>b DEF Sleep, SleepTimeout, Goto, Pending
  <2>. QED BY <1>5, <2>1, <2>2
<1>9. ASSUME NEW t \in Threads, NEW k \in 1..Len(frame), NEW g \in Frames,
             frame' = [frame EXCEPT ![k] = g], g.item = frame[k].item,
             UNCHANGED <<items, completed>>,
             \A c \in Clients : Pending(c)' <=> Pending(c)
      PROVE  RefInv'
  <2>1. /\ Len(frame') = Len(frame)
        /\ \A j \in 1..Len(frame) : frame'[j].item = frame[j].item
    BY <1>9 DEF IInv, TypeOK
  <2>. QED BY <1>5, <1>9, <2>1
<1>10. ASSUME NEW t \in Threads, Timeout(t)
       PROVE  RefInv'
  <2>1. PICK k \in Innermost(t) : frame' = [frame EXCEPT ![k].wait = FALSE]
    BY <1>10 DEF Timeout
  <2>. DEFINE g == [frame[k] EXCEPT !.wait = FALSE]
  <2>2. k \in 1..Len(frame) /\ frame[k] \in Frames
    BY DEF IInv, TypeOK, Stack, Innermost
  <2>3. g \in Frames /\ g.item = frame[k].item /\ frame' = [frame EXCEPT ![k] = g]
    BY <2>1, <2>2 DEF Frames
  <2>4. UNCHANGED <<items, completed, pc>>
    BY <1>10 DEF Timeout
  <2>. HIDE DEF g
  <2>. QED BY <1>9, <2>2, <2>3, <2>4 DEF Pending
<1>11. ASSUME NEW t \in Threads, Unlock(t)
       PROVE  RefInv'
  <2>. DEFINE g == [frame[Len(frame)] EXCEPT !.locked = FALSE]
  <2>1. Owns(t)
    BY <1>11 DEF Unlock, Owns
  <2>2. Len(frame) \in 1..Len(frame) /\ frame[Len(frame)] \in Frames
    BY <1>11, <2>1, OwnerOnTop DEF IInv, TypeOK, Unlock
  <2>3. /\ g \in Frames /\ g.item = frame[Len(frame)].item
        /\ frame' = [frame EXCEPT ![Len(frame)] = g]
    BY <1>11, <2>2 DEF Unlock, Frames
  <2>4. UNCHANGED <<items, completed, pc>>
    BY <1>11 DEF Unlock
  <2>. HIDE DEF g
  <2>. QED BY <1>9, <1>11, <2>2, <2>3, <2>4 DEF Pending
<1>12. ASSUME NEW c \in Clients, pc[c] \in {"user", "grab", "kicked", "trap"}, Grant(c),
              UNCHANGED <<items, completed>>
       PROVE  RefInv'
  <2>. DEFINE g == [frame[Len(frame)] EXCEPT !.locked = TRUE, !.locked_thread = c]
  <2>1. Len(frame) \in 1..Len(frame) /\ frame[Len(frame)] \in Frames
    BY <1>12 DEF IInv, TypeOK, Idle, Grant
  <2>2. /\ g \in Frames /\ g.item = frame[Len(frame)].item
        /\ frame' = [frame EXCEPT ![Len(frame)] = g]
    BY <1>12, <1>b, <2>1 DEF Grant, Frames
  <2>3. \A d \in Clients : Pending(d)' <=> Pending(d)
    BY <1>12, <1>b DEF Grant, Goto, Pending
  <2>. HIDE DEF g
  <2>. QED BY <1>9, <1>12, <1>b, <2>1, <2>2, <2>3
<1>13. ASSUME NEW c \in Clients, Lock(c) \/ LockWait(c)
       PROVE  RefInv'
  <2>1. /\ UNCHANGED <<items, completed>>
        /\ pc[c] \in {"user", "grab", "kicked", "trap"}
    BY <1>13 DEF Lock, LockWait
  <2>2. CASE Grant(c)
    BY <1>12, <2>1, <2>2
  <2>3. CASE ~Grant(c)
    <3>1. frame' = frame /\ \E l \in {"grab", "kick", "trap"} : pc' = [pc EXCEPT ![c] = l]
      BY <1>13, <2>3 DEF Lock, LockWait, Goto
    <3>2. \A d \in Clients : Pending(d)' <=> Pending(d)
      BY <1>b, <2>1, <3>1 DEF Pending
    <3>. QED BY <1>5, <2>1, <3>1, <3>2
  <2>. QED BY <2>2, <2>3
<1>14. CASE UNCHANGED vars
  BY <1>5, <1>14 DEF vars, Pending
<1> QED BY <1>2, <1>3, <1>4, <1>6, <1>7, <1>8, <1>10, <1>11, <1>13, <1>14,
           ProcessRefs, ResumeRefs, ItemDoneRefs DEF Next

(* The item on the stack of mp_dispatch_run()'s caller is in the queue or  *)
(* in one running invocation exactly until it is completed: nobody refers  *)
(* to it when the caller returns, and it is not run twice.                 *)
THEOREM StackItemsLive == Spec => []StackItemLifetime
<1>1. Init => RefInv
  BY InitRefs
<1>2. RefInv => StackItemLifetime
  <2>. SUFFICES ASSUME RefInv, NEW c \in Clients
                PROVE  StackItemRefs(c) =
                         IF pc[c] \in {"runwakeup", "run"} /\ ~completed[c] THEN 1 ELSE 0
    BY DEF StackItemLifetime
  <2>. DEFINE Q == Queued(items, c)
              R == Running(frame, c)
  <2>1. Single(Q, R, Pending(c))
    BY DEF RefInv
  <2>2. StackItemRefs(c) = Cardinality(Q) + Cardinality(R)
    BY DEF StackItemRefs, Queued, Running
  <2>. HIDE DEF Q, R
  <2>3. Cardinality({}) = 0 /\ \A i \in Nat : Cardinality({i}) = 1
    BY FS_EmptySet, FS_Singleton
  <2>. QED BY <2>1, <2>2, <2>3 DEF Single, Pending
<1>3. IInv /\ RefInv /\ [Next]_vars => RefInv'
  BY StepRefs
<1>. QED BY <1>1, <1>2, <1>3, Invariant, PTL DEF Spec

-----------------------------------------------------------------------------
(* The refinement of CoreAccess.                                           *)

(* The owner can be read off the top frame alone.                          *)
LEMMA OwnsTop == IInv => \A t \in Threads : Owns(t) <=> OnTop(frame, t)
<1>. SUFFICES ASSUME IInv, NEW t \in Threads
              PROVE  Owns(t) <=> OnTop(frame, t)
  OBVIOUS
<1>. DEFINE n == Len(frame)
<1>1. /\ n \in Nat /\ Stack(frame, calls) /\ Place(frame, calls, t, pc[t])
      /\ calls[t] = {k \in 1..n : frame[k].thread = t}
  BY DEF IInv, TypeOK, Stack
<1>2. CASE n = 0 /\ t = Target
  <2>1. calls[t] = {} /\ held[t] = 0
    BY <1>1, <1>2 DEF Stack
  <2>. QED BY <1>1, <1>2, <2>1 DEF Owns, OnTop, Free, Place
<1>3. CASE n # 0 /\ frame[n].item # NoItem /\ t = frame[n].thread
  <2>1. n \in calls[t] /\ \A j \in calls[t] : j <= n
    BY <1>1, <1>3
  <2>2. pc[t] \in {"user", "wakeup"} /\ InItem(t, n)
    BY <1>1, <1>3, <2>1 DEF Place, InItem, Innermost
  <2>. QED BY <1>3, <2>1, <2>2 DEF Owns, OnTop
<1>4. CASE n # 0 /\ frame[n].locked /\ t = frame[n].locked_thread
  <2>1. held[t] = n
    BY <1>1, <1>4 DEF Stack
  <2>2. calls[t] = {}
    BY <1>1, <1>4, <2>1 DEF Stack
  <2>. QED BY <1>1, <1>4, <2>1, <2>2 DEF Owns, OnTop, HasLock, Place
<1>5. Owns(t) => OnTop(frame, t)
  BY OwnerOnTop
<1>. QED BY <1>2, <1>3, <1>4, <1>5 DEF OnTop

Ownerless(fr) == \A t \in Threads : ~OnTop(fr, t)

(* The abstract owner is the thread the top frame names, if it names one.  *)
LEMMA OwnerTop ==
  IInv => /\ \A t \in Threads : OnTop(frame, t) => Owner = t
          /\ Ownerless(frame) => Owner = NoThread
<1>. SUFFICES ASSUME IInv
              PROVE  /\ \A t \in Threads : OnTop(frame, t) => Owner = t
                     /\ Ownerless(frame) => Owner = NoThread
  OBVIOUS
<1>1. \A t \in Threads : Owns(t) <=> OnTop(frame, t)
  BY OwnsTop
<1>2. Len(frame) # 0 /\ frame[Len(frame)].locked => frame[Len(frame)].item = NoItem
  BY DEF IInv, Stack, TypeOK
<1>3. \A t, u \in Threads : OnTop(frame, t) /\ OnTop(frame, u) => t = u
  BY <1>2 DEF OnTop
<1>. HIDE DEF IInv
<1>. QED BY <1>1, <1>3 DEF Owner, Ownerless

(* The same of the state after a step.                                     *)
LEMMA OwnerNext ==
  IInv' => /\ \A t \in Threads : OnTop(frame', t) => Owner' = t
           /\ Ownerless(frame') => Owner' = NoThread
<1>1. IInv' => /\ (\A t \in Threads : OnTop(frame, t) => Owner = t)'
               /\ (Ownerless(frame) => Owner = NoThread)'
  BY OwnerTop, PTL
<1>. QED BY <1>1 DEF Ownerless, OnTop

-----------------------------------------------------------------------------
(* The state of a mp_dispatch_run() whose caller is at l.                  *)
CallOf(l, done, R) ==
  IF l \notin {"runwakeup", "run"} THEN "none"
  ELSE IF done THEN "done"
  ELSE IF R # {} THEN "running"
  ELSE "queued"

(* The state of a call depends on three things only: where its caller is,  *)
(* whether it was completed, and whether a frame runs it.                  *)
LEMMA CallStates ==
  /\ CallState = [c \in Clients |-> CallOf(pc[c], completed[c], Running(frame, c))]
  /\ CallState' = [c \in Clients |-> CallOf(pc'[c], completed'[c], Running(frame', c))]
<1>1. \A c \in Clients : (Executing(c) <=> Running(frame, c) # {})
  BY DEF Executing, Running
<1>2. \A c \in Clients : (Executing(c)' <=> Running(frame', c) # {})
  BY DEF Executing, Running
<1>. QED BY <1>1, <1>2, Zenon DEF CallState, CallOf

-----------------------------------------------------------------------------
(* Who owns the state changes only with the user of the top frame.         *)
LEMMA OwnerKept ==
  ASSUME IInv, IInv', \A t \in Threads : OnTop(frame', t) <=> OnTop(frame, t)
  PROVE  Owner' = Owner
<1>1. CASE Ownerless(frame)
  <2>1. Ownerless(frame')
    BY <1>1 DEF Ownerless
  <2>2. Owner = NoThread /\ Owner' = NoThread
    BY <1>1, <2>1, OwnerTop, OwnerNext
  <2>. QED BY <2>2
<1>2. CASE ~Ownerless(frame)
  <2>1. PICK t \in Threads : OnTop(frame, t)
    BY <1>2 DEF Ownerless
  <2>2. Owner = t /\ Owner' = t
    BY <2>1, OwnerTop, OwnerNext
  <2>. QED BY <2>2
<1>. QED BY <1>1, <1>2

(* A step that leaves the frames' users, the items and the callers of      *)
(* mp_dispatch_run() where they are changes nothing CoreAccess knows.      *)
LEMMA Stutter ==
  ASSUME IInv, IInv',
         \A t \in Threads : OnTop(frame', t) <=> OnTop(frame, t),
         \A c \in Clients :
           CallOf(pc'[c], completed'[c], Running(frame', c))
             = CallOf(pc[c], completed[c], Running(frame, c))
  PROVE  UNCHANGED CA!absVars
<1>1. Owner' = Owner
  BY OwnerKept
<1>2. CallState' = CallState
  BY CallStates, Zenon
<1>. QED BY <1>1, <1>2 DEF CA!absVars

(* A step that does not touch the frames, seen through pc and completed.   *)
LEMMA StutterCalls ==
  ASSUME IInv, IInv', frame' = frame, completed' = completed,
         \A c \in Clients :
           \/ pc'[c] = pc[c]
           \/ pc'[c] \in {"runwakeup", "run"} /\ pc[c] \in {"runwakeup", "run"}
           \/ pc'[c] \notin {"runwakeup", "run"} /\ pc[c] \notin {"runwakeup", "run"}
  PROVE  UNCHANGED CA!absVars
<1>1. \A t \in Threads : OnTop(frame', t) <=> OnTop(frame, t)
  OBVIOUS
<1>2. ASSUME NEW c \in Clients
      PROVE  CallOf(pc'[c], completed'[c], Running(frame', c))
               = CallOf(pc[c], completed[c], Running(frame, c))
  BY <1>2 DEF CallOf
<1>. HIDE DEF IInv
<1>. QED BY <1>1, <1>2, Stutter

(* A thread that only moves, and not into or out of mp_dispatch_run(),     *)
(* does nothing the abstract specification speaks of.                      *)
LEMMA StutterMove ==
  ASSUME IInv, IInv', frame' = frame, completed' = completed,
         NEW t \in Threads, NEW l, pc' = [pc EXCEPT ![t] = l],
         pc[t] \notin {"runwakeup", "run"}, l \notin {"runwakeup", "run"}
  PROVE  UNCHANGED CA!absVars
<1>1. pc \in [Threads -> PCs] /\ Clients \subseteq Threads
  BY DEF IInv, TypeOK, Threads
<1>2. ASSUME NEW c \in Clients
      PROVE  \/ pc'[c] = pc[c]
             \/ pc'[c] \notin {"runwakeup", "run"} /\ pc[c] \notin {"runwakeup", "run"}
  BY <1>1
<1>. HIDE DEF IInv
<1>. QED BY <1>2, StutterCalls

(* What the code before the loop has left (fr, completed') says of a call; *)
(* the loop waits, or starts the call in S, or none.                       *)
AtMostOne == {{}} \cup {{c} : c \in Clients}
Between(fr, c) == CallOf(pc[c], completed'[c], Running(fr, c))

Waits(fr) ==
  frame' = fr /\ \A c \in Clients : CallState'[c] = Between(fr, c)

Starts(S, fr) ==
  /\ \A c \in S : Between(fr, c) = "queued"
  /\ \A c \in Clients :
       CallState'[c] = IF c \in S THEN "running" ELSE Between(fr, c)

(* No call at all is at most one.                                          *)
LEMMA Nobody == {} \in AtMostOne
BY DEF AtMostOne

(* Thread t takes or gives up the state, finishes the call in F and starts *)
(* the one in S.                                                           *)
LEMMA ServeStep ==
  ASSUME NEW t \in Threads, Owner \in {t, NoThread}, Owner' \in {t, NoThread},
         NEW F \in AtMostOne, NEW S \in AtMostOne,
         \A c \in F : CallState[c] = "running",
         \A c \in S : CallState[c] = "queued",
         F # {} => Owner = t,
         S # {} => Owner' = t,
         \A c \in Clients :
           CallState'[c] = IF c \in S THEN "running"
                           ELSE IF c \in F THEN "done" ELSE CallState[c]
  PROVE  CA!Serve(t)
<1>1. CallState' = [c \in Clients |-> CallState'[c]]
  BY CallStates, Zenon
<1>2. CallState' = [c \in Clients |-> IF c \in S THEN "running"
                                      ELSE CA!Finished(F)[c]]
  BY <1>1 DEF CA!Finished
<1>. QED BY <1>2 DEF CA!Serve, AtMostOne

(* A step that takes or gives up the state and runs no call is a Serve.    *)
LEMMA HandOver ==
  ASSUME NEW t \in Threads, Owner \in {t, NoThread}, Owner' \in {t, NoThread},
         \A c \in Clients : CallState'[c] = CallState[c]
  PROVE  CA!Serve(t)
<1>. DEFINE F == {}
<1>1. F \in AtMostOne /\ F = {} /\ \A c : c \notin F
  BY Nobody
<1>. HIDE DEF F
<1>. QED BY <1>1, ServeStep, Zenon

(* An invocation of the loop by t is such a step, when t has finished the  *)
(* call in F before it, as the owner.                                      *)
LEMMA LoopStep ==
  ASSUME IInv', NEW t \in Threads, NEW fr, NEW F \in AtMostOne,
         Owner \in {t, NoThread}, F # {} => Owner = t,
         \A c \in F : c \in Clients /\ CallState[c] = "running",
         \A c \in Clients :
           Between(fr, c) = IF c \in F THEN "done" ELSE CallState[c],
         Ownerless(fr),
         \/ Waits(fr)
         \/ OnTop(frame', t) /\ \E S \in AtMostOne : Starts(S, fr)
  PROVE  CA!Serve(t)
<1>1. CASE Waits(fr)
  <2>. DEFINE S == {}
  <2>1. S \in AtMostOne /\ S = {} /\ \A c : c \notin S
    BY Nobody
  <2>2. Owner' = NoThread
    <3>1. Ownerless(frame')
      BY <1>1 DEF Waits
    <3>. QED BY <3>1, OwnerNext
  <2>3. \A c \in Clients :
          CallState'[c] = IF c \in F THEN "done" ELSE CallState[c]
    BY <1>1 DEF Waits
  <2>. HIDE DEF S
  <2>. QED BY <2>1, <2>2, <2>3, ServeStep, Zenon
<1>2. ASSUME OnTop(frame', t), NEW S \in AtMostOne, Starts(S, fr)
      PROVE  CA!Serve(t)
  <2>1. Owner' = t
    BY <1>2, OwnerNext
  <2>2. \A c \in S : c \in Clients
    BY DEF AtMostOne
  <2>3. \A c \in S : CallState[c] = "queued"
    BY <1>2, <2>2 DEF Starts
  <2>4. \A c \in Clients :
          CallState'[c] = IF c \in S THEN "running"
                          ELSE IF c \in F THEN "done" ELSE CallState[c]
    BY <1>2, Zenon DEF Starts
  <2>. QED BY <2>1, <2>3, <2>4, ServeStep
<1>. QED BY <1>1, <1>2

(* The loop of mp_dispatch_queue_process(), for its three callers.  What   *)
(* it gets is the state that the code before it left (fr, completed'):     *)
(* either it waits, or it finds its frame idle and t owns the state, to    *)
(* run an item or because the invocation returns.                          *)
LEMMA LoopServe ==
  ASSUME IInv, NEW t \in Threads,
         NEW k, NEW fr, NEW cl, NEW idl, NEW cnd,
         AtLoop(t, k, fr, cl, idl, cnd),
         pc[t] \in {"user", "sleep", "blocked", "timedwait"},
         \A c \in Clients :
           Single(Queued(items, c), Running(fr, c),
                  pc[c] \in {"runwakeup", "run"} /\ ~completed'[c]),
         Loop(t, k, fr, cl, idl, cnd)
  PROVE  \/ Waits(fr)
         \/ Ownerless(fr) /\ OnTop(frame', t) /\ \E S \in AtMostOne : Starts(S, fr)
<1>1. /\ fr \in Seq(Frames) /\ Stack(fr, cl) /\ k \in cl[t] /\ fr[k].item = NoItem
      /\ items \in Seq(Items) /\ pc \in [Threads -> PCs] /\ Clients \subseteq Threads
  BY DEF AtLoop, IInv, TypeOK, Threads
<1>2. k \in 1..Len(fr) /\ Len(fr) \in Nat /\ fr[k] \in Frames /\ fr[k].thread = t
  BY <1>1 DEF Stack
<1>3. PICK l \in {"blocked", "timedwait", "user"} : pc' = [pc EXCEPT ![t] = l]
  BY DEF Loop, Block, TakeItem, TimedWait, Return, Goto
<1>4. ASSUME NEW c \in Clients
      PROVE  CallState'[c] = CallOf(pc[c], completed'[c], Running(frame', c))
  <2>1. pc'[c] \in {"runwakeup", "run"} <=> pc[c] \in {"runwakeup", "run"}
    BY <1>1, <1>3
  <2>2. CallState'[c] = CallOf(pc'[c], completed'[c], Running(frame', c))
    BY CallStates, Zenon
  <2>. QED BY <2>1, <2>2 DEF CallOf
<1>5. CASE Block(t, k, fr, cl, idl, cnd) \/ TimedWait(t, k, fr, cl, idl, cnd)
  <2>1. frame' = fr
    BY <1>5 DEF Block, TimedWait
  <2>. QED BY <1>4, <2>1 DEF Waits, Between
<1>6. ASSUME Len(fr) = k, ~fr[k].locked
      PROVE  Ownerless(fr)
  BY <1>1, <1>2, <1>6 DEF Ownerless, OnTop
<1>7. CASE Return(t, k, fr, cl, idl, cnd)
  <2>1. frame' = SubSeq(fr, 1, k - 1) /\ Len(fr) = k /\ ~fr[k].locked
    BY <1>7 DEF Return, IsBlocked
  <2>2. Len(frame') = k - 1 /\ \A j \in 1..(k - 1) : frame'[j] = fr[j]
    <3>1. \A j \in 1..(k - 1) : fr[j] \in Frames
      BY <1>1, <1>2
    <3>. QED BY <1>2, <2>1, <3>1, SubSeqProperties
  <2>3. OnTop(frame', t)
    <3>1. CASE k = 1
      BY <1>1, <1>2, <2>2, <3>1 DEF Stack, OnTop
    <3>2. CASE k # 1
      <4>1. k - 1 \in 1..(Len(fr) - 1) /\ (k - 1) + 1 = k
        BY <1>2, <2>1, <3>2
      <4>2. \/ fr[k - 1].locked /\ t = fr[k - 1].locked_thread
            \/ fr[k - 1].item # NoItem /\ t = fr[k - 1].thread
        BY <1>1, <1>2, <4>1 DEF Stack
      <4>. QED BY <1>2, <2>2, <4>1, <4>2 DEF OnTop
    <3>. QED BY <3>1, <3>2
  <2>4. \A c \in Clients : Running(frame', c) = Running(fr, c)
    BY <1>1, <1>2, <2>1, <2>2, RunItems DEF Running
  <2>5. Starts({}, fr)
    BY <1>4, <2>4 DEF Starts, Between
  <2>. QED BY <1>6, <2>1, <2>3, <2>5, Nobody
<1>8. CASE TakeItem(t, k, fr, cl, idl, cnd)
  <2>1. /\ items # <<>> /\ Len(fr) = k /\ ~fr[k].locked
        /\ frame' = [fr EXCEPT ![k].item = Head(items)]
    BY <1>8 DEF TakeItem, IsBlocked
  <2>2. Head(items) \in Items /\ Head(items) # NoItem
    BY <1>1, <2>1, DispatchAssumption
  <2>3. /\ Len(frame') = Len(fr) /\ frame'[k].item = Head(items)
        /\ frame'[k].thread = t
        /\ \A j \in 1..Len(fr) : j # k => frame'[j] = fr[j]
    BY <1>1, <1>2, <2>1 DEF Frames
  <2>4. OnTop(frame', t)
    BY <1>2, <2>1, <2>2, <2>3 DEF OnTop
  <2>5. ASSUME NEW c \in Clients
        PROVE  Running(frame', c) =
                 Running(fr, c) \cup (IF Head(items) = RunItem(c) THEN {k} ELSE {})
    <3>1. RunItem(c) # NoItem
      BY RunItems
    <3>. QED BY <1>1, <1>2, <2>3, <3>1 DEF Running
  <2>6. CASE \E c \in Clients : Head(items) = RunItem(c)
    <3>1. PICK c \in Clients : Head(items) = RunItem(c)
      BY <2>6
    <3>2. 1 \in Queued(items, c)
      BY <1>1, <2>1, <3>1 DEF Queued
    <3>3. /\ Running(fr, c) = {}
          /\ pc[c] \in {"runwakeup", "run"} /\ ~completed'[c]
      BY <3>2 DEF Single
    <3>4. CallOf(pc[c], completed'[c], Running(fr, c)) = "queued"
      BY <3>3 DEF CallOf
    <3>5. CallState'[c] = "running"
      BY <1>4, <2>5, <3>1, <3>3 DEF CallOf
    <3>6. ASSUME NEW d \in Clients, d # c
          PROVE  CallState'[d] = CallOf(pc[d], completed'[d], Running(fr, d))
      <4>1. Running(frame', d) = Running(fr, d)
        BY <2>5, <3>1, <3>6, RunItems
      <4>. QED BY <1>4, <4>1
    <3>7. {c} \in AtMostOne
      BY DEF AtMostOne
    <3>8. Starts({c}, fr)
      BY <3>4, <3>5, <3>6 DEF Starts, Between
    <3>. QED BY <1>6, <2>1, <2>4, <3>7, <3>8
  <2>7. CASE ~\E c \in Clients : Head(items) = RunItem(c)
    <3>1. \A c \in Clients : Running(frame', c) = Running(fr, c)
      BY <2>5, <2>7
    <3>2. Starts({}, fr)
      BY <1>4, <3>1 DEF Starts, Between
    <3>. QED BY <1>6, <2>1, <2>4, <3>2, Nobody
  <2>. QED BY <2>6, <2>7
<1>. QED BY <1>5, <1>7, <1>8 DEF Loop

-----------------------------------------------------------------------------
(* The callers of the loop.  Process() is called by the owner; Resume()    *)
(* finds its frame idle or waits on; ItemDone() has a call to finish when  *)
(* the item was that of mp_dispatch_run().                                 *)
LEMMA ProcessServes ==
  ASSUME IInv, IInv', RefInv, NEW t \in Threads, NEW w \in BOOLEAN, Process(t, w)
  PROVE  CA!Serve(t)
<1> DEFINE k == Len(frame) + 1
           fr == Append(frame, NewFrame(t, w))
           cl == [calls EXCEPT ![t] = @ \cup {k}]
           cnd == IF lock_request THEN {} ELSE cond
<1>1. AtLoop(t, k, fr, cl, TRUE, cnd)
  BY ProcessLoop
<1>2. /\ Loop(t, k, fr, cl, TRUE, cnd) /\ completed' = completed
      /\ pc[t] \in {"user", "sleep", "blocked", "timedwait"}
  BY DEF Process, Accesses
<1>3. /\ Len(fr) = k /\ fr[k].item = NoItem /\ ~fr[k].locked
      /\ Len(frame) \in Nat /\ \A j \in 1..Len(frame) : fr[j] = frame[j]
  BY DEF IInv, TypeOK, NewFrame
<1>4. ASSUME NEW c \in Clients
      PROVE  Running(fr, c) = Running(frame, c)
  <2>1. RunItem(c) # NoItem
    BY RunItems
  <2>. QED BY <1>3, <2>1 DEF Running
<1>5. Ownerless(fr)
  BY <1>3 DEF Ownerless, OnTop
<1>6. \A c \in Clients :
        Single(Queued(items, c), Running(fr, c),
               pc[c] \in {"runwakeup", "run"} /\ ~completed'[c])
  BY <1>2, <1>4 DEF RefInv, Pending
<1>7. \A c \in Clients : Between(fr, c) = CallState[c]
  BY <1>2, <1>4, CallStates DEF Between
<1>8. Owner = t
  <2>1. Owns(t)
    BY DEF Process, Accesses, IInv, Place, Owns, Free
  <2>. QED BY <2>1, OwnsTop, OwnerTop
<1> HIDE DEF k, fr, cl, cnd
<1>9. \/ Waits(fr)
      \/ Ownerless(fr) /\ OnTop(frame', t) /\ \E S \in AtMostOne : Starts(S, fr)
  BY <1>1, <1>2, <1>6, LoopServe, Zenon
<1> DEFINE F == {}
<1>10. F \in AtMostOne /\ F = {} /\ \A c : c \notin F
  BY Nobody
<1> HIDE DEF F
<1> QED BY <1>5, <1>7, <1>8, <1>9, <1>10, LoopStep, Zenon

(* The loop goes on after a wait.                                          *)
LEMMA ResumeServes ==
  ASSUME IInv, IInv', RefInv, NEW t \in Threads, Resume(t)
  PROVE  CA!Serve(t) \/ UNCHANGED CA!absVars
<1>1. PICK k \in Innermost(t) : Loop(t, k, frame, calls, idling, cond)
  BY DEF Resume
<1>2. AtLoop(t, k, frame, calls, idling, cond)
  BY ResumeLoop
<1>3. completed' = completed /\ pc[t] \in {"user", "sleep", "blocked", "timedwait"}
  BY DEF Resume
<1>4. \A c \in Clients :
        Single(Queued(items, c), Running(frame, c),
               pc[c] \in {"runwakeup", "run"} /\ ~completed'[c])
  BY <1>3 DEF RefInv, Pending
<1>5. \A c \in Clients : Between(frame, c) = CallState[c]
  BY <1>3, CallStates DEF Between
<1>6. \/ Waits(frame)
      \/ /\ Ownerless(frame) /\ OnTop(frame', t)
         /\ \E S \in AtMostOne : Starts(S, frame)
  BY <1>1, <1>2, <1>3, <1>4, LoopServe
<1>7. CASE Waits(frame)
  <2>1. frame' = frame /\ \A c \in Clients : CallState'[c] = CallState[c]
    BY <1>5, <1>7 DEF Waits
  <2>2. \A c \in Clients :
          /\ CallState[c] = CallOf(pc[c], completed[c], Running(frame, c))
          /\ CallState'[c] = CallOf(pc'[c], completed'[c], Running(frame', c))
    BY CallStates, Zenon
  <2>3. \A u \in Threads : OnTop(frame', u) <=> OnTop(frame, u)
    BY <2>1
  <2>. QED BY <2>1, <2>2, <2>3, Stutter
<1>8. CASE /\ Ownerless(frame) /\ OnTop(frame', t)
           /\ \E S \in AtMostOne : Starts(S, frame)
  <2>1. Owner = NoThread
    BY <1>8, OwnerTop
  <2>. DEFINE F == {}
  <2>2. F \in AtMostOne /\ F = {} /\ \A c : c \notin F
    BY Nobody
  <2>. HIDE DEF F
  <2>. QED BY <1>5, <1>8, <2>1, <2>2, LoopStep, Zenon
<1> QED BY <1>6, <1>7, <1>8

(* The loop goes on after a callback: the call it ran is served.           *)
LEMMA ItemDoneServes ==
  ASSUME IInv, IInv', RefInv, NEW t \in Threads, ItemDone(t)
  PROVE  CA!Serve(t)
<1>1. PICK k \in calls[t] :
        /\ InItem(t, k)
        /\ completed' = [c \in Clients |->
                           completed[c] \/ frame[k].item = RunItem(c)]
        /\ Loop(t, k, [frame EXCEPT ![k].item = NoItem], calls, TRUE, {})
  BY DEF ItemDone
<1> DEFINE fr == [frame EXCEPT ![k].item = NoItem]
           none == {}
           F == {c \in Clients : frame[k].item = RunItem(c)}
<1>2. AtLoop(t, k, fr, calls, TRUE, none) /\ k = Len(frame)
  BY <1>1, ItemDoneLoop DEF ItemDone
<1>3. Loop(t, k, fr, calls, TRUE, none) /\ pc[t] = "user"
  BY <1>1 DEF ItemDone
<1>4. /\ frame \in Seq(Frames) /\ k \in 1..Len(frame) /\ ~frame[k].locked
  <2>1. Owns(t)
    BY <1>1, <1>3 DEF Owns
  <2>. QED BY <1>1, <1>2, <2>1, OwnerOnTop DEF IInv, TypeOK, Stack
<1>5. /\ Len(fr) = Len(frame) /\ fr[k].item = NoItem /\ ~fr[k].locked
      /\ \A j \in 1..Len(frame) : j # k => fr[j] = frame[j]
  BY <1>4 DEF Frames
<1> HIDE DEF fr, none
<1>6. ASSUME NEW c \in Clients
      PROVE  /\ c \in F <=> k \in Running(frame, c)
             /\ Running(fr, c) = Running(frame, c) \ {k}
             /\ completed'[c] <=> completed[c] \/ c \in F
  <2>1. RunItem(c) # NoItem
    BY RunItems
  <2>. QED BY <1>1, <1>4, <1>5, <2>1 DEF Running
<1>7. ASSUME NEW c \in Clients
      PROVE  Single(Queued(items, c), Running(frame, c), Pending(c))
  BY DEF RefInv
<1>8. F \in AtMostOne
  <2>1. \A c, d \in F : c = d
    BY RunItems
  <2>. QED BY <2>1 DEF AtMostOne
<1>9. Ownerless(fr)
  <2>1. Len(fr) = k /\ k # 0
    BY <1>2, <1>4, <1>5
  <2>. QED BY <1>5, <2>1 DEF Ownerless, OnTop
<1>10. Owner = t
  <2>1. Owns(t)
    BY <1>1, <1>3 DEF Owns
  <2>. QED BY <2>1, OwnsTop, OwnerTop
<1> HIDE DEF F
<1>11. ASSUME NEW c \in Clients
       PROVE  /\ Single(Queued(items, c), Running(fr, c),
                        pc[c] \in {"runwakeup", "run"} /\ ~completed'[c])
              /\ c \in F => CallState[c] = "running"
              /\ Between(fr, c) = IF c \in F THEN "done" ELSE CallState[c]
  <2>1. CallState[c] = CallOf(pc[c], completed[c], Running(frame, c))
    BY CallStates, Zenon
  <2>2. CASE c \in F
    <3>1. /\ Queued(items, c) = {} /\ Running(fr, c) = {} /\ completed'[c]
          /\ Running(frame, c) # {} /\ pc[c] \in {"runwakeup", "run"}
          /\ ~completed[c]
      BY <1>6, <1>7, <2>2 DEF Single, Pending
    <3>. QED BY <2>1, <2>2, <3>1 DEF Single, CallOf, Between
  <2>3. CASE c \notin F
    <3>1. Running(fr, c) = Running(frame, c) /\ (completed'[c] <=> completed[c])
      BY <1>6, <2>3
    <3>2. Single(Queued(items, c), Running(fr, c),
                 pc[c] \in {"runwakeup", "run"} /\ ~completed'[c])
      BY <1>7, <3>1 DEF Pending, Single
    <3>. QED BY <2>1, <2>3, <3>1, <3>2 DEF CallOf, Between
  <2>. QED BY <2>2, <2>3
<1>12. \A c \in F : c \in Clients /\ CallState[c] = "running"
  BY <1>11 DEF F
<1>13. \/ Waits(fr)
       \/ Ownerless(fr) /\ OnTop(frame', t) /\ \E S \in AtMostOne : Starts(S, fr)
  <2>1. pc[t] \in {"user", "sleep", "blocked", "timedwait"}
    BY <1>3
  <2>. QED BY <1>2, <1>3, <1>11, <2>1, LoopServe, Zenon
<1> QED BY <1>8, <1>9, <1>10, <1>11, <1>12, <1>13, LoopStep, Zenon

-----------------------------------------------------------------------------
(* Taking and giving up the lock: the top frame, and nothing else of it,   *)
(* changes hands.                                                          *)
LEMMA SameCalls ==
  ASSUME IInv, completed' = completed,
         NEW g, frame' = [frame EXCEPT ![Len(frame)] = g],
         Len(frame) \in 1..Len(frame), g.item = frame[Len(frame)].item,
         \A c \in Clients :
           \/ pc'[c] = pc[c]
           \/ pc'[c] \notin {"runwakeup", "run"} /\ pc[c] \notin {"runwakeup", "run"}
  PROVE  \A c \in Clients : CallState'[c] = CallState[c]
<1>1. /\ Len(frame') = Len(frame)
      /\ \A j \in 1..Len(frame) : frame'[j].item = frame[j].item
  BY DEF IInv, TypeOK
<1>2. ASSUME NEW c \in Clients
      PROVE  CallState'[c] = CallState[c]
  <2>1. Running(frame', c) = Running(frame, c)
    BY <1>1 DEF Running
  <2>2. CallOf(pc'[c], completed'[c], Running(frame', c))
          = CallOf(pc[c], completed[c], Running(frame, c))
    BY <2>1 DEF CallOf
  <2>3. /\ CallState[c] = CallOf(pc[c], completed[c], Running(frame, c))
        /\ CallState'[c] = CallOf(pc'[c], completed'[c], Running(frame', c))
    BY CallStates, Zenon
  <2>. QED BY <2>2, <2>3
<1>. QED BY <1>2

(* The idling top frame has no owner; the client that locks it is.         *)
LEMMA GrantServes ==
  ASSUME IInv, IInv', NEW c \in Clients, Grant(c),
         pc[c] \in {"user", "grab", "kicked", "trap"}, completed' = completed
  PROVE  CA!Serve(c)
<1>. DEFINE n == Len(frame)
            g == [frame[n] EXCEPT !.locked = TRUE, !.locked_thread = c]
<1>1. /\ c \in Threads /\ n \in Nat /\ n # 0 /\ n \in 1..n /\ frame[n] \in Frames
      /\ ~frame[n].locked /\ frame[n].item = NoItem
  BY DEF IInv, TypeOK, Idle, Grant, Threads
<1>2. /\ g \in Frames /\ g.item = frame[n].item /\ g.locked /\ g.locked_thread = c
      /\ frame' = [frame EXCEPT ![n] = g]
  BY <1>1 DEF Grant, Frames
<1>. HIDE DEF g
<1>4. Len(frame') = n /\ frame'[n] = g
  BY <1>1, <1>2 DEF IInv, TypeOK
<1>5. Owner = NoThread
  <2>1. Ownerless(frame)
    BY <1>1 DEF Ownerless, OnTop
  <2>. QED BY <2>1, OwnerTop
<1>6. Owner' = c
  <2>1. OnTop(frame', c)
    BY <1>1, <1>2, <1>4 DEF OnTop
  <2>. QED BY <1>1, <2>1, OwnerNext
<1>7. \A d \in Clients : CallState'[d] = CallState[d]
  <2>1. \A d \in Clients :
          \/ pc'[d] = pc[d]
          \/ pc'[d] \notin {"runwakeup", "run"} /\ pc[d] \notin {"runwakeup", "run"}
    BY DEF Grant, Goto, IInv, TypeOK, Threads
  <2>. QED BY <1>1, <1>2, <2>1, SameCalls
<1>. QED BY <1>1, <1>5, <1>6, <1>7, HandOver

(* mp_dispatch_unlock() gives up the state.                                *)
LEMMA UnlockServes ==
  ASSUME IInv, IInv', NEW t \in Threads, Unlock(t)
  PROVE  CA!Serve(t)
<1>. DEFINE n == Len(frame)
            g == [frame[n] EXCEPT !.locked = FALSE]
<1>1. Owns(t) /\ HasLock(t) /\ n \in Nat
  BY DEF Unlock, Owns, IInv, TypeOK
<1>2. n # 0 /\ held[t] = n
  BY <1>1, OwnerOnTop
<1>3. n \in 1..n /\ frame[n] \in Frames /\ frame[n].item = NoItem
  BY <1>1, <1>2 DEF IInv, TypeOK, Stack
<1>4. /\ g \in Frames /\ g.item = frame[n].item /\ ~g.locked
      /\ frame' = [frame EXCEPT ![n] = g]
  BY <1>3 DEF Unlock, Frames
<1>. HIDE DEF g
<1>6. Len(frame') = n /\ frame'[n] = g
  BY <1>3, <1>4 DEF IInv, TypeOK
<1>7. Owner = t
  BY <1>1, OwnsTop, OwnerTop
<1>8. Owner' = NoThread
  <2>1. Ownerless(frame')
    BY <1>2, <1>3, <1>4, <1>6 DEF Ownerless, OnTop
  <2>. QED BY <2>1, OwnerNext
<1>9. \A d \in Clients : CallState'[d] = CallState[d]
  <2>1. pc' = pc /\ completed' = completed
    BY DEF Unlock
  <2>. QED BY <1>3, <1>4, <2>1, SameCalls
<1>. QED BY <1>7, <1>8, <1>9, HandOver

(* The end of a wait's time is nothing the users see.                      *)
LEMMA TimeoutStutters ==
  ASSUME IInv, IInv', NEW t \in Threads, Timeout(t)
  PROVE  UNCHANGED CA!absVars
<1>1. PICK k \in Innermost(t) : frame' = [frame EXCEPT ![k].wait = FALSE]
  BY DEF Timeout
<1>. DEFINE g == [frame[k] EXCEPT !.wait = FALSE]
<1>2. frame \in Seq(Frames) /\ k \in 1..Len(frame) /\ frame[k] \in Frames
  BY DEF IInv, TypeOK, Innermost, Stack
<1>3. /\ g.thread = frame[k].thread /\ g.locked = frame[k].locked
      /\ g.locked_thread = frame[k].locked_thread /\ g.item = frame[k].item
      /\ frame' = [frame EXCEPT ![k] = g]
  BY <1>1, <1>2 DEF Frames
<1>. HIDE DEF g
<1>4. /\ Len(frame') = Len(frame)
      /\ \A j \in 1..Len(frame) : /\ frame'[j].thread = frame[j].thread
                                  /\ frame'[j].locked = frame[j].locked
                                  /\ frame'[j].locked_thread = frame[j].locked_thread
                                  /\ frame'[j].item = frame[j].item
  BY <1>2, <1>3
<1>5. \A u \in Threads : OnTop(frame', u) <=> OnTop(frame, u)
  BY <1>2, <1>4 DEF OnTop
<1>6. ASSUME NEW c \in Clients
      PROVE  CallOf(pc'[c], completed'[c], Running(frame', c))
               = CallOf(pc[c], completed[c], Running(frame, c))
  <2>1. Running(frame', c) = Running(frame, c)
    BY <1>4 DEF Running
  <2>2. pc' = pc /\ completed' = completed
    BY DEF Timeout
  <2>. QED BY <2>1, <2>2
<1>. HIDE DEF IInv
<1>. QED BY <1>5, <1>6, Stutter

(* mp_dispatch_run() queues its call; it returns when the call is done.    *)
LEMMA RunSubmits ==
  ASSUME IInv, IInv', RefInv, NEW c \in Clients, Run(c)
  PROVE  CA!Submit(c)
<1>1. /\ pc[c] = "user" /\ frame' = frame
      /\ completed' = [completed EXCEPT ![c] = FALSE]
  BY DEF Run, AppendItem
<1>2. PICK l \in {"runwakeup", "run"} : pc' = [pc EXCEPT ![c] = l]
  BY DEF Run, AppendItem, Goto
<1>3. /\ c \in Threads /\ Clients \subseteq Threads /\ pc \in [Threads -> PCs]
      /\ completed \in [Clients -> BOOLEAN]
  BY DEF Threads, IInv, TypeOK
<1>4. CallState[c] = "none" /\ CallState'[c] = "queued"
  <2>1. Running(frame, c) = {}
    BY <1>1 DEF RefInv, Single, Pending
  <2>2. /\ CallState[c] = CallOf(pc[c], completed[c], Running(frame, c))
        /\ CallState'[c] = CallOf(pc'[c], completed'[c], Running(frame', c))
    BY CallStates, Zenon
  <2>. QED BY <1>1, <1>2, <1>3, <2>1, <2>2 DEF CallOf
<1>5. ASSUME NEW d \in Clients, d # c
      PROVE  CallState'[d] = CallState[d]
  <2>1. /\ CallState[d] = CallOf(pc[d], completed[d], Running(frame, d))
        /\ CallState'[d] = CallOf(pc'[d], completed'[d], Running(frame', d))
    BY CallStates, Zenon
  <2>. QED BY <1>1, <1>2, <1>3, <1>5, <2>1
<1>6. CallState' = [CallState EXCEPT ![c] = "queued"]
  <2>1. /\ CallState = [d \in Clients |-> CallState[d]]
        /\ CallState' = [d \in Clients |-> CallState'[d]]
    BY CallStates, Zenon
  <2>. QED BY <1>4, <1>5, <2>1
<1>7. Owner' = Owner
  BY <1>1, OwnerKept
<1>. QED BY <1>4, <1>6, <1>7 DEF CA!Submit

(* mp_dispatch_run() returns only when it was served.                      *)
LEMMA RunReturns ==
  ASSUME IInv, IInv', NEW c \in Clients, RunWait(c), completed[c]
  PROVE  CA!Return(c)
<1>1. /\ pc[c] = "run" /\ pc' = [pc EXCEPT ![c] = "user"]
      /\ frame' = frame /\ completed' = completed
  BY DEF RunWait, Goto
<1>2. c \in Threads /\ Clients \subseteq Threads /\ pc \in [Threads -> PCs]
  BY DEF Threads, IInv, TypeOK
<1>3. CallState[c] = "done" /\ CallState'[c] = "none"
  <2>1. /\ CallState[c] = CallOf(pc[c], completed[c], Running(frame, c))
        /\ CallState'[c] = CallOf(pc'[c], completed'[c], Running(frame', c))
    BY CallStates, Zenon
  <2>. QED BY <1>1, <1>2, <2>1 DEF CallOf
<1>4. ASSUME NEW d \in Clients, d # c
      PROVE  CallState'[d] = CallState[d]
  <2>1. /\ CallState[d] = CallOf(pc[d], completed[d], Running(frame, d))
        /\ CallState'[d] = CallOf(pc'[d], completed'[d], Running(frame', d))
    BY CallStates, Zenon
  <2>. QED BY <1>1, <1>2, <1>4, <2>1
<1>5. CallState' = [CallState EXCEPT ![c] = "none"]
  <2>1. /\ CallState = [d \in Clients |-> CallState[d]]
        /\ CallState' = [d \in Clients |-> CallState'[d]]
    BY CallStates, Zenon
  <2>. QED BY <1>3, <1>4, <2>1
<1>6. Owner' = Owner
  BY <1>1, OwnerKept
<1>. QED BY <1>3, <1>5, <1>6 DEF CA!Return

-----------------------------------------------------------------------------
(* At first nobody calls, and the target owns its state.                   *)
LEMMA InitRefines == Init => CA!Init
<1>. SUFFICES ASSUME Init PROVE CA!Init
  OBVIOUS
<1>1. Owner = Target /\ Target \in Threads
  <2>1. Target \in Threads /\ OnTop(frame, Target)
    BY DEF Threads, OnTop, Init
  <2>. QED BY <2>1, InitInv, OwnerTop
<1>2. CallState = [c \in Clients |-> "none"]
  <2>1. \A c \in Clients : CallOf(pc[c], completed[c], Running(frame, c)) = "none"
    BY DEF Init, Threads, CallOf
  <2>. QED BY <2>1, CallStates
<1>. QED BY <1>1, <1>2 DEF CA!Init

(* Every step is a step of CoreAccess or leaves its variables alone.       *)
LEMMA StepRefines ==
  IInv /\ IInv' /\ RefInv /\ [Next]_vars => [CA!Next]_(CA!absVars)
<1>. SUFFICES ASSUME IInv, IInv', RefInv, [Next]_vars
              PROVE  CA!Next \/ UNCHANGED CA!absVars
  OBVIOUS
<1>b. /\ Target \in Threads /\ Target \notin Clients /\ Clients \subseteq Threads
      /\ pc \in [Threads -> PCs]
  BY DispatchAssumption DEF Threads, IInv, TypeOK
<1>1. ASSUME NEW t \in Threads, NEW w \in BOOLEAN, Process(t, w)
      PROVE  CA!Next
  BY <1>1, ProcessServes DEF CA!Next
<1>2. ASSUME NEW t \in Threads, Resume(t)
      PROVE  CA!Next \/ UNCHANGED CA!absVars
  BY <1>2, ResumeServes DEF CA!Next
<1>3. ASSUME NEW t \in Threads, ItemDone(t) \/ Unlock(t)
      PROVE  CA!Next
  BY <1>3, ItemDoneServes, UnlockServes DEF CA!Next
<1>4. ASSUME NEW t \in Threads, Timeout(t)
      PROVE  UNCHANGED CA!absVars
  BY <1>4, TimeoutStutters
<1>5. ASSUME NEW t \in Threads, NEW f \in Fns,
             Enqueue(t, f) \/ EnqueueNotify(t, f)
      PROVE  UNCHANGED CA!absVars
  <2>1. /\ frame' = frame /\ completed' = completed /\ pc[t] = "user"
    BY <1>5 DEF Enqueue, EnqueueNotify, AppendItem
  <2>2. PICK l \in {"user", "wakeup"} : pc' = [pc EXCEPT ![t] = l]
    BY <1>5 DEF Enqueue, EnqueueNotify, AppendItem, Goto
  <2>3. pc[t] \notin {"runwakeup", "run"} /\ l \notin {"runwakeup", "run"}
    BY <2>1
  <2>. QED BY <2>1, <2>2, <2>3, StutterMove
<1>6. ASSUME NEW t \in Threads, NEW f \in Fns, CancelFn(t, f)
      PROVE  UNCHANGED CA!absVars
  <2>1. frame' = frame /\ completed' = completed /\ pc' = pc
    BY <1>6 DEF CancelFn
  <2>. QED BY <2>1, StutterCalls
<1>7. ASSUME NEW t \in Threads, Interrupt(t) \/ SpuriousWakeup(t)
      PROVE  UNCHANGED CA!absVars
  <2>1. frame' = frame /\ completed' = completed /\ pc' = pc
    BY <1>7 DEF Interrupt, SpuriousWakeup
  <2>. QED BY <2>1, StutterCalls
<1>8. ASSUME NEW t \in Threads, WakeupFn(t)
      PROVE  UNCHANGED CA!absVars
  <2>1. frame' = frame /\ completed' = completed
    BY <1>8 DEF WakeupFn
  <2>2. ASSUME NEW c \in Clients
        PROVE  \/ pc'[c] = pc[c]
               \/ pc'[c] \in {"runwakeup", "run"} /\ pc[c] \in {"runwakeup", "run"}
               \/ pc'[c] \notin {"runwakeup", "run"} /\ pc[c] \notin {"runwakeup", "run"}
    <3>1. \/ pc[t] = "wakeup" /\ pc' = [pc EXCEPT ![t] = "user"]
          \/ pc[t] = "runwakeup" /\ pc' = [pc EXCEPT ![t] = "run"]
          \/ pc[t] = "kick" /\ pc' = [pc EXCEPT ![t] = "kicked"]
      BY <1>8 DEF WakeupFn, Goto
    <3>2. c \in Threads /\ (c # t => pc'[c] = pc[c])
      BY <1>b, <3>1
    <3>. QED BY <1>b, <3>1, <3>2
  <2>. QED BY <2>1, <2>2, StutterCalls
<1>9. ASSUME NEW c \in Clients, Run(c)
      PROVE  CA!Next
  BY <1>9, RunSubmits DEF CA!Next
<1>10. ASSUME NEW c \in Clients, RunWait(c)
       PROVE  CA!Next \/ UNCHANGED CA!absVars
  <2>1. CASE completed[c]
    BY <1>10, <2>1, RunReturns DEF CA!Next
  <2>2. CASE ~completed[c]
    <3>1. frame' = frame /\ completed' = completed /\ pc' = pc
      BY <1>10, <2>2 DEF RunWait
    <3>. QED BY <3>1, StutterCalls
  <2>. QED BY <2>1, <2>2
<1>11. ASSUME NEW c \in Clients, Lock(c) \/ LockWait(c)
       PROVE  CA!Next \/ UNCHANGED CA!absVars
  <2>1. /\ completed' = completed /\ c \in Threads
        /\ pc[c] \in {"user", "grab", "kicked", "trap"}
    BY <1>11, <1>b DEF Lock, LockWait
  <2>2. CASE Grant(c)
    BY <2>1, <2>2, GrantServes DEF CA!Next
  <2>3. CASE ~Grant(c)
    <3>1. frame' = frame
      BY <1>11, <2>3 DEF Lock, LockWait
    <3>2. PICK l \in {"grab", "kick", "trap"} : pc' = [pc EXCEPT ![c] = l]
      BY <1>11, <2>3 DEF Lock, LockWait, Goto
    <3>3. pc[c] \notin {"runwakeup", "run"} /\ l \notin {"runwakeup", "run"}
      BY <2>1
    <3>. QED BY <2>1, <3>1, <3>2, <3>3, StutterMove
  <2>. QED BY <2>2, <2>3
<1>12. ASSUME Sleep \/ SleepTimeout
       PROVE  UNCHANGED CA!absVars
  <2>1. frame' = frame /\ completed' = completed
    BY <1>12 DEF Sleep, SleepTimeout
  <2>2. \A c \in Clients : pc'[c] = pc[c]
    BY <1>12, <1>b DEF Sleep, SleepTimeout, Goto
  <2>. QED BY <2>1, <2>2, StutterCalls
<1>13. CASE UNCHANGED vars
  <2>1. frame' = frame /\ completed' = completed /\ pc' = pc
    BY <1>13 DEF vars
  <2>. QED BY <2>1, StutterCalls
<1>. QED BY <1>1, <1>2, <1>3, <1>4, <1>5, <1>6, <1>7, <1>8, <1>9, <1>10,
            <1>11, <1>12, <1>13 DEF Next

(* Dispatch implements CoreAccess: the target's state has one owner at a   *)
(* time and passes from one to the next through nobody, and each call of   *)
(* mp_dispatch_run() is served once, by an owner, before it returns.       *)
THEOREM ServesItsUsers == Spec => ImplementsCoreAccess
<1>1. Spec => [](IInv /\ RefInv)
  <2>1. Init => IInv /\ RefInv
    BY InitInv, InitRefs
  <2>. QED BY <2>1, StepInv, StepRefs, PTL DEF Spec
<1>2. Spec => CA!Spec
  BY <1>1, InitRefines, StepRefines, PTL DEF Spec, CA!Spec
<1>. QED BY <1>2 DEF ImplementsCoreAccess

-----------------------------------------------------------------------------
(* No thread is left waiting after what it waits for has come true         *)
(* (NoLostWakeup).                                                         *)
(*                                                                         *)
(* Most of queue->cond's waiters are woken by broadcasts.  The difficulty  *)
(* is in those that are not woken: a target that waited for work when its  *)
(* frame was locked is not on top while the lock's holder makes nested     *)
(* calls, and must not have missed anything when it is on top again.       *)

(* The two parts about the condition variable, and who waits on it ...     *)
TopServed ==
  \A t \in Threads : TopWaits(t) =>
    /\ pc[t] = "timedwait" => items = <<>> /\ ~interrupted
    /\ pc[t] = "blocked" => lock_request \/ frame[Len(frame)].locked

Waiting ==
  \A t \in cond : pc[t] \in {"blocked", "timedwait", "grab", "trap", "run"}

ClientsServed ==
  \A c \in Clients : c \in cond =>
    /\ pc[c] = "trap" => ~idling
    /\ pc[c] = "run" => ~completed[c]

(* ... and the one about wakeup_fn(), which has to hold before the target  *)
(* goes to sleep.                                                          *)
Wakers == {t \in Threads : pc[t] \in {"wakeup", "runwakeup", "kick"}}
WakeKept ==
  /\ pc[Target] = "sleep" => HasWakeupFn
  /\ HasWakeupFn /\ calls[Target] = {} /\ (items # <<>> \/ lock_request) =>
       awake \/ Wakers # {}

WInv == TopServed /\ Waiting /\ ClientsServed /\ WakeKept

-----------------------------------------------------------------------------
(* The loop, for its three callers.  A return may uncover a frame whose    *)
(* thread waits: there is no work then, and the frame is locked.           *)
LEMMA LoopTop ==
  ASSUME IInv, TopServed, NEW t \in Threads,
         NEW k, NEW fr, NEW cl, NEW idl, NEW cnd,
         AtLoop(t, k, fr, cl, idl, cnd),
         k = Len(fr) \/ (fr = frame /\ cl = calls /\ cnd = cond),
         Loop(t, k, fr, cl, idl, cnd),
         lock_request' = lock_request
  PROVE  TopServed'
<1>1. /\ fr \in Seq(Frames) /\ cl \in [Threads -> SUBSET (Nat \ {0})]
      /\ Stack(fr, cl) /\ k \in cl[t] /\ (\A j \in cl[t] : j <= k)
      /\ \A u \in Threads \ {t} : Place(fr, cl, u, pc[u])
  BY DEF AtLoop
<1>2. k \in 1..Len(fr) /\ fr[k].thread = t /\ Len(fr) \in Nat
  BY <1>1 DEF Stack
<1>3. \A u \in Threads \ {t} : k \notin cl[u]
  BY <1>1, <1>2 DEF Stack
<1>4. pc \in [Threads -> PCs]
  BY DEF IInv, TypeOK
<1>. SUFFICES ASSUME NEW u \in Threads, TopWaits(u)'
              PROVE  /\ pc'[u] = "timedwait" => items' = <<>> /\ ~interrupted'
                     /\ pc'[u] = "blocked" => lock_request' \/ frame'[Len(frame')].locked
  BY DEF TopServed
<1>5. u \in cond' /\ Len(frame') \in calls'[u] /\ \A j \in calls'[u] : j <= Len(frame')
  BY DEF TopWaits, Innermost
<1>6. CASE Block(t, k, fr, cl, idl, cnd)
  <2>1. /\ frame' = fr /\ calls' = cl /\ cond' = cnd \cup {t}
        /\ pc' = [pc EXCEPT ![t] = "blocked"]
        /\ UNCHANGED <<items, interrupted>>
        /\ lock_request \/ Len(fr) # k \/ fr[k].locked
    BY <1>6 DEF Block, Goto, IsBlocked
  <2>2. CASE u = t
    BY <1>1, <1>2, <1>4, <1>5, <2>1, <2>2
  <2>3. CASE u # t
    <3>1. Len(fr) # k
      BY <1>3, <1>5, <2>1, <2>3
    <3>2. fr = frame /\ cl = calls /\ cnd = cond
      BY <3>1
    <3>3. TopWaits(u) /\ pc'[u] = pc[u]
      BY <1>4, <1>5, <2>1, <2>3, <3>2 DEF TopWaits, Innermost
    <3>. QED BY <2>1, <3>2, <3>3 DEF TopServed
  <2>. QED BY <2>2, <2>3
<1>7. CASE TimedWait(t, k, fr, cl, idl, cnd)
  <2>1. /\ frame' = fr /\ calls' = cl /\ pc' = [pc EXCEPT ![t] = "timedwait"]
        /\ UNCHANGED <<items, interrupted>> /\ items = <<>> /\ ~interrupted
        /\ Len(fr) = k
    BY <1>7 DEF TimedWait, Goto, IsBlocked
  <2>2. u = t
    BY <1>3, <1>5, <2>1
  <2>. QED BY <1>4, <2>1, <2>2
<1>8. CASE TakeItem(t, k, fr, cl, idl, cnd)
  <2>1. /\ frame' = [fr EXCEPT ![k].item = Head(items)] /\ calls' = cl
        /\ pc' = [pc EXCEPT ![t] = "user"] /\ Len(fr) = k
    BY <1>8 DEF TakeItem, Goto, IsBlocked
  <2>2. Len(frame') = k
    BY <1>1, <2>1
  <2>3. u = t
    BY <1>3, <1>5, <2>1, <2>2
  <2>. QED BY <1>4, <2>1, <2>3
<1>9. CASE Return(t, k, fr, cl, idl, cnd)
  <2>1. /\ frame' = SubSeq(fr, 1, k - 1) /\ calls' = [cl EXCEPT ![t] = @ \ {k}]
        /\ pc' = [pc EXCEPT ![t] = "user"] /\ interrupted' = FALSE
        /\ items' = <<>> /\ Len(fr) = k /\ ~fr[k].locked
    BY <1>9 DEF Return, Goto, IsBlocked
  <2>2. CASE u = t
    BY <1>4, <2>1, <2>2
  <2>3. CASE u # t
    <3>1. Len(frame') = k - 1 /\ \A j \in 1..(k - 1) : frame'[j] = fr[j]
      <4>1. \A j \in 1..(k - 1) : fr[j] \in Frames
        BY <1>1, <1>2
      <4>. QED BY <1>2, <2>1, <4>1, SubSeqProperties
    <3>2. calls'[u] = cl[u] /\ pc'[u] = pc[u]
      BY <1>1, <1>4, <2>1, <2>3
    <3>3. k - 1 \in cl[u] /\ \A j \in cl[u] : j <= k - 1
      BY <1>5, <3>1, <3>2
    <3>4. k - 1 \in 1..(Len(fr) - 1) /\ k - 1 \in 1..(k - 1)
      BY <1>1, <1>2, <2>1, <3>3 DEF Stack
    <3>5. fr[k - 1].item = NoItem => fr[k - 1].locked
      BY <1>1, <3>4 DEF Stack
    <3>6. pc[u] = "blocked" => fr[k - 1].item = NoItem
      BY <1>1, <2>3, <3>3 DEF Place
    <3>. QED BY <2>1, <3>1, <3>2, <3>4, <3>5, <3>6
  <2>. QED BY <2>2, <2>3
<1>. QED BY <1>6, <1>7, <1>8, <1>9 DEF Loop

(* The body of the loop leaves nobody waiting for what is there, wherever  *)
(* it is entered.                                                          *)
LEMMA LoopServes ==
  ASSUME IInv, Waiting, ClientsServed, WakeKept, NEW t \in Threads,
         NEW k, NEW fr, NEW cl, NEW idl, NEW cnd,
         AtLoop(t, k, fr, cl, idl, cnd),
         pc[t] \in {"user", "sleep", "blocked", "timedwait"},
         cnd \subseteq cond \ {t},
         cnd # {} => idl = idling \/ ~lock_request,
         \A c \in Clients : pc[c] = "run" /\ c \in cnd => completed'[c] = completed[c],
         Loop(t, k, fr, cl, idl, cnd),
         lock_request' = lock_request,
         pc[t] # "sleep" => awake' = awake
  PROVE  Waiting' /\ ClientsServed' /\ WakeKept'
<1>1. /\ fr \in Seq(Frames) /\ cl \in [Threads -> SUBSET (Nat \ {0})]
      /\ Stack(fr, cl) /\ k \in cl[t] /\ t \notin Requests
  BY DEF AtLoop
<1>2. /\ pc \in [Threads -> PCs] /\ Clients \subseteq Threads /\ Target \in Threads
      /\ \A c \in Clients : pc[c] = "trap" => lock_request
  BY DEF IInv, TypeOK, Threads, Request, Requests
<1>3. PICK l \in {"blocked", "timedwait", "user"} : pc' = [pc EXCEPT ![t] = l]
  BY DEF Loop, Block, TakeItem, TimedWait, Return, Goto
<1>4. /\ cond' \subseteq cnd \cup {t} /\ idling' \in {idl, FALSE}
  BY DEF Loop, Block, TakeItem, TimedWait, Return
<1>5. ClientsServed'
  <2>. SUFFICES ASSUME NEW c \in Clients, c \in cond'
                PROVE  /\ pc'[c] = "trap" => ~idling'
                       /\ pc'[c] = "run" => ~completed'[c]
    BY DEF ClientsServed
  <2>1. CASE c = t
    BY <1>2, <1>3, <2>1
  <2>2. CASE c # t
    <3>1. c \in cnd /\ c \in cond /\ pc'[c] = pc[c]
      BY <1>2, <1>3, <1>4, <2>2
    <3>2. ASSUME pc[c] = "trap" PROVE ~idling'
      <4>1. lock_request /\ ~idling
        BY <1>2, <3>1, <3>2 DEF ClientsServed
      <4>2. idl = idling
        BY <3>1, <4>1
      <4>. QED BY <1>4, <4>1, <4>2
    <3>. QED BY <3>1, <3>2 DEF ClientsServed
  <2>. QED BY <2>1, <2>2
<1>6. WakeKept'
  <2>1. pc'[Target] = "sleep" => HasWakeupFn
    BY <1>2, <1>3 DEF WakeKept
  <2>2. cl[Target] # {}
    <3>1. 1 \in 1..Len(fr) /\ fr[1].thread = Target
      BY <1>1 DEF Stack
    <3>. QED BY <1>1, <1>2, <3>1 DEF Stack
  <2>3. CASE Return(t, k, fr, cl, idl, cnd)
    <3>1. items' = <<>> /\ ~lock_request
      BY <2>3 DEF Return, IsBlocked
    <3>. QED BY <2>1, <3>1 DEF WakeKept
  <2>4. CASE ~Return(t, k, fr, cl, idl, cnd)
    <3>1. calls' = cl
      BY <2>4 DEF Loop, Block, TakeItem, TimedWait
    <3>. QED BY <2>1, <2>2, <3>1 DEF WakeKept
  <2>. QED BY <2>3, <2>4
<1>7. Waiting'
  <2>1. l = "user" => cond' = cnd
    BY <1>2, <1>3 DEF Loop, Block, TakeItem, TimedWait, Return, Goto
  <2>. QED BY <1>2, <1>3, <1>4, <2>1 DEF Waiting
<1>. QED BY <1>5, <1>6, <1>7

(* mp_dispatch_queue_process() enters the loop.                            *)
LEMMA ProcessWakes ==
  ASSUME IInv, WInv, NEW t \in Threads, NEW w \in BOOLEAN, Process(t, w)
  PROVE  WInv'
<1> DEFINE k == Len(frame) + 1
           fr == Append(frame, NewFrame(t, w))
           cl == [calls EXCEPT ![t] = @ \cup {k}]
           cnd == IF lock_request THEN {} ELSE cond
<1>1. AtLoop(t, k, fr, cl, TRUE, cnd) /\ k = Len(fr)
  BY ProcessLoop
<1>2. /\ Loop(t, k, fr, cl, TRUE, cnd)
      /\ UNCHANGED <<lock_request, completed>>
      /\ awake' = (awake /\ pc[t] # "sleep")
      /\ pc[t] \in {"user", "sleep"}
  BY DEF Process, Accesses
<1>3. /\ cnd \subseteq cond \ {t} /\ (cnd # {} => ~lock_request)
      /\ pc[t] # "sleep" => awake' = awake
  BY <1>2 DEF IInv, TypeOK, WInv, Waiting
<1> HIDE DEF k, fr, cl, cnd
<1>4. TopServed'
  BY <1>1, <1>2, LoopTop DEF WInv
<1>5. Waiting' /\ ClientsServed' /\ WakeKept'
  BY <1>1, <1>2, <1>3, LoopServes DEF WInv
<1> QED BY <1>4, <1>5 DEF WInv

(* mp_dispatch_queue_process() goes on after a wait.                       *)
LEMMA ResumeWakes ==
  ASSUME IInv, WInv, NEW t \in Threads, Resume(t)
  PROVE  WInv'
<1>1. PICK k \in Innermost(t) : Loop(t, k, frame, calls, idling, cond)
  BY DEF Resume
<1>2. AtLoop(t, k, frame, calls, idling, cond)
  BY ResumeLoop
<1>3. /\ UNCHANGED <<lock_request, completed, awake>>
      /\ pc[t] \in {"blocked", "timedwait"} /\ cond \subseteq cond \ {t}
  BY DEF Resume
<1>4. TopServed'
  BY <1>1, <1>2, <1>3, LoopTop DEF WInv
<1>5. Waiting' /\ ClientsServed' /\ WakeKept'
  BY <1>1, <1>2, <1>3, LoopServes DEF WInv
<1> QED BY <1>4, <1>5 DEF WInv

(* mp_dispatch_queue_process() goes on after a callback.                   *)
LEMMA ItemDoneWakes ==
  ASSUME IInv, WInv, NEW t \in Threads, ItemDone(t)
  PROVE  WInv'
<1>1. PICK k \in calls[t] :
        /\ InItem(t, k)
        /\ Loop(t, k, [frame EXCEPT ![k].item = NoItem], calls, TRUE, {})
  BY DEF ItemDone
<1> DEFINE fr == [frame EXCEPT ![k].item = NoItem]
           none == {}
<1>2. AtLoop(t, k, fr, calls, TRUE, none) /\ k = Len(fr)
  BY <1>1, ItemDoneLoop DEF ItemDone
<1>3. /\ UNCHANGED <<lock_request, awake>> /\ pc[t] = "user"
      /\ Loop(t, k, fr, calls, TRUE, none)
      /\ none \subseteq cond \ {t} /\ none = {} /\ \A c \in Clients : c \notin none
  BY <1>1 DEF ItemDone
<1> HIDE DEF fr, none
<1>4. TopServed'
  BY <1>1, <1>2, <1>3, LoopTop DEF WInv
<1>5. Waiting' /\ ClientsServed' /\ WakeKept'
  BY <1>2, <1>3, LoopServes DEF WInv
<1> QED BY <1>4, <1>5 DEF WInv

-----------------------------------------------------------------------------
(* The steps outside of the loop.  Those that change no frame and do not   *)
(* block anybody on it keep the first part.                                *)
LEMMA TopKept ==
  ASSUME IInv, TopServed,
         UNCHANGED <<frame, calls>>, cond' \subseteq cond \cup Clients,
         \A t \in cond' : pc'[t] \in {"blocked", "timedwait"} =>
           t \in cond /\ pc'[t] = pc[t],
         cond' # {} => /\ items = <<>> => items' = <<>>
                       /\ interrupted' = interrupted
                       /\ lock_request => lock_request'
  PROVE  TopServed'
<1>. SUFFICES ASSUME NEW t \in Threads, TopWaits(t)', pc'[t] \in {"blocked", "timedwait"}
              PROVE  /\ pc'[t] = "timedwait" => items' = <<>> /\ ~interrupted'
                     /\ pc'[t] = "blocked" => lock_request' \/ frame'[Len(frame')].locked
  BY DEF TopServed
<1>1. t \in cond' /\ cond' # {}
  BY DEF TopWaits
<1>2. TopWaits(t) /\ pc'[t] = pc[t]
  BY <1>1 DEF TopWaits, Innermost
<1>. QED BY <1>1, <1>2 DEF TopServed

(* An item is queued and a wakeup for it is made, or about to be made.     *)
LEMMA AppendWakes ==
  ASSUME IInv, WInv, NEW t \in Threads, NEW it \in Items, pc[t] = "user",
         NEW kick \in {"wakeup", "runwakeup"}, NEW done \in {"user", "run"},
         AppendItem(t, it, kick, done),
         done = "run" => ~it.mergeable,
         it.mergeable => completed' = completed
  PROVE  WInv'
<1>1. /\ UNCHANGED <<idling, lock_request, frame, calls, held, awake>>
      /\ pc \in [Threads -> PCs] /\ items \in Seq(Items) /\ Target \in Threads
      /\ Clients \subseteq Threads
  BY DispatchAssumption DEF AppendItem, IInv, TypeOK, Threads
<1>2. CASE Mergeable(it)
  <2>1. /\ pc' = [pc EXCEPT ![t] = "user"] /\ UNCHANGED <<items, interrupted, cond>>
        /\ completed' = completed
    BY <1>2 DEF AppendItem, Goto, Mergeable
  <2>2. pc' = pc
    BY <1>1, <2>1
  <2>. QED BY <1>1, <2>1, <2>2
           DEF WInv, TopServed, TopWaits, Innermost, Waiting, ClientsServed, WakeKept,
               Wakers
<1>3. CASE ~Mergeable(it)
  <2>1. /\ pc' = [pc EXCEPT ![t] = IF HasWakeupFn THEN kick ELSE done]
        /\ cond' = {}
    BY <1>3 DEF AppendItem, Goto
  <2>2. TopServed' /\ Waiting' /\ ClientsServed'
    BY <2>1 DEF TopServed, TopWaits, Waiting, ClientsServed
  <2>3. pc'[Target] = "sleep" => pc[Target] = "sleep"
    BY <1>1, <2>1
  <2>4. HasWakeupFn => t \in Wakers'
    BY <1>1, <2>1 DEF Wakers
  <2>. QED BY <2>2, <2>3, <2>4 DEF WInv, WakeKept
<1>. QED BY <1>2, <1>3

(* Steps that move one thread, which does not wait, and leave the stack    *)
(* and the queue alone.                                                    *)
LEMMA MoveWakes ==
  ASSUME IInv, WInv, NEW t \in Threads, NEW l \in PCs \ {"blocked", "timedwait"},
         pc' = [pc EXCEPT ![t] = l],
         UNCHANGED <<items, interrupted, idling, frame, calls, completed>>,
         t \notin cond \/ pc' = pc,
         \/ cond' \subseteq cond
         \/ /\ cond' = cond \cup {t} /\ l \in {"grab", "trap", "run"}
            /\ l = "trap" => ~idling
            /\ l = "run" => ~completed[t],
         lock_request => lock_request',
         WakeKept'
  PROVE  WInv'
<1>1. pc \in [Threads -> PCs] /\ Clients \subseteq Threads
  BY DEF IInv, TypeOK, Threads
<1>2. \A u \in cond' : (u \in cond /\ pc'[u] = pc[u]) \/ (u = t /\ t \notin cond /\ pc'[t] = l)
  BY <1>1 DEF IInv, TypeOK
<1>3. TopServed'
  <2>. SUFFICES ASSUME NEW u \in Threads, TopWaits(u)', pc'[u] \in {"blocked", "timedwait"}
                PROVE  /\ pc'[u] = "timedwait" => items' = <<>> /\ ~interrupted'
                       /\ pc'[u] = "blocked" => lock_request' \/ frame'[Len(frame')].locked
    BY DEF TopServed
  <2>1. u \in cond /\ pc'[u] = pc[u]
    BY <1>2 DEF TopWaits
  <2>2. TopWaits(u)
    BY <2>1 DEF TopWaits, Innermost
  <2>. QED BY <2>1, <2>2 DEF WInv, TopServed
<1>4. Waiting'
  BY <1>2 DEF WInv, Waiting
<1>5. ClientsServed'
  BY <1>2 DEF WInv, ClientsServed
<1>. QED BY <1>3, <1>4, <1>5 DEF WInv

(* A lock is granted: nobody waits for idling or for the end of a lock.    *)
LEMMA GrantWakes ==
  ASSUME IInv, WInv, NEW c \in Clients, Grant(c), c \notin cond,
         pc[c] \in {"user", "grab", "kicked", "trap"},
         UNCHANGED <<items, interrupted, calls, completed, awake, cond>>
  PROVE  WInv'
<1>1. /\ pc \in [Threads -> PCs] /\ c \in Threads /\ Clients \subseteq Threads
      /\ Target # c /\ Target \in Threads
  BY DispatchAssumption DEF IInv, TypeOK, Threads
<1>2. /\ pc' = [pc EXCEPT ![c] = "user"] /\ ~idling' /\ ~lock_request'
  BY DEF Grant, Goto
<1>3. Len(frame') = Len(frame) /\ frame'[Len(frame')].locked
  <2>1. Len(frame) \in 1..Len(frame) /\ frame \in Seq(Frames)
    BY DEF Grant, IInv, Idle, TypeOK
  <2>2. frame[Len(frame)] \in Frames
    BY <2>1
  <2>. QED BY <2>1, <2>2 DEF Grant, Frames
<1>4. \A u \in cond' : u \in cond /\ pc'[u] = pc[u]
  BY <1>1, <1>2 DEF IInv, TypeOK
<1>5. TopServed'
  <2>. SUFFICES ASSUME NEW u \in Threads, TopWaits(u)'
                PROVE  pc'[u] = "timedwait" => items' = <<>> /\ ~interrupted'
    BY <1>3 DEF TopServed
  <2>1. TopWaits(u) /\ pc'[u] = pc[u]
    BY <1>3, <1>4 DEF TopWaits, Innermost
  <2>. QED BY <2>1 DEF WInv, TopServed
<1>6. Waiting' /\ ClientsServed'
  BY <1>2, <1>4 DEF WInv, Waiting, ClientsServed
<1>7. WakeKept'
  <2>1. Wakers' = Wakers
    BY <1>1, <1>2 DEF Wakers
  <2>. QED BY <1>1, <1>2, <2>1 DEF WInv, WakeKept
<1>. QED BY <1>5, <1>6, <1>7 DEF WInv

(* Steps that wake everybody.                                              *)
LEMMA BroadcastWakes ==
  ASSUME IInv, WInv, cond' = {},
         UNCHANGED <<pc, items, calls, lock_request, awake>>
  PROVE  WInv'
BY DEF WInv, TopServed, TopWaits, Waiting, ClientsServed, WakeKept, Wakers

(* Every step keeps what is known of sleepers: one lemma per action.       *)
LEMMA StepWakes == IInv /\ WInv /\ [Next]_vars => WInv'
<1> SUFFICES ASSUME IInv, WInv, [Next]_vars PROVE WInv'
  OBVIOUS
<1>b. /\ Target \in Threads /\ Clients \subseteq Threads /\ Target \notin Clients
      /\ pc \in [Threads -> PCs] /\ cond \subseteq Threads
  BY DispatchAssumption DEF Threads, IInv, TypeOK
<1>1. ASSUME NEW t \in Threads, NEW f \in Fns, Enqueue(t, f) \/ EnqueueNotify(t, f)
      PROVE  WInv'
  <2>1. /\ AsyncItem(f) \in Items /\ NotifyItem(f) \in Items
        /\ pc[t] = "user" /\ completed' = completed
    BY <1>1 DEF AsyncItem, NotifyItem, Items, Enqueue, EnqueueNotify
  <2> QED BY <1>1, <2>1, AppendWakes DEF Enqueue, EnqueueNotify
<1>2. ASSUME NEW c \in Clients, Run(c)
      PROVE  WInv'
  <2>1. RunItem(c) \in Items /\ ~RunItem(c).mergeable
    BY DEF RunItem, Items
  <2> QED BY <1>2, <1>b, <2>1, AppendWakes DEF Run
<1>3. ASSUME NEW t \in Threads, NEW f \in Fns, CancelFn(t, f)
      PROVE  WInv'
  <2>1. items = <<>> => items' = <<>>
    <3>. SUFFICES ASSUME items = <<>> PROVE items' = <<>>
      OBVIOUS
    <3>. DEFINE kept == {i \in 1..Len(items) : items[i].fn # f}
    <3>1. kept = {}
      OBVIOUS
    <3>2. Cardinality(kept) = 0
      BY <3>1, FS_EmptySet
    <3>3. PICK at \in [1..Cardinality(kept) -> kept] :
            items' = [i \in 1..Cardinality(kept) |-> items[at[i]]]
      BY <1>3 DEF CancelFn
    <3>. QED BY <3>2, <3>3
  <2>2. UNCHANGED <<interrupted, idling, lock_request, frame, cond, pc, calls,
                    completed, awake>>
    BY <1>3 DEF CancelFn
  <2>3. TopServed' /\ Waiting' /\ ClientsServed'
    BY <2>1, <2>2 DEF WInv, TopServed, TopWaits, Innermost, Waiting, ClientsServed
  <2>4. WakeKept'
    BY <2>1, <2>2 DEF WInv, WakeKept, Wakers
  <2> QED BY <2>3, <2>4 DEF WInv
<1>4. ASSUME NEW t \in Threads, Interrupt(t) \/ Unlock(t)
      PROVE  WInv'
  BY <1>4, BroadcastWakes DEF Interrupt, Unlock
<1>5. ASSUME NEW t \in Threads, SpuriousWakeup(t)
      PROVE  WInv'
  <2>1. /\ UNCHANGED <<items, interrupted, idling, lock_request, frame, pc, calls,
                       completed, awake>>
        /\ cond' = cond \ {t}
    BY <1>5 DEF SpuriousWakeup
  <2> QED BY <2>1 DEF WInv, TopServed, TopWaits, Innermost, Waiting, ClientsServed,
                      WakeKept, Wakers
<1>6. ASSUME NEW t \in Threads, Timeout(t)
      PROVE  WInv'
  <2>1. PICK k \in Innermost(t) : frame' = [frame EXCEPT ![k].wait = FALSE]
    BY <1>6 DEF Timeout
  <2>2. /\ UNCHANGED <<items, interrupted, idling, lock_request, pc, calls,
                       completed, awake>>
        /\ cond' = cond \ {t}
    BY <1>6 DEF Timeout
  <2>3. k \in 1..Len(frame) /\ frame[k] \in Frames /\ frame \in Seq(Frames)
    BY DEF IInv, TypeOK, Stack, Innermost
  <2>4. /\ Len(frame') = Len(frame)
        /\ \A j \in 1..Len(frame) : frame'[j].locked = frame[j].locked
    BY <2>1, <2>3 DEF Frames
  <2>5. TopServed'
    <3>. SUFFICES ASSUME NEW u \in Threads, TopWaits(u)'
                  PROVE  /\ pc'[u] = "timedwait" => items' = <<>> /\ ~interrupted'
                         /\ pc'[u] = "blocked" => lock_request' \/ frame'[Len(frame')].locked
      BY DEF TopServed
    <3>1. TopWaits(u)
      BY <2>2, <2>4 DEF TopWaits, Innermost
    <3>2. Len(frame) \in 1..Len(frame)
      BY <2>3
    <3>. QED BY <2>2, <2>4, <3>1, <3>2 DEF WInv, TopServed
  <2> QED BY <2>2, <2>5 DEF WInv, Waiting, ClientsServed, WakeKept, Wakers
<1>7. ASSUME NEW t \in Threads, WakeupFn(t)
      PROVE  WInv'
  <2>1. PICK l \in {"user", "run", "kicked"} : pc' = [pc EXCEPT ![t] = l]
    BY <1>7 DEF WakeupFn, Goto
  <2>2. /\ UNCHANGED <<items, interrupted, idling, lock_request, frame, cond, calls,
                       completed>>
        /\ pc[t] \in {"wakeup", "runwakeup", "kick"}
        /\ awake' = (awake \/ HasWakeupFn)
    BY <1>7 DEF WakeupFn
  <2>3. l \in PCs \ {"blocked", "timedwait"} /\ t \notin cond
    BY <2>1, <2>2 DEF PCs, WInv, Waiting
  <2>4. WakeKept'
    BY <1>b, <2>1, <2>2 DEF WInv, WakeKept
  <2> QED BY <2>1, <2>2, <2>3, <2>4, MoveWakes
<1>8. ASSUME NEW c \in Clients, RunWait(c)
      PROVE  WInv'
  <2>1. /\ UNCHANGED <<items, interrupted, idling, lock_request, frame, calls,
                       completed, awake>>
        /\ pc[c] = "run" /\ c \notin cond /\ c \in Threads
        /\ "user" \in PCs /\ "run" \in PCs
    BY <1>8, <1>b DEF RunWait, PCs
  <2>2. \/ pc' = [pc EXCEPT ![c] = "user"] /\ cond' = cond
        \/ pc' = [pc EXCEPT ![c] = "run"] /\ cond' = cond \cup {c} /\ ~completed[c]
    <3>1. CASE completed[c]
      BY <1>8, <3>1 DEF RunWait, Goto
    <3>2. CASE ~completed[c]
      <4>1. pc' = pc /\ cond' = cond \cup {c}
        BY <1>8, <3>2 DEF RunWait
      <4>2. pc' = [pc EXCEPT ![c] = "run"]
        BY <1>b, <2>1, <4>1
      <4> QED BY <3>2, <4>1, <4>2
    <3> QED BY <3>1, <3>2
  <2>3. WakeKept'
    <3>1. Wakers' = Wakers
      BY <1>b, <2>1, <2>2 DEF Wakers
    <3> QED BY <1>b, <2>1, <2>2, <3>1 DEF WInv, WakeKept
  <2> QED BY <2>1, <2>2, <2>3, MoveWakes
<1>9. ASSUME NEW c \in Clients, Lock(c)
      PROVE  WInv'
  <2>1. /\ UNCHANGED <<items, interrupted, calls, completed, awake>>
        /\ pc[c] \in {"user", "grab"} /\ c \notin cond /\ c \in Threads
        /\ "grab" \in PCs /\ "kick" \in PCs
    BY <1>9, <1>b DEF Lock, PCs, WInv, Waiting
  <2>2. CASE ~lock_request /\ Grant(c) /\ UNCHANGED cond
    BY <2>1, <2>2, GrantWakes
  <2>3. CASE lock_request /\ cond' = cond \cup {c} /\ Goto(c, "grab")
             /\ UNCHANGED <<idling, lock_request, frame, held>>
    <3>1. pc' = [pc EXCEPT ![c] = "grab"]
      BY <2>3 DEF Goto
    <3>2. Wakers' = Wakers
      BY <1>b, <2>1, <3>1 DEF Wakers
    <3>3. WakeKept'
      BY <1>b, <2>1, <2>3, <3>1, <3>2 DEF WInv, WakeKept
    <3> QED BY <2>1, <2>3, <3>1, <3>3, MoveWakes
  <2>4. CASE ~lock_request /\ ~idling /\ lock_request' = TRUE /\ Goto(c, "kick")
             /\ UNCHANGED <<idling, frame, cond, held>>
    <3>1. pc' = [pc EXCEPT ![c] = "kick"]
      BY <2>4 DEF Goto
    <3>2. c \in Wakers'
      BY <1>b, <2>1, <3>1 DEF Wakers
    <3>3. WakeKept'
      BY <1>b, <2>1, <2>4, <3>1, <3>2 DEF WInv, WakeKept
    <3> QED BY <2>1, <2>4, <3>1, <3>3, MoveWakes
  <2> QED BY <1>9, <2>2, <2>3, <2>4 DEF Lock
<1>10. ASSUME NEW c \in Clients, LockWait(c)
       PROVE  WInv'
  <2>1. /\ UNCHANGED <<items, interrupted, calls, completed, awake>>
        /\ pc[c] \in {"kicked", "trap"} /\ c \notin cond /\ c \in Threads
        /\ "trap" \in PCs /\ "kick" \in PCs
    BY <1>10, <1>b DEF LockWait, PCs, WInv, Waiting
  <2>2. CASE Grant(c) /\ UNCHANGED cond
    BY <2>1, <2>2, GrantWakes
  <2>3. ASSUME NEW l \in {"trap", "kick"}, Goto(c, l), ~idling,
               UNCHANGED <<idling, lock_request, frame, held>>,
               l = "kick" => cond' = cond, l = "trap" => cond' = cond \cup {c}
        PROVE  WInv'
    <3>1. pc' = [pc EXCEPT ![c] = l]
      BY <2>3 DEF Goto
    <3>2. Wakers \subseteq Wakers'
      BY <1>b, <2>1, <3>1 DEF Wakers
    <3>3. WakeKept'
      BY <1>b, <2>1, <2>3, <3>1, <3>2 DEF WInv, WakeKept
    <3> QED BY <2>1, <2>3, <3>1, <3>3, MoveWakes
  <2> QED BY <1>10, <2>2, <2>3 DEF LockWait
<1>11. CASE Sleep \/ SleepTimeout
  <2>1. PICK l \in {"user", "sleep"} :
          /\ pc' = [pc EXCEPT ![Target] = l]
          /\ l = "sleep" => HasWakeupFn
    BY <1>11 DEF Sleep, SleepTimeout, Goto
  <2>2. /\ UNCHANGED <<items, interrupted, idling, lock_request, frame, cond, calls,
                       completed, awake>>
        /\ pc[Target] \in {"user", "sleep"} /\ "user" \in PCs /\ "sleep" \in PCs
    BY <1>11 DEF Sleep, SleepTimeout, PCs
  <2>3. Wakers' = Wakers
    BY <1>b, <2>1, <2>2 DEF Wakers
  <2>4. WakeKept' /\ Target \notin cond
    BY <1>b, <2>1, <2>2, <2>3 DEF WInv, WakeKept, Waiting
  <2> QED BY <1>b, <2>1, <2>2, <2>4, MoveWakes
<1>12. CASE UNCHANGED vars
  BY <1>12 DEF vars, WInv, TopServed, TopWaits, Innermost, Waiting, ClientsServed,
               WakeKept, Wakers
<1> QED BY <1>1, <1>2, <1>3, <1>4, <1>5, <1>6, <1>7, <1>8, <1>9, <1>10, <1>11, <1>12,
           ProcessWakes, ResumeWakes, ItemDoneWakes DEF Next

(* No thread that waits on queue->cond is left there when what it waits    *)
(* for is true, and the target does not sleep on work without wakeup_fn()  *)
(* having been called or being about to be.                                *)
THEOREM NothingMissed == Spec => []NoLostWakeup
<1>1. Init => WInv
  <2>. SUFFICES ASSUME Init PROVE WInv
    OBVIOUS
  <2>1. TopServed /\ Waiting /\ ClientsServed
    BY DEF Init, TopServed, TopWaits, Waiting, ClientsServed
  <2>2. WakeKept
    BY DEF Init, WakeKept, Threads
  <2>. QED BY <2>1, <2>2 DEF WInv
<1>2. IInv /\ WInv => NoLostWakeup
  <2>. SUFFICES ASSUME IInv, WInv PROVE NoLostWakeup
    OBVIOUS
  <2>1. /\ pc[Target] = "sleep" => HasWakeupFn /\ calls[Target] = {}
        /\ Clients \subseteq Threads
    BY DEF IInv, Place, WInv, WakeKept, Threads
  <2>2. pc[Target] = "sleep" /\ (items # <<>> \/ lock_request) =>
          awake \/ \E t \in Threads : pc[t] \in {"wakeup", "runwakeup", "kick"}
    BY <2>1 DEF WInv, WakeKept, Wakers
  <2>. QED BY <2>2 DEF NoLostWakeup, WInv, TopServed, ClientsServed
<1>3. IInv /\ WInv /\ [Next]_vars => WInv'
  BY StepWakes
<1>. QED BY <1>1, <1>2, <1>3, Invariant, PTL DEF Spec
=============================================================================
