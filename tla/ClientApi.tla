------------------------------ MODULE ClientApi ------------------------------
(***************************************************************************)
(* player/client.c: one client (an mpv_handle) and the player core.  The   *)
(* core sends events, answers asynchronous requests and tells when observed*)
(* properties change; the client gets all of it from mpv_wait_event(),     *)
(* which some clients call only after the wakeup callback told them to.    *)
(*                                                                         *)
(* "ctx" stands for struct mpv_handle.  What is done under ctx->lock is    *)
(* one step; wait_wakeup() releases it before it looks at need_wakeup.     *)
(* The core runs what the client put on its dispatch queue one by one.     *)
(*                                                                         *)
(* Events and log messages are numbered when they are sent, properties are *)
(* named after the call that observed them, and a property's value is a    *)
(* number, 0 if it is unavailable.  Memory that was freed keeps what it    *)
(* held: of what an access to it could do this is the case that goes on.   *)
(***************************************************************************)
EXTENDS Integers, Sequences, FiniteSets, SequencesExt, FiniteSetsExt

CONSTANTS MaxEvents,    \* ctx->max_events
          LogSize,      \* the entries a log buffer has room for
          Observers,    \* the calls of mpv_observe_property() there may be,
          Format,       \* and the format of each
          Values,       \* the values of the property, and 0
          Workloads,    \* what happens besides waiting
          MaxSends,     \* bound: events and log messages sent
          MaxRequests,  \* bound: asynchronous requests accepted
          MaxChanges    \* bound: changes of the property

ASSUME ClientAssumption ==
  /\ MaxEvents \in Nat \ {0} /\ LogSize \in Nat \ {0}
  /\ IsFiniteSet(Observers) /\ Format \in [Observers -> {"none", "value"}]
  /\ Values \subseteq Nat /\ 0 \in Values
  /\ Workloads \subseteq {"events", "log", "properties"}
  /\ MaxSends \in Nat /\ MaxRequests \in Nat /\ MaxChanges \in Nat

VARIABLES
  ctx,        \* struct mpv_handle, and whether the wakeup callback was called
  dispatch,   \* mpctx->dispatch: the calls the core has not made yet
  value,      \* the property's value in the core
  core,       \* what the core is doing
  interrupted,\* mp_wakeup_core() was called
  client,     \* where the client's thread is in mpv_wait_event()
  timeout,    \* how long it waits: "zero", "some" or "infinite"
  cur_event,  \* what mpv_wait_event() returned last
  style,      \* "blocks" or "called": calls it after a wakeup callback only
  workload,
  sent, logged, accepted, changes,  \* counters for the bounds
  got         \* what the client got: see NothingGot

count == <<sent, logged, accepted, changes>>
vars  == <<ctx, dispatch, value, core, interrupted, client, timeout, cur_event,
           style, workload, count, got>>

None == [id |-> "none"]

(* struct observe_property as mpv_observe_property() creates it.  "memory" *)
(* is what it is attached to; "twice" remembers that an update was queued  *)
(* while there was one already.                                            *)
Property(format) ==
  [format |-> format, changed |-> TRUE, need_new_value |-> TRUE,
   updating |-> FALSE, dead |-> FALSE, new_value |-> 0, user_value |-> 0,
   memory |-> "ctx", twice |-> FALSE]
Unused == [Property("none") EXCEPT !.memory = "unused"]

(* The last event and log message it got, whether it was told about others *)
(* that were lost since, how many replies it got, and per observer the     *)
(* value it was told.                                                      *)
NothingGot ==
  [event |-> 0, overflow |-> FALSE, log |-> 0, log_overflow |-> FALSE,
   replies |-> 0, value |-> [o \in Observers |-> 0]]

Init ==
  /\ ctx = [need_wakeup |-> FALSE, called |-> TRUE, queued_wakeup |-> FALSE,
            events |-> <<>>, reserved_events |-> 0, choked |-> FALSE,
            properties |-> <<>>, lowest_changed |-> 1,
            properties_updating |-> 0, messages |-> <<>>,
            prop |-> [o \in Observers |-> Unused]]
  /\ dispatch = <<>> /\ value \in Values \ {0}
  /\ core = [pc |-> "run"] /\ interrupted = FALSE
  /\ client = "idle" /\ timeout = "zero" /\ cur_event = None
  /\ style \in {"blocks", "called"} /\ workload \in Workloads
  /\ sent = 0 /\ logged = 0 /\ accepted = 0 /\ changes = 0
  /\ got = NothingGot

-----------------------------------------------------------------------------
(* Functions of client.c that are called with ctx->lock held; each returns *)
(* the state that it leaves.                                               *)

(* wakeup_client(): who waits sees need_wakeup.                            *)
Mut_WakeupClient(c) == [c EXCEPT !.need_wakeup = TRUE]   \* no callback
WakeupClient(c) ==
  IF c.need_wakeup THEN c
  ELSE [c EXCEPT !.need_wakeup = TRUE, !.called = TRUE]

Mut_AppendEvent(c, e) ==                    \* in front of the others
  WakeupClient([c EXCEPT !.events = <<e>> \o @])
AppendEvent(c, e) == WakeupClient([c EXCEPT !.events = Append(@, e)])

Full(c) == Len(c.events) + c.reserved_events >= MaxEvents

MarkChanged(p) ==
  [p EXCEPT !.changed = TRUE, !.need_new_value = p.format # "none"]

(* mp_client_property_change(), notify_property_events(): all observers    *)
(* observe the property that changed.                                      *)
NotifyProperty(c) ==
  LET marked(o) == IF o \in ToSet(c.properties) THEN MarkChanged(c.prop[o])
                   ELSE c.prop[o]
  IN  IF c.properties = <<>> THEN c
      ELSE WakeupClient([c EXCEPT !.lowest_changed = 1,
                                  !.prop = [o \in Observers |-> marked(o)]])

(* send_event() of an event that the client did not disable, and that is   *)
(* not in the property's event_mask.                                       *)
Mut_SendEvent(c, e) ==                      \* forgets that it dropped one
  IF Full(c) THEN c ELSE AppendEvent(c, e)
SendEvent(c, e) ==
  IF c.choked THEN c
  ELSE IF Full(c) THEN [c EXCEPT !.choked = TRUE]
  ELSE AppendEvent(c, e)

(* gen_property_change_event(): goes through the properties that may have  *)
(* changed, has new values retrieved, and stops at one that is to be told. *)
Asks(p)  == p.changed /\ p.format # "none" /\ p.need_new_value
Tells(p) == p.changed /\ ~Asks(p)

End(c)     == Len(c.properties) + 1
Visited(c) == c.lowest_changed .. Len(c.properties)
Nth(c, n)  == c.prop[c.properties[n]]
Stop(c)    == Min({n \in Visited(c) : Tells(Nth(c, n))} \cup {End(c)})
Asked(c)   == {n \in Visited(c) : n < Stop(c) /\ Asks(Nth(c, n))}
Lowest(c)  == Min({n \in Visited(c) : /\ n <= Stop(c)
                                      /\ Nth(c, n).changed \/ Nth(c, n).updating}
                  \cup {End(c)})

AskProperty(p) ==
  [p EXCEPT !.changed = FALSE, !.need_new_value = FALSE, !.updating = TRUE,
            !.twice = p.twice \/ p.updating]
TellProperty(p) ==
  [p EXCEPT !.changed = FALSE, !.need_new_value = FALSE,
            !.user_value = p.new_value]

InOrder(S) == CHOOSE s \in [1 .. Cardinality(S) -> S] :
                \A i, j \in DOMAIN s : i < j => s[i] < s[j]

GenPropertyChange(c, d) ==
  LET stop  == Stop(c)
      asks  == InOrder(Asked(c))
      prop(o) == IF \E n \in Asked(c) : c.properties[n] = o
                 THEN AskProperty(c.prop[o])
                 ELSE IF stop # End(c) /\ c.properties[stop] = o
                 THEN TellProperty(c.prop[o]) ELSE c.prop[o]
  IN  [ctx |-> [c EXCEPT !.lowest_changed = Lowest(c),
                         !.properties_updating = @ + Len(asks),
                         !.prop = [o \in Observers |-> prop(o)]],
       dispatch |-> d \o [i \in DOMAIN asks |->
                      [fn |-> "update_prop", prop |-> c.properties[asks[i]]]],
       event |-> IF stop = End(c) THEN None
                 ELSE [id |-> "change", prop |-> c.properties[stop],
                       value |-> Nth(c, stop).new_value]]

(* update_prop() after it retrieved "new".                                 *)
Mut_UpdateProp(c, o, new) ==                \* no wakeup
  LET p == c.prop[o] IN
  [c EXCEPT !.properties_updating = @ - 1,
            !.prop[o] = [p EXCEPT !.updating = FALSE, !.new_value = new,
                           !.changed = @ \/ p.user_value # new]]
Mut_UpdateProp_tells(c, o, new) ==          \* whether it changed or not
  LET p == c.prop[o] IN
  WakeupClient(
    [c EXCEPT !.properties_updating = @ - 1,
       !.prop[o] = [p EXCEPT !.updating = FALSE, !.new_value = new,
                      !.changed = TRUE,
                      !.memory = IF p.dead THEN "cur_event" ELSE @]])
UpdateProp(c, o, new) ==
  LET p == c.prop[o] IN
  WakeupClient(
    [c EXCEPT !.properties_updating = @ - 1,
       !.prop[o] = [p EXCEPT !.updating = FALSE, !.new_value = new,
                      !.changed = @ \/ p.user_value # new,
                      !.memory = IF p.dead THEN "cur_event" ELSE @]])

-----------------------------------------------------------------------------
(* The client.                                                             *)

(* One round of mpv_wait_event()'s loop: it returns an event, or releases  *)
(* ctx->lock to wait.                                                      *)
Recovers(c) == c.choked /\ c.events = <<>>

Deliver(e) ==
  got' = CASE e.id = "event"    -> [got EXCEPT !.event = e.n, !.overflow = FALSE]
           [] e.id = "overflow" -> [got EXCEPT !.overflow = TRUE]
           [] e.id = "log"      -> IF e.n = 0
                                   THEN [got EXCEPT !.log_overflow = TRUE]
                                   ELSE [got EXCEPT !.log = e.n,
                                                    !.log_overflow = FALSE]
           [] e.id = "reply"    -> [got EXCEPT !.replies = e.n]
           [] e.id = "change"   -> [got EXCEPT !.value[e.prop] = e.value]
           [] OTHER             -> got

Return(c, e) ==
  /\ ctx' = [c EXCEPT !.queued_wakeup = FALSE]
  /\ cur_event' = e /\ Deliver(e)
  /\ client' = "idle"

Round(c, t) ==
  \E x \in {GenPropertyChange(c, dispatch)} :    \* computed once
  /\ timeout' = IF c.queued_wakeup THEN "zero" ELSE t
  /\ IF Recovers(c)
     THEN /\ Return([c EXCEPT !.choked = FALSE], [id |-> "overflow"])
          /\ UNCHANGED dispatch
     ELSE IF c.events # <<>>
     THEN /\ Return([c EXCEPT !.events = Tail(@)], Head(c.events))
          /\ UNCHANGED dispatch
     ELSE /\ dispatch' = x.dispatch
          /\ IF x.event # None THEN Return(x.ctx, x.event)
             ELSE IF c.messages # <<>>
             THEN Return([x.ctx EXCEPT !.messages = Tail(@)],
                         [id |-> "log", n |-> Head(c.messages)])
             ELSE /\ ctx' = x.ctx /\ client' = "unlocked"
                  /\ UNCHANGED <<cur_event, got>>

(* What hung on the last event is freed.                                   *)
FreeEvent(c) ==
  LET free(p) == [p EXCEPT !.memory = IF @ = "cur_event" THEN "freed" ELSE @]
  IN  [c EXCEPT !.prop = [o \in Observers |-> free(c.prop[o])]]

Quit == cur_event.id = "shutdown"

WaitEvent(t) ==
  /\ client = "idle" /\ ~Quit
  /\ style = "called" => ctx.called \/ cur_event # None
  /\ \E c \in {FreeEvent([ctx EXCEPT !.called = @ /\ cur_event # None])} :
       Round(c, t)
  /\ UNCHANGED <<value, core, interrupted, style, workload, count>>

(* wait_wakeup(): a timeout that is over before it waits is over at once.  *)
Mut_WaitWakeup ==                           \* does not look at need_wakeup
  /\ client = "unlocked"
  /\ client' = IF timeout = "zero" THEN "timedout" ELSE "waiting"
  /\ ctx' = [ctx EXCEPT !.need_wakeup = FALSE]
  /\ UNCHANGED <<dispatch, value, core, interrupted, timeout, cur_event, style,
                 workload, count, got>>
WaitWakeup ==
  /\ client = "unlocked"
  /\ client' = IF ctx.need_wakeup THEN "woken"
               ELSE IF timeout = "zero" THEN "timedout" ELSE "waiting"
  /\ ctx' = [ctx EXCEPT !.need_wakeup = FALSE]
  /\ UNCHANGED <<dispatch, value, core, interrupted, timeout, cur_event, style,
                 workload, count, got>>

Woken ==
  /\ client = "waiting" /\ ctx.need_wakeup
  /\ client' = "woken"
  /\ ctx' = [ctx EXCEPT !.need_wakeup = FALSE]
  /\ UNCHANGED <<dispatch, value, core, interrupted, timeout, cur_event, style,
                 workload, count, got>>

(* The time is over, perhaps after the wakeup came.                        *)
TimedOut ==
  /\ client = "waiting" /\ timeout = "some"
  /\ client' = "timedout"
  /\ UNCHANGED <<ctx, dispatch, value, core, interrupted, timeout, cur_event,
                 style, workload, count, got>>

WaitAgain ==
  /\ client = "woken" /\ timeout # "detach"
  /\ Round(ctx, timeout)
  /\ UNCHANGED <<value, core, interrupted, style, workload, count>>

ReturnNone ==
  /\ client = "timedout"
  /\ Return(ctx, None)
  /\ UNCHANGED <<dispatch, value, core, interrupted, timeout, style, workload,
                 count>>

(* mpv_detach_destroy() waits until there is nothing left to be answered,  *)
(* and removes the client.                                                 *)
Mut_AsyncDone == ctx.reserved_events = 0
AsyncDone == ctx.reserved_events = 0 /\ ctx.properties_updating = 0

WaitAsyncRequests ==
  /\ \/ client = "idle"
     \/ client = "woken" /\ timeout = "detach"
  /\ timeout' = "detach"
  /\ client' = IF AsyncDone THEN "leaving" ELSE "unlocked"
  /\ UNCHANGED <<ctx, dispatch, value, core, interrupted, cur_event, style,
                 workload, count, got>>

Mut_Detach ==                               \* does not wake the core
  /\ client = "leaving"
  /\ client' = "gone"
  /\ UNCHANGED <<ctx, dispatch, value, core, interrupted, timeout, cur_event,
                 style, workload, count, got>>
Detach ==
  /\ client = "leaving"
  /\ client' = "gone" /\ interrupted' = TRUE
  /\ UNCHANGED <<ctx, dispatch, value, core, timeout, cur_event, style,
                 workload, count, got>>

(* The other functions may be called from any thread while one waits.      *)
InUse == client \notin {"leaving", "gone"} /\ timeout # "detach"

(* mpv_command_async() and others: reserve_reply(), and the request.       *)
Mut_Request ==                              \* reserves when the buffer is full
  /\ InUse /\ workload = "events" /\ accepted < MaxRequests
  /\ ctx.reserved_events < MaxEvents /\ ~ctx.choked
  /\ ctx' = [ctx EXCEPT !.reserved_events = @ + 1]
  /\ accepted' = accepted + 1
  /\ dispatch' = Append(dispatch, [fn |-> "request", n |-> accepted'])
  /\ UNCHANGED <<value, core, interrupted, client, timeout, cur_event, style,
                 workload, sent, logged, changes, got>>
Request ==
  /\ InUse /\ workload = "events" /\ accepted < MaxRequests
  /\ ~Full(ctx) /\ ~ctx.choked
  /\ ctx' = [ctx EXCEPT !.reserved_events = @ + 1]
  /\ accepted' = accepted + 1
  /\ dispatch' = Append(dispatch, [fn |-> "request", n |-> accepted'])
  /\ UNCHANGED <<value, core, interrupted, client, timeout, cur_event, style,
                 workload, sent, logged, changes, got>>

Wakeup ==
  /\ InUse /\ workload = "log" /\ ~ctx.queued_wakeup
  /\ ctx' = WakeupClient([ctx EXCEPT !.queued_wakeup = TRUE])
  /\ UNCHANGED <<dispatch, value, core, interrupted, client, timeout, cur_event,
                 style, workload, count, got>>

(* Nobody is woken, and no callback is called.                             *)
ObserveProperty(o) ==
  /\ InUse /\ workload = "properties" /\ ctx.prop[o].memory = "unused"
  /\ ctx' = [ctx EXCEPT !.prop[o] = Property(Format[o]),
                        !.properties = Append(@, o), !.lowest_changed = 1]
  /\ UNCHANGED <<dispatch, value, core, interrupted, client, timeout, cur_event,
                 style, workload, count, got>>

(* An observer whose value is being retrieved is freed when that is done.  *)
Mut_UnobserveProperty(o) ==                 \* does not wait for the update
  /\ InUse
  /\ \E n \in DOMAIN ctx.properties :
       /\ ctx.properties[n] = o
       /\ ctx' = [ctx EXCEPT !.prop[o].memory = "cur_event",
                    !.properties = RemoveAt(@, n), !.lowest_changed = 1]
  /\ UNCHANGED <<dispatch, value, core, interrupted, client, timeout, cur_event,
                 style, workload, count, got>>
UnobserveProperty(o) ==
  /\ InUse
  /\ \E n \in DOMAIN ctx.properties :
       /\ ctx.properties[n] = o
       /\ ctx' = [ctx EXCEPT
            !.prop[o] = IF @.updating THEN [@ EXCEPT !.dead = TRUE]
                                      ELSE [@ EXCEPT !.memory = "cur_event"],
            !.properties = RemoveAt(@, n), !.lowest_changed = 1]
  /\ UNCHANGED <<dispatch, value, core, interrupted, client, timeout, cur_event,
                 style, workload, count, got>>

-----------------------------------------------------------------------------
(* The core.                                                               *)

(* mp_client_broadcast_event().  It is a step of its own after a change of *)
(* the property, in the same function of the core.                         *)
Broadcast ==
  /\ core.pc = "run" /\ workload = "events" /\ sent < MaxSends
  /\ sent' = sent + 1
  /\ ctx' = IF client = "gone" THEN ctx
            ELSE SendEvent(ctx, [id |-> "event", n |-> sent'])
  /\ UNCHANGED <<dispatch, value, core, interrupted, client, timeout, cur_event,
                 style, workload, logged, accepted, changes, got>>

Change(v) ==
  /\ core.pc = "run" /\ workload = "properties"
  /\ changes < MaxChanges /\ v # value
  /\ value' = v /\ changes' = changes + 1
  /\ core' = [pc |-> "notify"]
  /\ UNCHANGED <<ctx, dispatch, interrupted, client, timeout, cur_event, style,
                 workload, sent, logged, accepted, got>>

(* By mp_notify_property(), or an event that only stands for the change.   *)
Notify ==
  /\ core.pc = "notify" /\ core' = [pc |-> "run"]
  /\ ctx' = IF client = "gone" THEN ctx ELSE NotifyProperty(ctx)
  /\ UNCHANGED <<dispatch, value, interrupted, client, timeout, cur_event, style,
                 workload, count, got>>

(* A message of any thread, into the client's buffer of log messages; 0    *)
(* says that some are missing.                                             *)
Log ==
  /\ workload = "log" /\ logged < MaxSends /\ client # "gone"
  /\ logged' = logged + 1
  /\ LET room == LogSize - Len(ctx.messages) IN
     ctx' = IF room = 0 THEN ctx
            ELSE WakeupClient([ctx EXCEPT
                   !.messages = Append(@, IF room > 1 THEN logged' ELSE 0)])
  /\ UNCHANGED <<dispatch, value, core, interrupted, client, timeout, cur_event,
                 style, workload, sent, accepted, changes, got>>

(* mp_dispatch_queue_process() takes a call from the queue.  A request is  *)
(* run and answered by send_reply(), update_prop() gets the value first.   *)
RunRequest ==
  /\ core.pc \in {"run", "sleep"} /\ dispatch # <<>>
  /\ Head(dispatch).fn = "request"
  /\ dispatch' = Tail(dispatch)
  /\ ctx' = AppendEvent([ctx EXCEPT !.reserved_events = @ - 1],
                        [id |-> "reply", n |-> Head(dispatch).n])
  /\ core' = IF core.pc = "sleep" THEN [core EXCEPT !.worked = TRUE] ELSE core
  /\ UNCHANGED <<value, interrupted, client, timeout, cur_event, style, workload,
                 count, got>>

GetProperty ==
  /\ core.pc \in {"run", "sleep"} /\ dispatch # <<>>
  /\ Head(dispatch).fn = "update_prop"
  /\ dispatch' = Tail(dispatch)
  /\ core' = [pc |-> "update", prop |-> Head(dispatch).prop, then |-> core.pc]
  /\ UNCHANGED <<ctx, value, interrupted, client, timeout, cur_event, style,
                 workload, count, got>>

Update ==
  /\ core.pc = "update"
  /\ ctx' = UpdateProp(ctx, core.prop, value)
  /\ core' = IF core.then = "run" THEN [pc |-> "run"]
             ELSE [pc |-> "sleep", worked |-> TRUE]
  /\ UNCHANGED <<dispatch, value, interrupted, client, timeout, cur_event, style,
                 workload, count, got>>

(* shutdown_clients(): the first wait may be over at once.                 *)
Shutdown ==
  /\ core.pc = "run" /\ workload # "properties"
  /\ core' = [pc |-> "shutdown"] /\ interrupted' \in {TRUE, interrupted}
  /\ UNCHANGED <<ctx, dispatch, value, client, timeout, cur_event, style,
                 workload, count, got>>

ShutdownClients ==
  /\ core.pc = "shutdown"
  /\ IF client = "gone" THEN core' = [pc |-> "exited"] /\ UNCHANGED ctx
     ELSE /\ ctx' = SendEvent(ctx, [id |-> "shutdown"])
          /\ core' = [pc |-> "sleep", worked |-> FALSE]
  /\ UNCHANGED <<dispatch, value, interrupted, client, timeout, cur_event, style,
                 workload, count, got>>

(* mp_wait_events() returns when it was interrupted or did something.      *)
CoreWoken ==
  /\ core.pc = "sleep" /\ dispatch = <<>> /\ (interrupted \/ core.worked)
  /\ core' = [pc |-> "shutdown"] /\ interrupted' = FALSE
  /\ UNCHANGED <<ctx, dispatch, value, client, timeout, cur_event, style,
                 workload, count, got>>

-----------------------------------------------------------------------------
CoreStep == \/ Notify \/ RunRequest \/ GetProperty \/ Update
            \/ ShutdownClients \/ CoreWoken

Timeouts == CASE style = "called" -> {"zero"}
              [] workload = "log" -> {"some", "infinite"}
              [] OTHER -> {"infinite"}

ClientStep == \/ \E t \in Timeouts : WaitEvent(t)
              \/ WaitWakeup \/ Woken \/ WaitAgain \/ ReturnNone \/ Detach

Done == client = "gone" /\ UNCHANGED vars

Next ==
  \/ CoreStep \/ ClientStep \/ TimedOut \/ WaitAsyncRequests
  \/ Request \/ Wakeup \/ Broadcast \/ Log \/ Shutdown \/ Done
  \/ \E o \in Observers : ObserveProperty(o) \/ UnobserveProperty(o)
  \/ \E v \in Values : Change(v)

Spec == Init /\ [][Next]_vars

(* The core runs what is queued, the client goes on to wait for events, or *)
(* waits when the callback was called, and detaches when it is told to.    *)
Fairness == /\ WF_vars(CoreStep) /\ WF_vars(ClientStep)
            /\ WF_vars(WaitAsyncRequests /\ (Quit \/ client = "woken"))

FairSpec == Spec /\ Fairness

-----------------------------------------------------------------------------
Pending(fn) == Cardinality({i \in DOMAIN dispatch : dispatch[i].fn = fn})

(* Every variable has its type, the buffer of events never overruns, and   *)
(* lowest_changed points to an observer or behind the last.                *)
TypeOK ==
  /\ ctx.need_wakeup \in BOOLEAN /\ ctx.called \in BOOLEAN
  /\ ctx.queued_wakeup \in BOOLEAN /\ ctx.choked \in BOOLEAN
  /\ Len(ctx.events) <= MaxEvents /\ ctx.reserved_events \in 0 .. MaxEvents
  /\ ToSet(ctx.properties) \subseteq Observers
  /\ ctx.lowest_changed \in 1 .. Len(ctx.properties) + 1
  /\ ctx.properties_updating \in Nat /\ Len(ctx.messages) <= LogSize
  /\ \A o \in Observers :
       /\ ctx.prop[o].memory \in {"unused", "ctx", "cur_event", "freed"}
       /\ {ctx.prop[o].new_value, ctx.prop[o].user_value} \subseteq Values
  /\ core.pc \in {"run", "notify", "update", "shutdown", "sleep", "exited"}
  /\ client \in {"idle", "unlocked", "waiting", "woken", "timedout", "leaving",
                 "gone"}
  /\ timeout \in {"zero", "some", "infinite", "detach"}
  /\ value \in Values

(* Every request has room for its reply (the assertion and the abort() of  *)
(* client.c:617-620 are not reached), and the counters that                *)
(* mpv_detach_destroy() waits for are the calls that are to be made.       *)
RepliesReserved ==
  /\ TypeOK
  /\ Len(ctx.events) + ctx.reserved_events <= MaxEvents
  /\ ctx.reserved_events = Pending("request")
  /\ ctx.properties_updating =
       Pending("update_prop") + (IF core.pc = "update" THEN 1 ELSE 0)

(* client.c:368 "In order to avoid that trying to reply to a removed       *)
(* client causes a crash, block until all asynchronous requests were       *)
(* served."  Nor is an observer freed while its value is about to be       *)
(* retrieved, or being retrieved, unless it was queued for it twice.       *)
Updated(o) == \/ \E i \in DOMAIN dispatch :
                   dispatch[i].fn = "update_prop" /\ dispatch[i].prop = o
              \/ core.pc = "update" /\ core.prop = o
MemoryAlive ==
  /\ client = "gone" => dispatch = <<>> /\ core.pc # "update"
  /\ \A o \in Observers :
       Updated(o) /\ ctx.prop[o].memory = "freed" => ctx.prop[o].twice

(* client.c:1369 "make sure it's not freed while in use. The same can      *)
(* happen with the value update mechanism."                                *)
EveryUpdateAlive ==
  \A o \in Observers : Updated(o) => ctx.prop[o].memory # "freed"

(* client.h:1290 "at least 1 event had to be dropped": events come in      *)
(* their order, and if some are missing the client was told before it gets *)
(* the next.  So with log messages, msg.c:319.                             *)
(* client.h:109 "asynchronous calls are always strictly ordered": replies  *)
(* come in the order of the requests, each of them once.                   *)
(* client.h:1057 "change events are sent only if the property value        *)
(* changes", for those who asked for its value.                            *)
EventsFaithful ==
  [][/\ got'.event # got.event =>
          got'.event = got.event + 1 \/ (got.event < got'.event /\ got.overflow)
     /\ got'.log # got.log =>
          got'.log = got.log + 1 \/ (got.log < got'.log /\ got.log_overflow)
     /\ got'.replies \in {got.replies, got.replies + 1}
     /\ cur_event' # cur_event /\ cur_event'.id = "change" =>
          \/ ctx.prop[cur_event'.prop].format = "none"
          \/ got'.value # got.value]_vars

(* The client is told the value that the property has in the end, however  *)
(* changes, retrievals and its calls are interleaved: from when it looks   *)
(* for changes (at once, or because it is woken or called), or one is on   *)
(* its way.  A client that waits when another of its threads observes is   *)
(* not woken for that (client.c:1341-1350), although client.h:1578 has the *)
(* callback called when there are new events: it waits for the next change.*)
WillLook ==
  \/ client = "idle" /\ (style = "called" => ctx.called \/ cur_event # None)
  \/ client = "woken"
  \/ client \in {"unlocked", "waiting"} /\ ctx.need_wakeup

ValueTold ==
  \A o \in {x \in Observers : Format[x] = "value"} :
    /\ o \in ToSet(ctx.properties)
    /\ WillLook \/ core.pc = "notify" \/ ctx.prop[o].updating
    ~> \/ got.value[o] = value
       \/ o \notin ToSet(ctx.properties) \/ timeout = "detach" \/ Quit

(* Nothing stays where the client does not get it: events, the overflow of *)
(* the queue, log messages and mpv_wakeup() end its waiting, it does not   *)
(* stop looking before all changes are told, and every request is answered,*)
(* unless the client leaves.  When it gets the event that asks it to       *)
(* leave, it can, and the core exits.                                      *)
Readable == \/ ctx.events # <<>> \/ ctx.messages # <<>> \/ ctx.queued_wakeup
            \/ ctx.choked /\ ctx.reserved_events = 0
Changed  == \E o \in ToSet(ctx.properties) : ctx.prop[o].changed

NothingLeft ==
  /\ Readable ~> ~Readable \/ timeout = "detach" \/ Quit
  /\ Changed /\ WillLook ~> ~Changed \/ timeout = "detach" \/ Quit
  /\ \A n \in 1 .. MaxRequests :
       accepted >= n ~> got.replies >= n \/ timeout = "detach" \/ Quit
  /\ core.pc # "run" /\ [id |-> "shutdown"] \in ToSet(ctx.events) ~>
       core.pc = "exited"

(* client.h:1112 "mpv_wait_event() will always return instantly (returning *)
(* new shutdown events if no other events are queued)."                    *)
ShutdownTold == core.pc = "shutdown" ~> Quit \/ client = "gone"
=============================================================================
