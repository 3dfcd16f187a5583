---------------------------- MODULE ClientProofs ----------------------------
(***************************************************************************)
(* Proofs about ClientApi for event rings and log buffers of any size, any *)
(* number of observers and of values, and however many events, requests,   *)
(* log messages and changes there are.                                     *)
(*                                                                         *)
(* What a client gets passes through a queue with a limit, a counter of    *)
(* reserved places, the core's dispatch queue and a list of observers that *)
(* is looked through from a position on.  The invariant says of each what  *)
(* it holds of the things sent and not yet got: the queues continue where  *)
(* the client is (Ordered), the counters are the calls to be made          *)
(* (Counted), these refer to memory that is still there (Attached), and a  *)
(* value that waits to be told is new (ChangesKnown).                      *)
(***************************************************************************)
EXTENDS ClientApi, SequenceTheorems, FiniteSetTheorems, FunctionTheorems, TLAPS

(* What the variables hold.  Types says of a variable no more than the     *)
(* proofs need: how a client is woken (interrupted, style) and the counter *)
(* of changes decide nothing below.                                        *)
Number == Nat \ {0}
Events == [id : {"event", "reply"}, n : Number] \cup [id : {"shutdown"}]
Calls  == [fn : {"request"}, n : Number]
            \cup [fn : {"update_prop"}, prop : Observers]
Properties == [format : {"none", "value"}, changed : BOOLEAN,
               need_new_value : BOOLEAN, updating : BOOLEAN, dead : BOOLEAN,
               new_value : Values, user_value : Values,
               memory : {"unused", "ctx", "cur_event", "freed"}, twice : BOOLEAN]
Handles == [need_wakeup : BOOLEAN, called : BOOLEAN, queued_wakeup : BOOLEAN,
            events : Seq(Events), reserved_events : Nat, choked : BOOLEAN,
            properties : Seq(Observers), lowest_changed : Nat,
            properties_updating : Nat, messages : Seq(Nat),
            prop : [Observers -> Properties]]
Returned == Events \cup [id : {"none", "overflow"}] \cup [id : {"log"}, n : Nat]
              \cup [id : {"change"}, prop : Observers, value : Values]
Got == [event : Nat, overflow : BOOLEAN, log : Nat, log_overflow : BOOLEAN,
        replies : Nat, value : [Observers -> Values]]
CoreStates == [pc : {"run", "notify", "shutdown", "exited"}]
                \cup [pc : {"update"}, prop : Observers, then : {"run", "sleep"}]
                \cup [pc : {"sleep"}, worked : BOOLEAN]

Types ==
  /\ ctx \in Handles /\ dispatch \in Seq(Calls) /\ value \in Values
  /\ core \in CoreStates
  /\ client \in {"idle", "unlocked", "waiting", "woken", "timedout", "leaving", "gone"}
  /\ timeout \in {"zero", "some", "infinite", "detach"}
  /\ cur_event \in Returned /\ got \in Got
  /\ sent \in Nat /\ logged \in Nat /\ accepted \in Nat
  /\ workload \in Workloads

(* The log buffer keeps to its size, and the position from which changes   *)
(* are looked for is one of the observers' or just past them.              *)
Bounded ==
  /\ Len(ctx.messages) <= LogSize
  /\ ctx.lowest_changed \in 1 .. Len(ctx.properties) + 1

(* The two counters of a handle are the calls to be made: a reserved event *)
(* is a request that waits for its reply, and an updating property is      *)
(* queued or being retrieved.  Together with the queued events they never  *)
(* exceed the ring.                                                        *)
Counted ==
  /\ Len(ctx.events) + ctx.reserved_events <= MaxEvents
  /\ ctx.reserved_events = Pending("request")
  /\ ctx.properties_updating =
       Pending("update_prop") + (IF core.pc = "update" THEN 1 ELSE 0)

(* mpv_detach_destroy() (timeout "detach") goes on to free the handle when *)
(* both counters are 0, and then nothing refers to it.                     *)
Leaving ==
  /\ timeout = "detach" =>
       client \in {"unlocked", "waiting", "woken", "leaving", "gone"}
  /\ client \in {"leaving", "gone"} =>
       /\ timeout = "detach"
       /\ ctx.reserved_events = 0 /\ ctx.properties_updating = 0

(* The queued calls of update_prop() for one observer.                     *)
Updates(d, o) == {i \in DOMAIN d : d[i].fn = "update_prop" /\ d[i].prop = o}

(* Every observer occurs once and belongs to the handle.  One that is to   *)
(* be updated was not freed: unless two updates of it were queued at once  *)
(* ("twice", which is what the violated property is about), there is a     *)
(* single one and "updating" says so.                                      *)
Attached ==
  /\ \A i, j \in DOMAIN ctx.properties :
       ctx.properties[i] = ctx.properties[j] => i = j
  /\ \A i \in DOMAIN ctx.properties :
       /\ ctx.prop[ctx.properties[i]].memory = "ctx"
       /\ ~ctx.prop[ctx.properties[i]].dead
  /\ \A o \in Observers :
       /\ Updated(o) => ctx.prop[o].memory # "unused"
       /\ ~ctx.prop[o].twice =>
            /\ Updated(o) => ctx.prop[o].updating /\ ctx.prop[o].memory = "ctx"
            /\ \A i, j \in Updates(dispatch, o) : i = j
            /\ core.pc = "update" /\ core.prop = o => Updates(dispatch, o) = {}

EventsIn(q)   == {i \in DOMAIN q : q[i].id = "event"}
RepliesIn(q)  == {i \in DOMAIN q : q[i].id = "reply"}
(* The queued requests, in the order of which replies will come.           *)
RequestsIn(d) == {i \in DOMAIN d : d[i].fn = "request"}

(* The queue q continues where the client is: it got the events up to      *)
(* got_n, "last" was sent last, and the numbers between are queued without *)
(* a gap, except one at the front if the client was told of lost events.   *)
(* While the queue is open the last event sent is in it or was got.        *)
EventOrder(q, got_n, lost, last, open) ==
  /\ got_n <= last
  /\ \A i \in EventsIn(q) : got_n < q[i].n /\ q[i].n <= last
  /\ \A i, j \in EventsIn(q) : i < j => q[i].n < q[j].n
  /\ \A i \in EventsIn(q) :
       \/ \E j \in EventsIn(q) : j < i /\ q[i].n = q[j].n + 1
       \/ /\ \A j \in EventsIn(q) : ~(j < i)
          /\ q[i].n = got_n + 1 \/ lost
  /\ open => \/ \E i \in EventsIn(q) : q[i].n = last
             \/ EventsIn(q) = {} /\ (got_n = last \/ lost)

(* The same for replies, of which none is ever lost: what the client did   *)
(* not get yet is queued as a reply or still a call to be made, every      *)
(* number once and the replies first.                                      *)
ReplyOrder(q, d, got_n, last) ==
  /\ got_n <= last
  /\ \A i \in RepliesIn(q) : got_n < q[i].n /\ q[i].n <= last
  /\ \A i \in RequestsIn(d) : got_n < d[i].n /\ d[i].n <= last
  /\ \A i, j \in RepliesIn(q) : i < j => q[i].n < q[j].n
  /\ \A i, j \in RequestsIn(d) : i < j => d[i].n < d[j].n
  /\ \A i \in RepliesIn(q), j \in RequestsIn(d) : q[i].n < d[j].n
  /\ \A i \in RepliesIn(q) :
       \/ q[i].n = got_n + 1
       \/ \E j \in RepliesIn(q) : j < i /\ q[i].n = q[j].n + 1
  /\ \A i \in RequestsIn(d) :
       \/ d[i].n = got_n + 1
       \/ \E j \in RepliesIn(q) : d[i].n = q[j].n + 1
       \/ \E j \in RequestsIn(d) : j < i /\ d[i].n = d[j].n + 1
  /\ \/ got_n = last
     \/ \E i \in RepliesIn(q) : q[i].n = last
     \/ \E i \in RequestsIn(d) : d[i].n = last

(* The same for log messages; 0 stands for the message that says that      *)
(* others were lost, and after it any number may follow.                   *)
LogOrder(m, got_n, lost, last) ==
  /\ got_n <= last
  /\ \A i \in DOMAIN m : m[i] # 0 =>
       /\ got_n < m[i] /\ m[i] <= last
       /\ i = 1 => m[i] = got_n + 1 \/ lost
       /\ i > 1 => m[i - 1] = 0 \/ m[i] = m[i - 1] + 1
  /\ \A i, j \in DOMAIN m : i < j /\ m[i] # 0 /\ m[j] # 0 => m[i] < m[j]
  /\ m = <<>> => got_n = last \/ lost
  /\ m # <<>> => m[Len(m)] = 0 \/ m[Len(m)] = last

(* Whatever was sent is told in order.                                     *)
Ordered ==
  /\ EventOrder(ctx.events, got.event, got.overflow, sent,
                ~ctx.choked /\ client # "gone")
  /\ ReplyOrder(ctx.events, dispatch, got.replies, accepted)
  /\ LogOrder(ctx.messages, got.log, got.log_overflow, logged)
  /\ Len(ctx.messages) = LogSize => ctx.messages[LogSize] = 0

(* A value was retrieved for p and is to be told.                          *)
Retrieved(p) == p.changed /\ p.format = "value" /\ ~p.need_new_value
(* What the client was told of a property is what the handle remembers; a  *)
(* value that is to be told differs from it and is the one the core has,   *)
(* until the core is about to notify again.                                *)
ChangesKnown ==
  /\ \A o \in Observers :
       /\ got.value[o] = ctx.prop[o].user_value
       /\ ctx.prop[o].memory = "unused" => got.value[o] = 0
  /\ \A i \in DOMAIN ctx.properties :
       LET p == ctx.prop[ctx.properties[i]] IN
       Retrieved(p) => /\ p.new_value # p.user_value
                       /\ core.pc # "notify" /\ client # "gone" =>
                            p.new_value = value

(* The inductive invariant.                                                *)
IInv == /\ Types /\ Bounded /\ Counted /\ Leaving /\ Attached
        /\ Ordered /\ ChangesKnown

-----------------------------------------------------------------------------
(* The tail of a sequence.                                                 *)
LEMMA Tails ==
  ASSUME NEW S, NEW s \in Seq(S), s # <<>>
  PROVE  /\ Len(s) \in Nat \ {0} /\ DOMAIN s = 1 .. Len(s) /\ 1 \in DOMAIN s
         /\ Head(s) = s[1] /\ s[1] \in S
         /\ Tail(s) \in Seq(S) /\ Len(Tail(s)) = Len(s) - 1
         /\ \A i \in Number : i \in DOMAIN Tail(s) <=> i + 1 \in DOMAIN s
         /\ \A i \in DOMAIN Tail(s) : i \in Number /\ Tail(s)[i] = s[i + 1]
         /\ \A i \in DOMAIN s : i # 1 => i - 1 \in DOMAIN Tail(s) /\ i \in Number
<1>1. Len(s) \in Nat \ {0} /\ DOMAIN s = 1 .. Len(s)
  OBVIOUS
<1>2. Tail(s) \in Seq(S) /\ Len(Tail(s)) = Len(s) - 1
  OBVIOUS
<1>3. DOMAIN Tail(s) = 1 .. Len(s) - 1
  BY <1>2
<1>4. \A i \in 1 .. Len(s) - 1 : Tail(s)[i] = s[i + 1]
  BY <1>1
<1>5. Head(s) = s[1] /\ s[1] \in S
  BY <1>1
<1>. QED BY <1>1, <1>2, <1>3, <1>4, <1>5 DEF Number

(* A sequence and one more element.                                        *)
LEMMA Appends ==
  ASSUME NEW S, NEW s \in Seq(S), NEW e \in S
  PROVE  /\ Append(s, e) \in Seq(S)
         /\ Len(s) \in Nat /\ Len(Append(s, e)) = Len(s) + 1
         /\ DOMAIN s = 1 .. Len(s)
         /\ DOMAIN Append(s, e) = DOMAIN s \cup {Len(s) + 1}
         /\ \A i \in DOMAIN s : i \in Nat /\ i < Len(s) + 1 /\ Append(s, e)[i] = s[i]
         /\ Append(s, e)[Len(s) + 1] = e
<1>1. Len(s) \in Nat /\ DOMAIN s = 1 .. Len(s)
  OBVIOUS
<1>2. Append(s, e) \in Seq(S) /\ Len(Append(s, e)) = Len(s) + 1
  OBVIOUS
<1>3. DOMAIN Append(s, e) = 1 .. Len(s) + 1
  BY <1>2
<1>4. \A i \in 1 .. Len(s) : Append(s, e)[i] = s[i]
  OBVIOUS
<1>5. Append(s, e)[Len(s) + 1] = e
  OBVIOUS
<1>. QED BY <1>1, <1>2, <1>3, <1>4, <1>5

(* Events and replies carry positive numbers.                              *)
LEMMA Numbered ==
  ASSUME NEW q \in Seq(Events), NEW i \in EventsIn(q) \cup RepliesIn(q)
  PROVE  i \in Number /\ i \in DOMAIN q /\ q[i].n \in Number
<1>1. DOMAIN q = 1 .. Len(q) /\ Len(q) \in Nat /\ q[i] \in Events /\ i \in DOMAIN q
  BY DEF EventsIn, RepliesIn
<1>. QED BY <1>1 DEF Events, EventsIn, RepliesIn, Number

(* So do requests.                                                         *)
LEMMA NumberedRequests ==
  ASSUME NEW d \in Seq(Calls), NEW i \in RequestsIn(d)
  PROVE  i \in Number /\ i \in DOMAIN d /\ d[i].n \in Number
<1>1. DOMAIN d = 1 .. Len(d) /\ Len(d) \in Nat /\ d[i] \in Calls /\ i \in DOMAIN d
  BY DEF RequestsIn
<1>. QED BY <1>1 DEF Calls, RequestsIn, Number

(* Events.                                                                 *)
LEMMA EventsTail ==
  ASSUME NEW q \in Seq(Events), q # <<>>
  PROVE  /\ \A i \in EventsIn(Tail(q)) : /\ i + 1 \in EventsIn(q) /\ i \in Number
                                         /\ Tail(q)[i] = q[i + 1]
         /\ \A i \in EventsIn(q) : i # 1 => /\ i - 1 \in EventsIn(Tail(q))
                                            /\ Tail(q)[i - 1] = q[i]
BY Tails DEF EventsIn, Number

(* The first one is told: it is the next, or the client knows of lost      *)
(* ones.                                                                   *)
LEMMA EventTold ==
  ASSUME NEW q \in Seq(Events), q # <<>>, NEW g \in Nat, NEW last \in Nat,
         NEW lost \in BOOLEAN, NEW open \in BOOLEAN,
         EventOrder(q, g, lost, last, open), 1 \in EventsIn(q), NEW free \in BOOLEAN
  PROVE  EventOrder(Tail(q), q[1].n, free, last, open) /\ g < q[1].n
         /\ (q[1].n = g + 1 \/ lost)
<1> DEFINE E == EventsIn(q)  F == EventsIn(Tail(q))  t == Tail(q)
<1>1. /\ \A i \in F : i + 1 \in E /\ i \in Number /\ t[i] = q[i + 1]
      /\ \A i \in E : i # 1 => i - 1 \in F /\ t[i - 1] = q[i]
  BY EventsTail
<1>2. \A i \in E : i \in Number /\ q[i].n \in Number
  BY Numbered
<1>3. 1 \in E
  OBVIOUS
<1>4. /\ \A i \in E : g < q[i].n /\ q[i].n <= last
      /\ \A i, j \in E : i < j => q[i].n < q[j].n
      /\ \A i \in E : \/ \E j \in E : j < i /\ q[i].n = q[j].n + 1
                      \/ /\ \A j \in E : ~(j < i)
                         /\ q[i].n = g + 1 \/ lost
      /\ open => \/ \E i \in E : q[i].n = last
                 \/ E = {} /\ (g = last \/ lost)
  BY DEF EventOrder
<1>. HIDE DEF E, F, t
<1>5. \A i \in F : q[1].n < t[i].n /\ t[i].n <= last
  BY <1>1, <1>2, <1>3, <1>4 DEF Number
<1>6. \A i, j \in F : i < j => t[i].n < t[j].n
  BY <1>1, <1>4 DEF Number
<1>7. ASSUME NEW i \in F
      PROVE  \/ \E j \in F : j < i /\ t[i].n = t[j].n + 1
             \/ (\A j \in F : ~(j < i)) /\ (t[i].n = q[1].n + 1)
  <2>1. i + 1 \in E /\ i \in Number /\ t[i] = q[i + 1] /\ 1 < i + 1
    BY <1>1 DEF Number
  <2>2. PICK j \in E : j < i + 1 /\ q[i + 1].n = q[j].n + 1
    BY <1>3, <1>4, <2>1
  <2>3. CASE j = 1
    <3>1. ASSUME NEW k \in F, k < i PROVE FALSE
      <4>1. k + 1 \in E /\ k \in Number /\ 1 < k + 1 /\ k + 1 < i + 1
        BY <1>1, <2>1, <3>1 DEF Number
      <4>2. q[1].n < q[k + 1].n /\ q[k + 1].n < q[i + 1].n
        BY <1>3, <1>4, <2>1, <4>1
      <4>. QED BY <1>2, <1>3, <2>1, <2>2, <2>3, <4>1, <4>2 DEF Number
    <3>. QED BY <2>1, <2>2, <2>3, <3>1
  <2>4. CASE j # 1
    <3>1. j - 1 \in F /\ t[j - 1] = q[j] /\ j \in Number
      BY <1>1, <1>2, <2>4
    <3>. QED BY <2>1, <2>2, <3>1 DEF Number
  <2>. QED BY <2>3, <2>4
<1>8. open => \/ \E i \in F : t[i].n = last
              \/ F = {} /\ q[1].n = last
  <2>. SUFFICES ASSUME open PROVE \/ \E i \in F : t[i].n = last
                                  \/ F = {} /\ q[1].n = last
    OBVIOUS
  <2>1. PICK i \in E : q[i].n = last
    BY <1>3, <1>4
  <2>2. CASE i = 1
    <3>1. ASSUME NEW k \in F PROVE FALSE
      <4>1. k + 1 \in E /\ k \in Number /\ 1 < k + 1
        BY <1>1 DEF Number
      <4>2. q[1].n < q[k + 1].n /\ q[k + 1].n <= last
        BY <1>3, <1>4, <4>1
      <4>. QED BY <1>2, <1>3, <2>1, <2>2, <4>1, <4>2 DEF Number
    <3>. QED BY <2>1, <2>2, <3>1
  <2>3. CASE i # 1
    BY <1>1, <2>1, <2>3
  <2>. QED BY <2>2, <2>3
<1>9. g < q[1].n /\ q[1].n <= last
  BY <1>3, <1>4
<1>10. q[1].n = g + 1 \/ lost
  <2>1. ASSUME NEW j \in E, j < 1 PROVE FALSE
    BY <1>2, <2>1 DEF Number
  <2>. QED BY <1>3, <1>4, <2>1
<1>. QED BY <1>5, <1>6, <1>7, <1>8, <1>9, <1>10 DEF EventOrder, F, t

(* Something else than an event is told.                                   *)
LEMMA EventSkipped ==
  ASSUME NEW q \in Seq(Events), q # <<>>, NEW g \in Nat, NEW last \in Nat,
         NEW lost \in BOOLEAN, NEW open \in BOOLEAN,
         EventOrder(q, g, lost, last, open), 1 \notin EventsIn(q)
  PROVE  EventOrder(Tail(q), g, lost, last, open)
<1> DEFINE E == EventsIn(q)  F == EventsIn(Tail(q))  t == Tail(q)
<1>1. /\ \A i \in F : i + 1 \in E /\ i \in Number /\ t[i] = q[i + 1]
      /\ \A i \in E : i # 1 => i - 1 \in F /\ t[i - 1] = q[i]
  BY EventsTail
<1>2. \A i \in E : i \in Number /\ i # 1
  BY Numbered
<1>4. /\ \A i \in E : g < q[i].n /\ q[i].n <= last
      /\ \A i, j \in E : i < j => q[i].n < q[j].n
      /\ \A i \in E : \/ \E j \in E : j < i /\ q[i].n = q[j].n + 1
                      \/ /\ \A j \in E : ~(j < i)
                         /\ q[i].n = g + 1 \/ lost
      /\ open => \/ \E i \in E : q[i].n = last
                 \/ E = {} /\ (g = last \/ lost)
  BY DEF EventOrder
<1>. HIDE DEF E, F, t
<1>5. \A i \in F : g < t[i].n /\ t[i].n <= last
  BY <1>1, <1>4
<1>6. \A i, j \in F : i < j => t[i].n < t[j].n
  BY <1>1, <1>4 DEF Number
<1>7. ASSUME NEW i \in F
      PROVE  \/ \E j \in F : j < i /\ t[i].n = t[j].n + 1
             \/ (\A j \in F : ~(j < i)) /\ (t[i].n = g + 1 \/ lost)
  <2>1. i + 1 \in E /\ i \in Number /\ t[i] = q[i + 1]
    BY <1>1
  <2>2. CASE \E j \in E : j < i + 1 /\ q[i + 1].n = q[j].n + 1
    <3>1. PICK j \in E : j < i + 1 /\ q[i + 1].n = q[j].n + 1
      BY <2>2
    <3>2. j - 1 \in F /\ t[j - 1] = q[j] /\ j \in Number
      BY <1>1, <1>2
    <3>. QED BY <2>1, <3>1, <3>2 DEF Number
  <2>3. CASE (\A j \in E : ~(j < i + 1)) /\ (q[i + 1].n = g + 1 \/ lost)
    <3>1. ASSUME NEW k \in F, k < i PROVE FALSE
      BY <1>1, <2>1, <2>3, <3>1 DEF Number
    <3>. QED BY <2>1, <2>3, <3>1
  <2>. QED BY <1>4, <2>1, <2>2, <2>3
<1>8. open => \/ \E i \in F : t[i].n = last
              \/ F = {} /\ (g = last \/ lost)
  BY <1>1, <1>2, <1>4
<1>9. g <= last
  BY DEF EventOrder
<1>. QED BY <1>5, <1>6, <1>7, <1>8, <1>9 DEF EventOrder, F, t

(* The events of a queue with one more entry.                              *)
LEMMA EventsAppend ==
  ASSUME NEW q \in Seq(Events), NEW e \in Events
  PROVE  /\ Len(q) + 1 \in Number
         /\ \A i \in EventsIn(q) : /\ i \in EventsIn(Append(q, e)) /\ i < Len(q) + 1
                                   /\ Append(q, e)[i] = q[i]
         /\ \A i \in EventsIn(Append(q, e)) :
              i \in EventsIn(q) \/ (i = Len(q) + 1 /\ e.id = "event")
         /\ Append(q, e)[Len(q) + 1] = e
         /\ e.id = "event" => Len(q) + 1 \in EventsIn(Append(q, e))
BY Appends DEF EventsIn, Number

(* An event is appended, and the queue may close after it.                 *)
LEMMA EventSent ==
  ASSUME NEW q \in Seq(Events), NEW g \in Nat, NEW last \in Nat,
         NEW lost \in BOOLEAN, NEW open \in BOOLEAN,
         EventOrder(q, g, lost, last, TRUE), NEW e \in Events,
         e.id = "event", e.n = last + 1
  PROVE  EventOrder(Append(q, e), g, lost, last + 1, open)
<1> DEFINE E == EventsIn(q)  F == EventsIn(Append(q, e))  t == Append(q, e)
           l == Len(q) + 1
<1>1. /\ \A i \in E : i \in F /\ i < l /\ t[i] = q[i]
      /\ \A i \in F : i \in E \/ i = l
      /\ l \in F /\ t[l] = e /\ l \in Number
  BY EventsAppend
<1>2. \A i \in E : i \in Number /\ q[i].n \in Number
  BY Numbered
<1>3. /\ g <= last
      /\ \A i \in E : g < q[i].n /\ q[i].n <= last
      /\ \A i, j \in E : i < j => q[i].n < q[j].n
      /\ \A i \in E : \/ \E j \in E : j < i /\ q[i].n = q[j].n + 1
                      \/ /\ \A j \in E : ~(j < i)
                         /\ q[i].n = g + 1 \/ lost
      /\ \/ \E i \in E : q[i].n = last
         \/ E = {} /\ (g = last \/ lost)
  BY DEF EventOrder
<1>. HIDE DEF E, F, t, l
<1>4. g <= last + 1
  BY <1>3
<1>5. \A i \in F : g < t[i].n /\ t[i].n <= last + 1
  BY <1>1, <1>2, <1>3 DEF Number
<1>6. \A i, j \in F : i < j => t[i].n < t[j].n
  BY <1>1, <1>2, <1>3 DEF Number
<1>7. ASSUME NEW i \in F
      PROVE  \/ \E j \in F : j < i /\ t[i].n = t[j].n + 1
             \/ (\A j \in F : ~(j < i)) /\ (t[i].n = g + 1 \/ lost)
  <2>1. CASE i \in E
    <3>1. CASE \E j \in E : j < i /\ q[i].n = q[j].n + 1
      BY <1>1, <2>1, <3>1
    <3>2. CASE (\A j \in E : ~(j < i)) /\ (q[i].n = g + 1 \/ lost)
      BY <1>1, <1>2, <2>1, <3>2 DEF Number
    <3>. QED BY <1>3, <2>1, <3>1, <3>2
  <2>2. CASE i = l
    <3>1. CASE \E j \in E : q[j].n = last
      BY <1>1, <2>2, <3>1
    <3>2. CASE E = {} /\ (g = last \/ lost)
      BY <1>1, <2>2, <3>2 DEF Number
    <3>. QED BY <1>3, <3>1, <3>2
  <2>. QED BY <1>1, <2>1, <2>2
<1>8. \E i \in F : t[i].n = last + 1
  BY <1>1
<1>. QED BY <1>4, <1>5, <1>6, <1>7, <1>8 DEF EventOrder, F, t

(* A reply is appended.                                                    *)
LEMMA EventsOther ==
  ASSUME NEW q \in Seq(Events), NEW e \in Events, e.id # "event",
         NEW g \in Nat, NEW last \in Nat, NEW lost \in BOOLEAN, NEW open \in BOOLEAN,
         EventOrder(q, g, lost, last, open)
  PROVE  EventOrder(Append(q, e), g, lost, last, open)
<1>1. /\ \A i \in EventsIn(q) : /\ i \in EventsIn(Append(q, e))
                               /\ Append(q, e)[i] = q[i]
      /\ \A i \in EventsIn(Append(q, e)) : i \in EventsIn(q)
  BY EventsAppend
<1>2. EventsIn(Append(q, e)) = EventsIn(q)
  BY <1>1
<1>. QED BY <1>1, <1>2 DEF EventOrder

(* What holds of an open queue holds of one that is closed.                *)
LEMMA EventsOpen ==
  ASSUME NEW q, NEW g, NEW last, NEW lost, NEW open,
         EventOrder(q, g, lost, last, TRUE)
  PROVE  EventOrder(q, g, lost, last, open)
BY DEF EventOrder

(* The queue is empty and the client is told that events were lost: any    *)
(* number may come next.                                                   *)
LEMMA EventsLost ==
  ASSUME NEW g \in Nat, NEW last \in Nat, NEW lost \in BOOLEAN, NEW open \in BOOLEAN,
         EventOrder(<<>>, g, lost, last, open)
  PROVE  EventOrder(<<>>, g, TRUE, last, TRUE)
BY DEF EventOrder, EventsIn

(* Replies.                                                                *)
(* Replies and requests when the first one leaves.                         *)
LEMMA RepliesTail ==
  ASSUME NEW q \in Seq(Events), q # <<>>
  PROVE  /\ \A i \in RepliesIn(Tail(q)) : /\ i + 1 \in RepliesIn(q) /\ i \in Number
                                          /\ Tail(q)[i] = q[i + 1]
         /\ \A i \in RepliesIn(q) : i # 1 => /\ i - 1 \in RepliesIn(Tail(q))
                                             /\ Tail(q)[i - 1] = q[i]
BY Tails DEF RepliesIn, Number

LEMMA RequestsTail ==
  ASSUME NEW d \in Seq(Calls), d # <<>>
  PROVE  /\ \A i \in RequestsIn(Tail(d)) : /\ i + 1 \in RequestsIn(d) /\ i \in Number
                                           /\ Tail(d)[i] = d[i + 1]
         /\ \A i \in RequestsIn(d) : i # 1 => /\ i - 1 \in RequestsIn(Tail(d))
                                              /\ Tail(d)[i - 1] = d[i]
BY Tails DEF RequestsIn, Number

(* The replies of a queue with one more entry.                             *)
LEMMA RepliesAppend ==
  ASSUME NEW q \in Seq(Events), NEW e \in Events
  PROVE  /\ Len(q) + 1 \in Number
         /\ \A i \in RepliesIn(q) : /\ i \in RepliesIn(Append(q, e)) /\ i < Len(q) + 1
                                    /\ Append(q, e)[i] = q[i]
         /\ \A i \in RepliesIn(Append(q, e)) :
              i \in RepliesIn(q) \/ (i = Len(q) + 1 /\ e.id = "reply")
         /\ Append(q, e)[Len(q) + 1] = e
         /\ e.id = "reply" => Len(q) + 1 \in RepliesIn(Append(q, e))
BY Appends DEF RepliesIn, Number

(* An event is no reply.                                                   *)
LEMMA RepliesSame ==
  ASSUME NEW q \in Seq(Events), NEW e \in Events, e.id # "reply"
  PROVE  /\ RepliesIn(Append(q, e)) = RepliesIn(q)
         /\ \A i \in RepliesIn(q) : Append(q, e)[i] = q[i]
<1>1. /\ \A i \in RepliesIn(q) : /\ i \in RepliesIn(Append(q, e))
                                 /\ Append(q, e)[i] = q[i]
      /\ \A i \in RepliesIn(Append(q, e)) : i \in RepliesIn(q)
  BY RepliesAppend
<1>. QED BY <1>1

(* The requests of a queue of calls with one more.                         *)
LEMMA RequestsAppend ==
  ASSUME NEW d \in Seq(Calls), NEW c \in Calls
  PROVE  /\ Len(d) + 1 \in Number
         /\ \A i \in RequestsIn(d) : /\ i \in RequestsIn(Append(d, c)) /\ i < Len(d) + 1
                                     /\ Append(d, c)[i] = d[i]
         /\ \A i \in RequestsIn(Append(d, c)) :
              i \in RequestsIn(d) \/ (i = Len(d) + 1 /\ c.fn = "request")
         /\ Append(d, c)[Len(d) + 1] = c
         /\ c.fn = "request" => Len(d) + 1 \in RequestsIn(Append(d, c))
BY Appends DEF RequestsIn, Number

(* The first reply is told: it is the next one.                            *)
LEMMA ReplyTold ==
  ASSUME NEW q \in Seq(Events), q # <<>>, NEW d \in Seq(Calls),
         NEW g \in Nat, NEW last \in Nat, ReplyOrder(q, d, g, last),
         1 \in RepliesIn(q)
  PROVE  q[1].n = g + 1 /\ ReplyOrder(Tail(q), d, q[1].n, last)
<1> DEFINE Q == RepliesIn(q)  F == RepliesIn(Tail(q))  t == Tail(q)
           D == RequestsIn(d)
<1>1. /\ \A i \in F : i + 1 \in Q /\ i \in Number /\ t[i] = q[i + 1]
      /\ \A i \in Q : i # 1 => i - 1 \in F /\ t[i - 1] = q[i]
  BY RepliesTail
<1>2. \A i \in Q : i \in Number /\ q[i].n \in Number
  BY Numbered
<1>3. \A i \in D : i \in Number /\ d[i].n \in Number
  BY NumberedRequests
<1>4. 1 \in Q
  OBVIOUS
<1>5. /\ \A i \in Q : g < q[i].n /\ q[i].n <= last
      /\ \A i \in D : g < d[i].n /\ d[i].n <= last
      /\ \A i, j \in Q : i < j => q[i].n < q[j].n
      /\ \A i, j \in D : i < j => d[i].n < d[j].n
      /\ \A i \in Q, j \in D : q[i].n < d[j].n
      /\ \A i \in Q : q[i].n = g + 1 \/ \E j \in Q : j < i /\ q[i].n = q[j].n + 1
      /\ \A i \in D : \/ d[i].n = g + 1
                      \/ \E j \in Q : d[i].n = q[j].n + 1
                      \/ \E j \in D : j < i /\ d[i].n = d[j].n + 1
      /\ g = last \/ (\E i \in Q : q[i].n = last) \/ (\E i \in D : d[i].n = last)
  BY DEF ReplyOrder
<1>. HIDE DEF Q, F, t, D
<1>6. q[1].n = g + 1
  <2>1. ASSUME NEW j \in Q, j < 1 PROVE FALSE
    BY <1>2, <2>1 DEF Number
  <2>. QED BY <1>4, <1>5, <2>1
<1>7. q[1].n <= last
  BY <1>4, <1>5
<1>8. \A i \in F : q[1].n < t[i].n /\ t[i].n <= last
  BY <1>1, <1>4, <1>5 DEF Number
<1>9. \A i \in D : q[1].n < d[i].n /\ d[i].n <= last
  BY <1>4, <1>5
<1>10. ASSUME NEW i \in F, NEW j \in F, i < j PROVE t[i].n < t[j].n
  <2>1. /\ i + 1 \in Q /\ j + 1 \in Q /\ i + 1 < j + 1
        /\ t[i] = q[i + 1] /\ t[j] = q[j + 1]
    BY <1>1, <1>10 DEF Number
  <2>. QED BY <1>5, <2>1
<1>11. \A i \in F, j \in D : t[i].n < d[j].n
  BY <1>1, <1>5
<1>12. ASSUME NEW i \in F
       PROVE  t[i].n = q[1].n + 1 \/ \E j \in F : j < i /\ t[i].n = t[j].n + 1
  <2>1. i + 1 \in Q /\ i \in Number /\ t[i] = q[i + 1] /\ q[1].n < t[i].n
    BY <1>1, <1>8
  <2>2. PICK j \in Q : j < i + 1 /\ q[i + 1].n = q[j].n + 1
    BY <1>2, <1>4, <1>5, <1>6, <2>1
  <2>3. CASE j = 1
    BY <2>1, <2>2, <2>3
  <2>4. CASE j # 1
    <3>1. j - 1 \in F /\ t[j - 1] = q[j] /\ j \in Number
      BY <1>1, <1>2, <2>4
    <3>. QED BY <2>1, <2>2, <3>1 DEF Number
  <2>. QED BY <2>3, <2>4
<1>13. ASSUME NEW i \in D
       PROVE  \/ d[i].n = q[1].n + 1
              \/ \E j \in F : d[i].n = t[j].n + 1
              \/ \E j \in D : j < i /\ d[i].n = d[j].n + 1
  <2>1. CASE d[i].n = g + 1
    BY <1>6, <1>9, <2>1, <1>3, <1>2
  <2>2. CASE \E j \in Q : d[i].n = q[j].n + 1
    BY <1>1, <2>2
  <2>3. CASE \E j \in D : j < i /\ d[i].n = d[j].n + 1
    BY <2>3
  <2>. QED BY <1>5, <2>1, <2>2, <2>3
<1>14. q[1].n = last \/ (\E i \in F : t[i].n = last) \/ (\E i \in D : d[i].n = last)
  <2>1. CASE g = last
    BY <1>6, <1>7, <2>1
  <2>2. CASE \E i \in Q : q[i].n = last
    BY <1>1, <2>2
  <2>3. CASE \E i \in D : d[i].n = last
    BY <2>3
  <2>. QED BY <1>5, <2>1, <2>2, <2>3
<1>. QED BY <1>5, <1>6, <1>7, <1>8, <1>9, <1>10, <1>11, <1>12, <1>13, <1>14
         DEF ReplyOrder, F, t, D

(* Something else than a reply is told.                                    *)
LEMMA ReplySkipped ==
  ASSUME NEW q \in Seq(Events), q # <<>>, NEW d \in Seq(Calls),
         NEW g \in Nat, NEW last \in Nat, ReplyOrder(q, d, g, last),
         1 \notin RepliesIn(q)
  PROVE  ReplyOrder(Tail(q), d, g, last)
<1> DEFINE Q == RepliesIn(q)  F == RepliesIn(Tail(q))  t == Tail(q)
           D == RequestsIn(d)
<1>1. /\ \A i \in F : i + 1 \in Q /\ i \in Number /\ t[i] = q[i + 1]
      /\ \A i \in Q : i # 1 => i - 1 \in F /\ t[i - 1] = q[i]
  BY RepliesTail
<1>2. \A i \in Q : i \in Number /\ i # 1
  BY Numbered
<1>3. /\ \A i \in Q : g < q[i].n /\ q[i].n <= last
      /\ \A i, j \in Q : i < j => q[i].n < q[j].n
      /\ \A i \in Q, j \in D : q[i].n < d[j].n
      /\ \A i \in Q : q[i].n = g + 1 \/ \E j \in Q : j < i /\ q[i].n = q[j].n + 1
      /\ \A i \in D : \/ d[i].n = g + 1
                      \/ \E j \in Q : d[i].n = q[j].n + 1
                      \/ \E j \in D : j < i /\ d[i].n = d[j].n + 1
      /\ g = last \/ (\E i \in Q : q[i].n = last) \/ (\E i \in D : d[i].n = last)
  BY DEF ReplyOrder
<1>4. \A j \in Q : j - 1 \in F /\ t[j - 1] = q[j]
  BY <1>1, <1>2
<1>. HIDE DEF Q, F, t, D
<1>5. \A i \in F : g < t[i].n /\ t[i].n <= last
  BY <1>1, <1>3
<1>6. ASSUME NEW i \in F, NEW j \in F, i < j PROVE t[i].n < t[j].n
  <2>1. /\ i + 1 \in Q /\ j + 1 \in Q /\ i + 1 < j + 1
        /\ t[i] = q[i + 1] /\ t[j] = q[j + 1]
    BY <1>1, <1>6 DEF Number
  <2>. QED BY <1>3, <2>1
<1>7. \A i \in F, j \in D : t[i].n < d[j].n
  BY <1>1, <1>3
<1>8. ASSUME NEW i \in F
      PROVE  t[i].n = g + 1 \/ \E j \in F : j < i /\ t[i].n = t[j].n + 1
  <2>1. i + 1 \in Q /\ i \in Number /\ t[i] = q[i + 1]
    BY <1>1
  <2>2. CASE \E j \in Q : j < i + 1 /\ q[i + 1].n = q[j].n + 1
    <3>1. PICK j \in Q : j < i + 1 /\ q[i + 1].n = q[j].n + 1
      BY <2>2
    <3>2. j - 1 \in F /\ t[j - 1] = q[j] /\ j \in Number
      BY <1>2, <1>4
    <3>. QED BY <2>1, <3>1, <3>2 DEF Number
  <2>. QED BY <1>3, <2>1, <2>2
<1>9. ASSUME NEW x, \E j \in Q : x = q[j].n + 1 PROVE \E j \in F : x = t[j].n + 1
  BY <1>4, <1>9
<1>10. ASSUME NEW x, \E j \in Q : q[j].n = x PROVE \E j \in F : t[j].n = x
  BY <1>4, <1>10
<1>11. ASSUME NEW i \in D
       PROVE  \/ d[i].n = g + 1
              \/ \E j \in F : d[i].n = t[j].n + 1
              \/ \E j \in D : j < i /\ d[i].n = d[j].n + 1
  <2>1. CASE \E j \in Q : d[i].n = q[j].n + 1
    BY <1>9, <2>1
  <2>. QED BY <1>3, <2>1
<1>12. g = last \/ (\E i \in F : t[i].n = last) \/ (\E i \in D : d[i].n = last)
  BY <1>3, <1>10
<1>13. /\ g <= last
       /\ \A i \in D : g < d[i].n /\ d[i].n <= last
       /\ \A i, j \in D : i < j => d[i].n < d[j].n
  BY DEF ReplyOrder, D
<1>. QED BY <1>5, <1>6, <1>7, <1>8, <1>11, <1>12, <1>13 DEF ReplyOrder, F, t, D

(* A request is queued after all others.                                   *)
LEMMA RequestSent ==
  ASSUME NEW q \in Seq(Events), NEW d \in Seq(Calls),
         NEW g \in Nat, NEW last \in Nat, ReplyOrder(q, d, g, last),
         NEW c \in Calls, c.fn = "request", c.n = last + 1
  PROVE  ReplyOrder(q, Append(d, c), g, last + 1)
<1> DEFINE D == RequestsIn(d)  F == RequestsIn(Append(d, c))  t == Append(d, c)
           l == Len(d) + 1  Q == RepliesIn(q)
<1>1. /\ \A i \in D : i \in F /\ i < l /\ t[i] = d[i]
      /\ \A i \in F : i \in D \/ i = l
      /\ l \in F /\ t[l] = c /\ l \in Number
  BY RequestsAppend
<1>2. /\ \A i \in D : i \in Number /\ d[i].n \in Number
      /\ \A i \in Q : i \in Number /\ q[i].n \in Number
  BY Numbered, NumberedRequests
<1>3. /\ g <= last
      /\ \A i \in Q : g < q[i].n /\ q[i].n <= last
      /\ \A i \in D : g < d[i].n /\ d[i].n <= last
      /\ \A i, j \in Q : i < j => q[i].n < q[j].n
      /\ \A i, j \in D : i < j => d[i].n < d[j].n
      /\ \A i \in Q, j \in D : q[i].n < d[j].n
      /\ \A i \in Q : q[i].n = g + 1 \/ \E j \in Q : j < i /\ q[i].n = q[j].n + 1
      /\ \A i \in D : \/ d[i].n = g + 1
                      \/ \E j \in Q : d[i].n = q[j].n + 1
                      \/ \E j \in D : j < i /\ d[i].n = d[j].n + 1
      /\ g = last \/ (\E i \in Q : q[i].n = last) \/ (\E i \in D : d[i].n = last)
  BY DEF ReplyOrder
<1>. HIDE DEF D, F, t, l, Q
<1>4. \A i \in Q : g < q[i].n /\ q[i].n <= last + 1
  BY <1>2, <1>3 DEF Number
<1>5. ASSUME NEW i \in F PROVE g < t[i].n /\ t[i].n <= last + 1
  <2>1. CASE i \in D
    BY <1>1, <1>2, <1>3, <2>1 DEF Number
  <2>2. CASE i = l
    BY <1>1, <1>3, <2>2
  <2>. QED BY <1>1, <2>1, <2>2
<1>6. ASSUME NEW i \in F, NEW j \in F, i < j PROVE t[i].n < t[j].n
  <2>1. i \in D
    BY <1>1, <1>2, <1>6 DEF Number
  <2>2. CASE j \in D
    BY <1>1, <1>3, <1>6, <2>1, <2>2
  <2>3. CASE j = l
    BY <1>1, <1>2, <1>3, <2>1, <2>3 DEF Number
  <2>. QED BY <1>1, <2>2, <2>3
<1>7. ASSUME NEW i \in Q, NEW j \in F PROVE q[i].n < t[j].n
  <2>1. CASE j \in D
    BY <1>1, <1>3, <2>1
  <2>2. CASE j = l
    BY <1>1, <1>2, <1>3, <2>2 DEF Number
  <2>. QED BY <1>1, <2>1, <2>2
<1>8. ASSUME NEW i \in F
      PROVE  \/ t[i].n = g + 1
             \/ \E j \in Q : t[i].n = q[j].n + 1
             \/ \E j \in F : j < i /\ t[i].n = t[j].n + 1
  <2>1. CASE i \in D
    <3>1. CASE \E j \in D : j < i /\ d[i].n = d[j].n + 1
      <4>1. PICK j \in D : j < i /\ d[i].n = d[j].n + 1
        BY <3>1
      <4>. QED BY <1>1, <2>1, <4>1
    <3>. QED BY <1>1, <1>3, <2>1, <3>1
  <2>2. CASE i = l
    <3>1. CASE g = last
      BY <1>1, <2>2, <3>1
    <3>2. CASE \E j \in Q : q[j].n = last
      BY <1>1, <2>2, <3>2
    <3>3. CASE \E j \in D : d[j].n = last
      BY <1>1, <2>2, <3>3
    <3>. QED BY <1>3, <3>1, <3>2, <3>3
  <2>. QED BY <1>1, <2>1, <2>2
<1>9. g <= last + 1 /\ \E i \in F : t[i].n = last + 1
  BY <1>1, <1>3
<1>. QED BY <1>3, <1>4, <1>5, <1>6, <1>7, <1>8, <1>9 DEF ReplyOrder, F, t, Q

(* The first request becomes the last reply.                               *)
LEMMA RequestAnswered ==
  ASSUME NEW q \in Seq(Events), NEW d \in Seq(Calls), d # <<>>,
         NEW g \in Nat, NEW last \in Nat, ReplyOrder(q, d, g, last),
         1 \in RequestsIn(d), NEW e \in Events, e.id = "reply", e.n = d[1].n
  PROVE  ReplyOrder(Append(q, e), Tail(d), g, last)
<1> DEFINE D == RequestsIn(d)  T == RequestsIn(Tail(d))  u == Tail(d)
           Q == RepliesIn(q)  F == RepliesIn(Append(q, e))  t == Append(q, e)
           l == Len(q) + 1
<1>1. /\ \A i \in Q : i \in F /\ i < l /\ t[i] = q[i]
      /\ \A i \in F : i \in Q \/ i = l
      /\ l \in F /\ t[l] = e /\ l \in Number
  BY RepliesAppend
<1>2. /\ \A i \in T : i + 1 \in D /\ i \in Number /\ u[i] = d[i + 1]
      /\ \A i \in D : i # 1 => i - 1 \in T /\ u[i - 1] = d[i]
  BY RequestsTail
<1>3. /\ \A i \in D : i \in Number /\ d[i].n \in Number
      /\ \A i \in Q : i \in Number /\ q[i].n \in Number
  BY Numbered, NumberedRequests
<1>4. /\ g <= last
      /\ \A i \in Q : g < q[i].n /\ q[i].n <= last
      /\ \A i \in D : g < d[i].n /\ d[i].n <= last
      /\ \A i, j \in Q : i < j => q[i].n < q[j].n
      /\ \A i, j \in D : i < j => d[i].n < d[j].n
      /\ \A i \in Q, j \in D : q[i].n < d[j].n
      /\ \A i \in Q : q[i].n = g + 1 \/ \E j \in Q : j < i /\ q[i].n = q[j].n + 1
      /\ \A i \in D : \/ d[i].n = g + 1
                      \/ \E j \in Q : d[i].n = q[j].n + 1
                      \/ \E j \in D : j < i /\ d[i].n = d[j].n + 1
      /\ g = last \/ (\E i \in Q : q[i].n = last) \/ (\E i \in D : d[i].n = last)
      /\ 1 \in D
  BY DEF ReplyOrder
<1>. HIDE DEF D, T, u, Q, F, t, l
<1>5. \A i \in F : g < t[i].n /\ t[i].n <= last
  BY <1>1, <1>4
<1>6. \A i \in T : g < u[i].n /\ u[i].n <= last
  BY <1>2, <1>4
<1>7. ASSUME NEW i \in F, NEW j \in F, i < j PROVE t[i].n < t[j].n
  <2>1. i \in Q
    BY <1>1, <1>3, <1>7 DEF Number
  <2>2. CASE j \in Q
    BY <1>1, <1>4, <1>7, <2>1, <2>2
  <2>3. CASE j = l
    BY <1>1, <1>4, <2>1, <2>3
  <2>. QED BY <1>1, <2>2, <2>3
<1>8. ASSUME NEW i \in T, NEW j \in T, i < j PROVE u[i].n < u[j].n
  <2>1. i + 1 \in D /\ j + 1 \in D /\ i + 1 < j + 1
    BY <1>2, <1>8 DEF Number
  <2>2. d[i + 1].n < d[j + 1].n
    BY <1>4, <2>1
  <2>. QED BY <1>2, <2>2
<1>9. ASSUME NEW i \in F, NEW j \in T PROVE t[i].n < u[j].n
  <2>1. j + 1 \in D /\ 1 < j + 1 /\ u[j] = d[j + 1]
    BY <1>2 DEF Number
  <2>2. CASE i \in Q
    BY <1>1, <1>4, <2>1, <2>2
  <2>3. CASE i = l
    BY <1>1, <1>4, <2>1, <2>3
  <2>. QED BY <1>1, <2>2, <2>3
<1>10. ASSUME NEW i \in F
       PROVE  t[i].n = g + 1 \/ \E j \in F : j < i /\ t[i].n = t[j].n + 1
  <2>1. CASE i \in Q
    BY <1>1, <1>4, <2>1
  <2>2. CASE i = l
    <3>1. ASSUME NEW j \in D, j < 1 PROVE FALSE
      BY <1>3, <3>1 DEF Number
    <3>2. d[1].n = g + 1 \/ \E j \in Q : d[1].n = q[j].n + 1
      BY <1>4, <3>1
    <3>. QED BY <1>1, <2>2, <3>2
  <2>. QED BY <1>1, <2>1, <2>2
<1>11. ASSUME NEW i \in T
       PROVE  \/ u[i].n = g + 1
              \/ \E j \in F : u[i].n = t[j].n + 1
              \/ \E j \in T : j < i /\ u[i].n = u[j].n + 1
  <2>1. i + 1 \in D /\ i \in Number /\ u[i] = d[i + 1]
    BY <1>2
  <2>2. CASE \E j \in Q : d[i + 1].n = q[j].n + 1
    BY <1>1, <2>1, <2>2
  <2>3. CASE \E j \in D : j < i + 1 /\ d[i + 1].n = d[j].n + 1
    <3>1. PICK j \in D : j < i + 1 /\ d[i + 1].n = d[j].n + 1
      BY <2>3
    <3>2. CASE j = 1
      BY <1>1, <2>1, <3>1, <3>2
    <3>3. CASE j # 1
      <4>1. j - 1 \in T /\ u[j - 1] = d[j] /\ j \in Number
        BY <1>2, <1>3, <3>3
      <4>2. j - 1 < i
        BY <2>1, <3>1, <4>1 DEF Number
      <4>3. u[i].n = u[j - 1].n + 1
        BY <2>1, <3>1, <4>1
      <4>. QED BY <4>1, <4>2, <4>3
    <3>. QED BY <3>2, <3>3
  <2>. QED BY <1>4, <2>1, <2>2, <2>3
<1>12. g = last \/ (\E i \in F : t[i].n = last) \/ (\E i \in T : u[i].n = last)
  <2>1. CASE \E i \in Q : q[i].n = last
    BY <1>1, <2>1
  <2>2. CASE \E i \in D : d[i].n = last
    BY <1>1, <1>2, <2>2
  <2>. QED BY <1>4, <2>1, <2>2
<1>. QED BY <1>4, <1>5, <1>6, <1>7, <1>8, <1>9, <1>10, <1>11, <1>12
         DEF ReplyOrder, F, t, T, u

(* Queues with the same replies.                                           *)
LEMMA RepliesOther ==
  ASSUME NEW q, NEW q2, NEW d, NEW g, NEW last, ReplyOrder(q, d, g, last),
         RepliesIn(q2) = RepliesIn(q), \A i \in RepliesIn(q) : q2[i] = q[i]
  PROVE  ReplyOrder(q2, d, g, last)
BY DEF ReplyOrder

(* Queues with the same requests.                                          *)
LEMMA RequestsOther ==
  ASSUME NEW q, NEW d, NEW d2, NEW g, NEW last, ReplyOrder(q, d, g, last),
         RequestsIn(d2) = RequestsIn(d), \A i \in RequestsIn(d) : d2[i] = d[i]
  PROVE  ReplyOrder(q, d2, g, last)
BY DEF ReplyOrder

(* The core makes another call than a request.                             *)
LEMMA RequestsShifted ==
  ASSUME NEW q \in Seq(Events), NEW d \in Seq(Calls), d # <<>>,
         NEW g \in Nat, NEW last \in Nat, ReplyOrder(q, d, g, last),
         1 \notin RequestsIn(d)
  PROVE  ReplyOrder(q, Tail(d), g, last)
<1> DEFINE D == RequestsIn(d)  T == RequestsIn(Tail(d))  u == Tail(d)
           Q == RepliesIn(q)
<1>1. /\ \A i \in T : i + 1 \in D /\ i \in Number /\ u[i] = d[i + 1]
      /\ \A i \in D : i # 1 => i - 1 \in T /\ u[i - 1] = d[i]
  BY RequestsTail
<1>2. \A i \in D : i \in Number /\ i # 1 /\ i - 1 \in T /\ u[i - 1] = d[i]
  BY <1>1, NumberedRequests
<1>3. /\ \A i \in D : g < d[i].n /\ d[i].n <= last
      /\ \A i, j \in D : i < j => d[i].n < d[j].n
      /\ \A i \in Q, j \in D : q[i].n < d[j].n
      /\ \A i \in D : \/ d[i].n = g + 1
                      \/ \E j \in Q : d[i].n = q[j].n + 1
                      \/ \E j \in D : j < i /\ d[i].n = d[j].n + 1
      /\ g = last \/ (\E i \in Q : q[i].n = last) \/ (\E i \in D : d[i].n = last)
  BY DEF ReplyOrder
<1>. HIDE DEF D, T, u, Q
<1>4. \A i \in T : g < u[i].n /\ u[i].n <= last
  BY <1>1, <1>3
<1>5. \A i, j \in T : i < j => u[i].n < u[j].n
  BY <1>1, <1>3 DEF Number
<1>6. \A i \in Q, j \in T : q[i].n < u[j].n
  BY <1>1, <1>3
<1>7. ASSUME NEW i \in T
      PROVE  \/ u[i].n = g + 1
             \/ \E j \in Q : u[i].n = q[j].n + 1
             \/ \E j \in T : j < i /\ u[i].n = u[j].n + 1
  <2>1. i + 1 \in D /\ i \in Number /\ u[i] = d[i + 1]
    BY <1>1
  <2>2. CASE \E j \in D : j < i + 1 /\ d[i + 1].n = d[j].n + 1
    <3>1. PICK j \in D : j < i + 1 /\ d[i + 1].n = d[j].n + 1
      BY <2>2
    <3>2. j - 1 \in T /\ u[j - 1] = d[j] /\ j \in Number
      BY <1>2
    <3>. QED BY <2>1, <3>1, <3>2 DEF Number
  <2>. QED BY <1>3, <2>1, <2>2
<1>8. g = last \/ (\E i \in Q : q[i].n = last) \/ (\E i \in T : u[i].n = last)
  BY <1>2, <1>3
<1>. QED BY <1>4, <1>5, <1>6, <1>7, <1>8 DEF ReplyOrder, T, u, Q

(* Log messages.                                                           *)
(* The messages when the first one leaves.                                 *)
LEMMA LogTail ==
  ASSUME NEW m \in Seq(Nat), m # <<>>
  PROVE  /\ Len(m) \in Nat \ {0} /\ 1 \in DOMAIN m /\ DOMAIN m = 1 .. Len(m)
         /\ DOMAIN Tail(m) = 1 .. Len(m) - 1 /\ Len(Tail(m)) = Len(m) - 1
         /\ \A i \in 1 .. Len(m) - 1 : Tail(m)[i] = m[i + 1]
         /\ \A i \in 1 .. Len(m) : m[i] \in Nat
         /\ (Tail(m) = <<>>) <=> Len(m) = 1
<1>1. /\ Len(m) \in Nat \ {0} /\ DOMAIN m = 1 .. Len(m)
      /\ \A i \in 1 .. Len(m) : m[i] \in Nat
  OBVIOUS
<1>2. Tail(m) \in Seq(Nat) /\ Len(Tail(m)) = Len(m) - 1
  OBVIOUS
<1>3. DOMAIN Tail(m) = 1 .. Len(m) - 1
  BY <1>2
<1>4. \A i \in 1 .. Len(m) - 1 : Tail(m)[i] = m[i + 1]
  BY <1>1
<1>5. (Tail(m) = <<>>) <=> Len(m) = 1
  BY <1>1, <1>2
<1>. QED BY <1>1, <1>2, <1>3, <1>4, <1>5

(* The first message is told: it is the next, or others were lost.         *)
LEMMA LogTold ==
  ASSUME NEW m \in Seq(Nat), m # <<>>, NEW g \in Nat, NEW last \in Nat,
         NEW lost \in BOOLEAN, LogOrder(m, g, lost, last), m[1] # 0,
         NEW free \in BOOLEAN
  PROVE  LogOrder(Tail(m), m[1], free, last) /\ g < m[1] /\ (m[1] = g + 1 \/ lost)
<1> DEFINE t == Tail(m)  n == Len(m)
<1>1. /\ n \in Nat \ {0} /\ 1 \in DOMAIN m /\ DOMAIN m = 1 .. n
      /\ DOMAIN t = 1 .. n - 1 /\ Len(t) = n - 1
      /\ \A i \in 1 .. n - 1 : t[i] = m[i + 1]
      /\ \A i \in 1 .. n : m[i] \in Nat
      /\ (t = <<>>) <=> n = 1
  BY LogTail
<1>2. /\ \A i \in DOMAIN m : m[i] # 0 =>
           /\ g < m[i] /\ m[i] <= last
           /\ i = 1 => m[i] = g + 1 \/ lost
           /\ i > 1 => m[i - 1] = 0 \/ m[i] = m[i - 1] + 1
      /\ \A i, j \in DOMAIN m : i < j /\ m[i] # 0 /\ m[j] # 0 => m[i] < m[j]
      /\ m[n] = 0 \/ m[n] = last
  BY DEF LogOrder
<1>. HIDE DEF t, n
<1>3. g < m[1] /\ m[1] <= last /\ (m[1] = g + 1 \/ lost)
  BY <1>1, <1>2
<1>4. ASSUME NEW i \in DOMAIN t, t[i] # 0
      PROVE  /\ m[1] < t[i] /\ t[i] <= last
             /\ i = 1 => t[i] = m[1] + 1
             /\ i > 1 => t[i - 1] = 0 \/ t[i] = t[i - 1] + 1
  <2>1. i \in 1 .. n - 1 /\ i + 1 \in 1 .. n /\ t[i] = m[i + 1] /\ 1 < i + 1
    BY <1>1
  <2>2. m[1] < t[i] /\ t[i] <= last
    BY <1>1, <1>2, <1>4, <2>1
  <2>3. m[i] = 0 \/ m[i + 1] = m[i] + 1
    <3>1. i + 1 > 1 /\ (i + 1) - 1 = i
      BY <2>1
    <3>. QED BY <1>1, <1>2, <1>4, <2>1, <3>1
  <2>4. ASSUME i > 1 PROVE t[i - 1] = m[i]
    <3>1. i - 1 \in 1 .. n - 1 /\ (i - 1) + 1 = i
      BY <1>1, <2>1, <2>4
    <3>. QED BY <1>1, <3>1
  <2>. QED BY <2>1, <2>2, <2>3, <2>4
<1>5. ASSUME NEW i \in DOMAIN t, NEW j \in DOMAIN t, i < j, t[i] # 0, t[j] # 0
      PROVE  t[i] < t[j]
  <2>1. i \in 1 .. n - 1 /\ j \in 1 .. n - 1 /\ n \in Nat
    BY <1>1
  <2>2. i + 1 \in 1 .. n /\ j + 1 \in 1 .. n /\ i + 1 < j + 1
    BY <1>5, <2>1
  <2>3. t[i] = m[i + 1] /\ t[j] = m[j + 1]
    BY <1>1, <2>1
  <2>. QED BY <1>1, <1>2, <1>5, <2>2, <2>3
<1>6. t = <<>> => m[1] = last
  BY <1>1, <1>2
<1>7. t # <<>> => t[Len(t)] = 0 \/ t[Len(t)] = last
  <2>1. t # <<>> => Len(t) \in 1 .. n - 1 /\ t[Len(t)] = m[n]
    BY <1>1
  <2>. QED BY <1>2, <2>1
<1>. QED BY <1>3, <1>4, <1>5, <1>6, <1>7 DEF LogOrder, t

(* The client is told that messages were lost.                             *)
LEMMA LogLost ==
  ASSUME NEW m \in Seq(Nat), m # <<>>, NEW g \in Nat, NEW last \in Nat,
         NEW lost \in BOOLEAN, LogOrder(m, g, lost, last), m[1] = 0
  PROVE  LogOrder(Tail(m), g, TRUE, last)
<1> DEFINE t == Tail(m)  n == Len(m)
<1>1. /\ n \in Nat \ {0} /\ 1 \in DOMAIN m /\ DOMAIN m = 1 .. n
      /\ DOMAIN t = 1 .. n - 1 /\ Len(t) = n - 1
      /\ \A i \in 1 .. n - 1 : t[i] = m[i + 1]
      /\ \A i \in 1 .. n : m[i] \in Nat
      /\ (t = <<>>) <=> n = 1
  BY LogTail
<1>2. /\ g <= last
      /\ \A i \in DOMAIN m : m[i] # 0 =>
           /\ g < m[i] /\ m[i] <= last
           /\ i > 1 => m[i - 1] = 0 \/ m[i] = m[i - 1] + 1
      /\ \A i, j \in DOMAIN m : i < j /\ m[i] # 0 /\ m[j] # 0 => m[i] < m[j]
      /\ m[n] = 0 \/ m[n] = last
  BY DEF LogOrder
<1>. HIDE DEF t, n
<1>4. ASSUME NEW i \in DOMAIN t, t[i] # 0
      PROVE  /\ g < t[i] /\ t[i] <= last
             /\ i > 1 => t[i - 1] = 0 \/ t[i] = t[i - 1] + 1
  <2>1. i \in 1 .. n - 1 /\ i + 1 \in 1 .. n /\ t[i] = m[i + 1] /\ 1 < i + 1
    BY <1>1
  <2>2. g < t[i] /\ t[i] <= last
    BY <1>1, <1>2, <1>4, <2>1
  <2>3. m[i] = 0 \/ m[i + 1] = m[i] + 1
    <3>1. i + 1 > 1 /\ (i + 1) - 1 = i
      BY <2>1
    <3>. QED BY <1>1, <1>2, <1>4, <2>1, <3>1
  <2>4. i > 1 => t[i - 1] = m[i]
    BY <1>1, <2>1
  <2>. QED BY <2>1, <2>2, <2>3, <2>4
<1>5. ASSUME NEW i \in DOMAIN t, NEW j \in DOMAIN t, i < j, t[i] # 0, t[j] # 0
      PROVE  t[i] < t[j]
  <2>1. i \in 1 .. n - 1 /\ j \in 1 .. n - 1 /\ n \in Nat
    BY <1>1
  <2>2. i + 1 \in 1 .. n /\ j + 1 \in 1 .. n /\ i + 1 < j + 1
    BY <1>5, <2>1
  <2>3. t[i] = m[i + 1] /\ t[j] = m[j + 1]
    BY <1>1, <2>1
  <2>. QED BY <1>1, <1>2, <1>5, <2>2, <2>3
<1>7. t # <<>> => t[Len(t)] = 0 \/ t[Len(t)] = last
  <2>1. t # <<>> => Len(t) \in 1 .. n - 1 /\ t[Len(t)] = m[n]
    BY <1>1
  <2>. QED BY <1>2, <2>1
<1>. QED BY <1>2, <1>4, <1>5, <1>7 DEF LogOrder, t

(* A message is added, or the one that says that others were lost.         *)
LEMMA LogAdded ==
  ASSUME NEW m \in Seq(Nat), NEW g \in Nat, NEW last \in Nat, NEW lost \in BOOLEAN,
         LogOrder(m, g, lost, last), NEW e \in {0, last + 1}
  PROVE  LogOrder(Append(m, e), g, lost, last + 1)
<1> DEFINE t == Append(m, e)  n == Len(m)
<1>1. /\ n \in Nat /\ DOMAIN m = 1 .. n
      /\ DOMAIN t = 1 .. n + 1 /\ Len(t) = n + 1 /\ t # <<>>
      /\ \A i \in 1 .. n : t[i] = m[i]
      /\ t[n + 1] = e
      /\ \A i \in 1 .. n : m[i] \in Nat
      /\ (m = <<>>) <=> n = 0
  OBVIOUS
<1>2. /\ g <= last
      /\ \A i \in DOMAIN m : m[i] # 0 =>
           /\ g < m[i] /\ m[i] <= last
           /\ i = 1 => m[i] = g + 1 \/ lost
           /\ i > 1 => m[i - 1] = 0 \/ m[i] = m[i - 1] + 1
      /\ \A i, j \in DOMAIN m : i < j /\ m[i] # 0 /\ m[j] # 0 => m[i] < m[j]
      /\ m = <<>> => g = last \/ lost
      /\ m # <<>> => m[n] = 0 \/ m[n] = last
  BY DEF LogOrder
<1>. HIDE DEF t, n
<1>3. ASSUME NEW i \in DOMAIN t, t[i] # 0
      PROVE  /\ g < t[i] /\ t[i] <= last + 1
             /\ i = 1 => t[i] = g + 1 \/ lost
             /\ i > 1 => t[i - 1] = 0 \/ t[i] = t[i - 1] + 1
  <2>1. CASE i \in 1 .. n
    <3>1. t[i] = m[i] /\ (i > 1 => t[i - 1] = m[i - 1])
      BY <1>1, <2>1
    <3>2. /\ g < m[i] /\ m[i] <= last
          /\ i = 1 => m[i] = g + 1 \/ lost
          /\ i > 1 => m[i - 1] = 0 \/ m[i] = m[i - 1] + 1
      BY <1>1, <1>2, <1>3, <2>1, <3>1
    <3>3. m[i] \in Nat
      BY <1>1, <2>1
    <3>. QED BY <3>1, <3>2, <3>3
  <2>2. CASE i = n + 1
    <3>1. t[i] = last + 1
      BY <1>1, <1>3, <2>2
    <3>2. CASE n = 0
      BY <1>1, <1>2, <2>2, <3>1, <3>2
    <3>3. CASE n # 0
      <4>1. t[i - 1] = m[n] /\ i > 1
        BY <1>1, <2>2, <3>3
      <4>2. m[n] = 0 \/ m[n] = last
        BY <1>1, <1>2, <3>3
      <4>. QED BY <1>1, <1>2, <2>2, <3>1, <3>3, <4>1, <4>2
    <3>. QED BY <3>2, <3>3
  <2>. QED BY <1>1, <2>1, <2>2
<1>4. ASSUME NEW i \in DOMAIN t, NEW j \in DOMAIN t, i < j, t[i] # 0, t[j] # 0
      PROVE  t[i] < t[j]
  <2>1. i \in 1 .. n /\ t[i] = m[i]
    BY <1>1, <1>4
  <2>2. CASE j \in 1 .. n
    BY <1>1, <1>2, <1>4, <2>1, <2>2
  <2>3. CASE j = n + 1
    <3>1. t[j] = last + 1 /\ m[i] <= last /\ m[i] \in Nat
      BY <1>1, <1>2, <1>4, <2>1, <2>3
    <3>. QED BY <2>1, <3>1
  <2>. QED BY <1>1, <2>2, <2>3
<1>5. t[Len(t)] = 0 \/ t[Len(t)] = last + 1
  BY <1>1
<1>6. g <= last + 1 /\ t # <<>>
  BY <1>1, <1>2
<1>. QED BY <1>3, <1>4, <1>5, <1>6 DEF LogOrder, t

(* A message is dropped that the last entry stands for.                    *)
LEMMA LogDropped ==
  ASSUME NEW m \in Seq(Nat), m # <<>>, m[Len(m)] = 0, NEW g \in Nat,
         NEW last \in Nat, NEW lost \in BOOLEAN, LogOrder(m, g, lost, last)
  PROVE  LogOrder(m, g, lost, last + 1)
<1>1. \A i \in DOMAIN m : m[i] \in Nat
  OBVIOUS
<1>. QED BY <1>1 DEF LogOrder

(* A set of natural numbers has a least element.                           *)
LEMMA LeastNumber ==
  ASSUME NEW T \in SUBSET Nat, T # {}
  PROVE  Min(T) \in T /\ \A y \in T : Min(T) <= y
<1> DEFINE R == OpToRel(<, Nat)
<1>1. \A y, x \in Nat : y < x => <<y, x>> \in R
  BY DEF OpToRel
<1>2. IsWellFoundedOn(R, Nat)
  BY NatLessThanWellFounded
<1>. HIDE DEF R
<1>3. PICK x \in T : \A y \in T : ~ (<<y, x>> \in R)
  BY <1>2, WFMin
<1>4. ASSUME NEW y \in T PROVE x <= y
  <2>1. x \in Nat /\ y \in Nat
    OBVIOUS
  <2>2. ~(y < x)
    BY <1>1, <1>3, <2>1, Zenon
  <2>. QED BY <2>1, <2>2
<1>5. \E z \in T : \A y \in T : z <= y
  BY <1>4
<1>. QED BY <1>5, Zenon DEF Min

(* The induction theorem of the library takes an operator, which cannot be *)
(* instantiated here; this is the one it rests on, for sets.               *)
LEMMA Induction ==
  ASSUME NEW P, 0 \in P, \A n \in Nat : n \in P => n + 1 \in P
  PROVE  Nat \subseteq P
<1>. SUFFICES ASSUME Nat \ P # {} PROVE FALSE
  OBVIOUS
<1> DEFINE x == Min(Nat \ P)
<1>1. x \in Nat \ P /\ \A y \in Nat \ P : x <= y
  BY LeastNumber
<1>. HIDE DEF x
<1>2. x - 1 \in Nat /\ x - 1 \in P
  BY <1>1
<1>. QED BY <1>1, <1>2

(* InOrder(S) lists S in order, as gen_property_change_event() does with   *)
(* the properties whose values it asks for.                                *)
Increasing(s) == \A i, j \in DOMAIN s : i < j => s[i] < s[j]

(* There is such a list of every set of positions, by induction on their   *)
(* number.                                                                 *)
LEMMA Enumeration ==
  ASSUME NEW m \in Nat, NEW S \in SUBSET (1 .. m)
  PROVE  /\ Cardinality(S) \in Nat
         /\ InOrder(S) \in [1 .. Cardinality(S) -> S] /\ Increasing(InOrder(S))
<1> DEFINE P == {k \in Nat : \A A \in SUBSET (1 .. k) :
                   /\ IsFiniteSet(A) /\ Cardinality(A) \in Nat
                   /\ \E s \in [1 .. Cardinality(A) -> A] : Increasing(s)}
<1>1. 0 \in P
  <2>. SUFFICES ASSUME NEW A \in SUBSET (1 .. 0)
                PROVE  /\ IsFiniteSet(A) /\ Cardinality(A) \in Nat
                       /\ \E s \in [1 .. Cardinality(A) -> A] : Increasing(s)
    OBVIOUS
  <2>1. 1 .. 0 = {}
    OBVIOUS
  <2>2. A = {}
    BY <2>1
  <2>3. IsFiniteSet(A) /\ Cardinality(A) = 0
    BY <2>2, FS_EmptySet
  <2> DEFINE s == [i \in {} |-> 0]
  <2>4. s \in [1 .. Cardinality(A) -> A]
    BY <2>1, <2>3
  <2>5. Increasing(s)
    <3>1. DOMAIN s = {}
      OBVIOUS
    <3>2. \A i, j \in DOMAIN s : i < j => s[i] < s[j]
      BY <3>1
    <3>. HIDE DEF s
    <3>. QED BY <3>2 DEF Increasing
  <2>. HIDE DEF s
  <2>6. \E f \in [1 .. Cardinality(A) -> A] : Increasing(f)
    BY <2>4, <2>5
  <2>7. Cardinality(A) \in Nat
    BY <2>3
  <2>. QED BY <2>3, <2>6, <2>7
<1>2. ASSUME NEW k \in Nat, k \in P PROVE k + 1 \in P
  <2>. SUFFICES ASSUME NEW A \in SUBSET (1 .. k + 1)
                PROVE  /\ IsFiniteSet(A) /\ Cardinality(A) \in Nat
                       /\ \E s \in [1 .. Cardinality(A) -> A] : Increasing(s)
    OBVIOUS
  <2> DEFINE B == A \ {k + 1}
  <2>1. B \in SUBSET (1 .. k)
    OBVIOUS
  <2>2. /\ IsFiniteSet(B) /\ Cardinality(B) \in Nat
        /\ \E s \in [1 .. Cardinality(B) -> B] : Increasing(s)
    BY <1>2, <2>1
  <2>3. PICK s \in [1 .. Cardinality(B) -> B] : Increasing(s)
    BY <2>2
  <2>4. CASE k + 1 \notin A
    <3>1. A = B
      BY <2>4
    <3>. QED BY <2>2, <3>1
  <2>5. CASE k + 1 \in A
    <3> DEFINE n == Cardinality(B)
    <3>1. IsFiniteSet(A) /\ Cardinality(A) = n + 1 /\ n \in Nat
      <4>1. /\ IsFiniteSet(B \cup {k + 1})
            /\ Cardinality(B \cup {k + 1}) = Cardinality(B) + 1
        BY <2>2, FS_AddElement
      <4>2. A = B \cup {k + 1}
        BY <2>5
      <4>. QED BY <2>2, <4>1, <4>2
    <3>. HIDE DEF n
    <3> DEFINE t == [i \in 1 .. n + 1 |-> IF i = n + 1 THEN k + 1 ELSE s[i]]
    <3>2. s \in [1 .. n -> B] /\ \A i, j \in 1 .. n : i < j => s[i] < s[j]
      BY <2>3 DEF Increasing, n
    <3>. HIDE DEF B
    <3>3. B \subseteq A /\ \A x \in B : x < k + 1
      BY <2>1 DEF B
    <3>4. t \in [1 .. n + 1 -> A]
      <4>1. ASSUME NEW i \in 1 .. n + 1
            PROVE  (IF i = n + 1 THEN k + 1 ELSE s[i]) \in A
        <5>1. i # n + 1 => i \in 1 .. n
          BY <3>1
        <5>2. i # n + 1 => s[i] \in B
          BY <3>2, <5>1
        <5>. QED BY <2>5, <3>3, <5>2
      <4>. QED BY <4>1
    <3>5. ASSUME NEW i \in 1 .. n + 1, NEW j \in 1 .. n + 1, i < j
          PROVE  t[i] < t[j]
      <4>1. i \in 1 .. n /\ t[i] = s[i]
        BY <3>1, <3>5
      <4>2. CASE j = n + 1
        BY <3>2, <3>3, <4>1, <4>2
      <4>3. CASE j \in 1 .. n
        BY <3>1, <3>2, <3>5, <4>1, <4>3
      <4>. QED BY <3>1, <4>2, <4>3
    <3>6. Increasing(t)
      BY <3>5 DEF Increasing
    <3>. QED BY <3>1, <3>4, <3>6
  <2>. QED BY <2>4, <2>5
<1>3. m \in P
  <2>. HIDE DEF P
  <2>. QED BY <1>1, <1>2, Induction
<1>4. /\ Cardinality(S) \in Nat
      /\ \E s \in [1 .. Cardinality(S) -> S] : Increasing(s)
  BY <1>3
<1>. QED BY <1>4, Zenon DEF InOrder, Increasing

(* The calls of one function.                                              *)
CallsOf(d, fn) == {i \in DOMAIN d : d[i].fn = fn}

(* A finite number of them are queued.                                     *)
LEMMA CallsFinite ==
  ASSUME NEW d \in Seq(Calls), NEW fn
  PROVE  IsFiniteSet(CallsOf(d, fn)) /\ Cardinality(CallsOf(d, fn)) \in Nat
<1>1. CallsOf(d, fn) \subseteq 1 .. Len(d) /\ Len(d) \in Nat
  BY DEF CallsOf
<1>2. IsFiniteSet(1 .. Len(d))
  BY <1>1, FS_Interval
<1>3. IsFiniteSet(CallsOf(d, fn))
  BY <1>1, <1>2, FS_Subset
<1>. QED BY <1>3, FS_CardinalityType

(* One call more.                                                          *)
LEMMA CallsAppend ==
  ASSUME NEW d \in Seq(Calls), NEW fn, NEW c \in Calls
  PROVE  Cardinality(CallsOf(Append(d, c), fn)) =
           Cardinality(CallsOf(d, fn)) + (IF c.fn = fn THEN 1 ELSE 0)
<1> DEFINE A == CallsOf(d, fn)
<1>1. IsFiniteSet(A) /\ Cardinality(A) \in Nat
  BY CallsFinite
<1>2. Len(d) + 1 \notin A
  BY DEF CallsOf
<1>3. CallsOf(Append(d, c), fn) = IF c.fn = fn THEN A \cup {Len(d) + 1} ELSE A
  BY Appends DEF CallsOf
<1>4. Cardinality(A \cup {Len(d) + 1}) = Cardinality(A) + 1
  BY <1>1, <1>2, FS_AddElement
<1>. QED BY <1>1, <1>3, <1>4

(* One call less.                                                          *)
LEMMA CallsTail ==
  ASSUME NEW d \in Seq(Calls), NEW fn, d # <<>>
  PROVE  Cardinality(CallsOf(Tail(d), fn)) =
           Cardinality(CallsOf(d, fn)) - (IF d[1].fn = fn THEN 1 ELSE 0)
<1> DEFINE A == CallsOf(d, fn)  B == CallsOf(Tail(d), fn)
           F == [i \in B |-> i + 1]
<1>1. /\ \A i \in B : i \in Number /\ i + 1 \in A \ {1}
      /\ \A i \in A \ {1} : i - 1 \in B /\ i \in Number
      /\ 1 \in A <=> d[1].fn = fn
  BY Tails DEF CallsOf, Number
<1>2. IsFiniteSet(A) /\ Cardinality(A) \in Nat /\ IsFiniteSet(B)
  BY CallsFinite, Tails
<1>. HIDE DEF A, B
<1>3. F \in Bijection(B, A \ {1})
  <2>1. F \in [B -> A \ {1}] /\ \A a, b \in B : F[a] = F[b] => a = b
    BY <1>1 DEF Number
  <2>2. ASSUME NEW y \in A \ {1} PROVE \E x \in B : F[x] = y
    <3>1. y - 1 \in B /\ F[y - 1] = y
      BY <1>1 DEF Number
    <3>. QED BY <3>1
  <2>. HIDE DEF F
  <2>. QED BY <2>1, <2>2, Fun_IsBij
<1>4. Cardinality(A \ {1}) = Cardinality(B)
  BY <1>2, <1>3, FS_Bijection, Fun_ExistsBij
<1>5. Cardinality(A \ {1}) = IF 1 \in A THEN Cardinality(A) - 1 ELSE Cardinality(A)
  BY <1>2, FS_RemoveElement
<1>. QED BY <1>1, <1>2, <1>4, <1>5 DEF A, B

(* A sequence followed by another.                                         *)
LEMMA Concats ==
  ASSUME NEW d \in Seq(Calls), NEW q \in Seq(Calls)
  PROVE  /\ d \o q \in Seq(Calls)
         /\ Len(d) \in Nat /\ Len(q) \in Nat /\ DOMAIN d = 1 .. Len(d)
         /\ DOMAIN q = 1 .. Len(q)
         /\ DOMAIN (d \o q) = 1 .. Len(d) + Len(q)
         /\ \A i \in 1 .. Len(d) : (d \o q)[i] = d[i]
         /\ \A i \in 1 .. Len(q) : (d \o q)[Len(d) + i] = q[i]
<1>1. /\ d \o q \in Seq(Calls) /\ Len(d) \in Nat /\ Len(q) \in Nat
      /\ DOMAIN d = 1 .. Len(d) /\ DOMAIN q = 1 .. Len(q)
      /\ Len(d \o q) = Len(d) + Len(q)
  OBVIOUS
<1>2. DOMAIN (d \o q) = 1 .. Len(d) + Len(q)
  BY <1>1
<1>3. \A i \in 1 .. Len(d) + Len(q) :
        (d \o q)[i] = IF i <= Len(d) THEN d[i] ELSE q[i - Len(d)]
  BY ConcatProperties
<1>. QED BY <1>1, <1>2, <1>3

(* The calls of both are counted.                                          *)
LEMMA CallsConcat ==
  ASSUME NEW d \in Seq(Calls), NEW q \in Seq(Calls), NEW fn, NEW gn, gn # fn,
         \A i \in DOMAIN q : q[i].fn = fn
  PROVE  /\ Cardinality(CallsOf(d \o q, fn)) = Cardinality(CallsOf(d, fn)) + Len(q)
         /\ CallsOf(d \o q, gn) = CallsOf(d, gn)
<1> DEFINE A == CallsOf(d, fn)  I == Len(d) + 1 .. Len(d) + Len(q)
<1>1. /\ Len(d) \in Nat /\ Len(q) \in Nat /\ DOMAIN d = 1 .. Len(d)
      /\ DOMAIN q = 1 .. Len(q) /\ DOMAIN (d \o q) = 1 .. Len(d) + Len(q)
      /\ \A i \in 1 .. Len(d) : (d \o q)[i] = d[i]
      /\ \A i \in 1 .. Len(q) : (d \o q)[Len(d) + i] = q[i]
  BY Concats
<1>2. ASSUME NEW i \in I PROVE (d \o q)[i].fn = fn
  <2>1. i - Len(d) \in 1 .. Len(q) /\ Len(d) + (i - Len(d)) = i
    BY <1>1
  <2>2. (d \o q)[i] = q[i - Len(d)]
    BY <1>1, <2>1
  <2>. QED BY <1>1, <2>1, <2>2
<1>3. CallsOf(d \o q, fn) = A \cup I
  BY <1>1, <1>2 DEF CallsOf
<1>4. CallsOf(d \o q, gn) = CallsOf(d, gn)
  BY <1>1, <1>2 DEF CallsOf
<1>5. A \cap I = {}
  BY <1>1 DEF CallsOf
<1>6. IsFiniteSet(A) /\ Cardinality(A) \in Nat
  BY CallsFinite
<1>7. IsFiniteSet(I) /\ Cardinality(I) = Len(q)
  <2>1. /\ IsFiniteSet(I)
        /\ Cardinality(I) = IF Len(d) + 1 > Len(d) + Len(q) THEN 0
                            ELSE (Len(d) + Len(q)) - (Len(d) + 1) + 1
    <3>1. Len(d) + 1 \in Int /\ Len(d) + Len(q) \in Int
      BY <1>1
    <3>. QED BY <3>1, FS_Interval
  <2>. QED BY <1>1, <2>1
<1>. HIDE DEF A, I
<1>8. Cardinality(A \cup I) = Cardinality(A) + Cardinality(I) - Cardinality(A \cap I)
  BY <1>6, <1>7, FS_Union
<1>9. Cardinality(A \cap I) = 0
  BY <1>5, FS_EmptySet
<1>. QED BY <1>1, <1>3, <1>4, <1>6, <1>7, <1>8, <1>9 DEF A

(* Only calls of update_prop() are queued.                                 *)
LEMMA UpdatesQueued ==
  ASSUME NEW d \in Seq(Calls), NEW q \in Seq(Calls),
         \A i \in DOMAIN q : q[i].fn = "update_prop"
  PROVE  /\ Cardinality(CallsOf(d \o q, "update_prop")) =
              Cardinality(CallsOf(d, "update_prop")) + Len(q)
         /\ CallsOf(d \o q, "request") = CallsOf(d, "request")
BY CallsConcat

(* Two handles that differ in how their client is woken only.              *)
SameData(c, d) ==
  /\ c.events = d.events /\ c.reserved_events = d.reserved_events
  /\ c.choked = d.choked /\ c.properties = d.properties
  /\ c.lowest_changed = d.lowest_changed
  /\ c.properties_updating = d.properties_updating /\ c.messages = d.messages
  /\ c.prop = d.prop

(* wakeup_client() changes nothing else.                                   *)
LEMMA WakeupClientDoes ==
  ASSUME NEW c \in Handles
  PROVE  WakeupClient(c) \in Handles /\ SameData(WakeupClient(c), c)
BY DEF WakeupClient, Handles, SameData

(* append_event() changes the queue only.                                  *)
LEMMA AppendEventDoes ==
  ASSUME NEW c \in Handles, NEW e \in Events
  PROVE  /\ AppendEvent(c, e) \in Handles
         /\ SameData(AppendEvent(c, e), [c EXCEPT !.events = Append(@, e)])
<1>1. [c EXCEPT !.events = Append(@, e)] \in Handles
  <2>1. c.events \in Seq(Events)
    BY DEF Handles
  <2>2. Append(c.events, e) \in Seq(Events)
    BY <2>1
  <2>. QED BY <2>2 DEF Handles
<1>. QED BY <1>1, WakeupClientDoes DEF AppendEvent

(* send_event() appends the event if there is room, and otherwise          *)
(* remembers that it lost one.                                             *)
LEMMA SendEventDoes ==
  ASSUME NEW c \in Handles, NEW e \in Events
  PROVE  /\ SendEvent(c, e) \in Handles
         /\ \/ SendEvent(c, e) = c /\ c.choked
            \/ SendEvent(c, e) = [c EXCEPT !.choked = TRUE]
            \/ /\ ~c.choked /\ Len(c.events) + c.reserved_events < MaxEvents
               /\ SameData(SendEvent(c, e), [c EXCEPT !.events = Append(@, e)])
<1>1. CASE c.choked
  BY <1>1 DEF SendEvent
<1>2. CASE ~c.choked /\ Full(c)
  BY <1>2 DEF SendEvent, Handles
<1>3. CASE ~c.choked /\ ~Full(c)
  <2>1. Len(c.events) + c.reserved_events < MaxEvents
    <3>1. Len(c.events) \in Nat /\ c.reserved_events \in Nat
      BY DEF Handles
    <3>. QED BY <1>3, <3>1, ClientAssumption DEF Full
  <2>2. SendEvent(c, e) = AppendEvent(c, e)
    BY <1>3 DEF SendEvent
  <2>. QED BY <1>3, <2>1, <2>2, AppendEventDoes
<1>. QED BY <1>1, <1>2, <1>3

(* A property that is marked has no value to tell.                         *)
LEMMA MarkChangedDoes ==
  ASSUME NEW p \in Properties
  PROVE  /\ MarkChanged(p) \in Properties
         /\ MarkChanged(p).user_value = p.user_value
         /\ MarkChanged(p).memory = p.memory /\ MarkChanged(p).dead = p.dead
         /\ MarkChanged(p).updating = p.updating /\ MarkChanged(p).twice = p.twice
         /\ ~Retrieved(MarkChanged(p))
BY DEF MarkChanged, Properties, Retrieved

(* mp_client_property_change() marks every observer.                       *)
LEMMA NotifyPropertyDoes ==
  ASSUME NEW c \in Handles
  PROVE  /\ NotifyProperty(c) \in Handles
         /\ SameData(NotifyProperty(c),
              [c EXCEPT !.prop = NotifyProperty(c).prop,
                        !.lowest_changed = NotifyProperty(c).lowest_changed])
         /\ NotifyProperty(c).lowest_changed \in {1, c.lowest_changed}
         /\ \A o \in Observers :
              NotifyProperty(c).prop[o] =
                IF o \in ToSet(c.properties) THEN MarkChanged(c.prop[o]) ELSE c.prop[o]
<1> DEFINE prop == [o \in Observers |->
                      IF o \in ToSet(c.properties) THEN MarkChanged(c.prop[o])
                      ELSE c.prop[o]]
           d == [c EXCEPT !.lowest_changed = 1, !.prop = prop]
<1>1. prop \in [Observers -> Properties]
  <2>1. \A o \in Observers : c.prop[o] \in Properties
    BY DEF Handles
  <2>2. \A o \in Observers : MarkChanged(c.prop[o]) \in Properties
    BY <2>1, MarkChangedDoes
  <2>. QED BY <2>1, <2>2
<1>2. CASE c.properties = <<>>
  <2>1. NotifyProperty(c) = c /\ \A o \in Observers : o \notin ToSet(c.properties)
    BY <1>2 DEF NotifyProperty, ToSet
  <2>. QED BY <2>1 DEF SameData, Handles
<1>3. CASE c.properties # <<>>
  <2>1. NotifyProperty(c) = WakeupClient(d)
    BY <1>3 DEF NotifyProperty
  <2>. HIDE DEF prop
  <2>2. d \in Handles
    BY <1>1 DEF Handles
  <2>3. d.prop = prop /\ d.lowest_changed = 1
    BY DEF Handles
  <2>4. WakeupClient(d) \in Handles /\ SameData(WakeupClient(d), d)
    BY <2>2, WakeupClientDoes
  <2>5. SameData(d, [c EXCEPT !.prop = prop, !.lowest_changed = 1])
    BY DEF Handles, SameData
  <2>. HIDE DEF d
  <2>6. WakeupClient(d).prop = prop /\ WakeupClient(d).lowest_changed = 1
    BY <2>3, <2>4 DEF SameData
  <2>. QED BY <2>1, <2>4, <2>5, <2>6 DEF SameData, prop
<1>. QED BY <1>2, <1>3

(* Freeing the last event frees what hangs on it.                          *)
LEMMA FreeEventDoes ==
  ASSUME NEW c \in Handles
  PROVE  /\ FreeEvent(c) \in Handles
         /\ SameData(FreeEvent(c), [c EXCEPT !.prop = FreeEvent(c).prop])
         /\ \A o \in Observers :
              FreeEvent(c).prop[o] =
                [c.prop[o] EXCEPT !.memory = IF @ = "cur_event" THEN "freed" ELSE @]
<1> DEFINE prop == [o \in Observers |->
              [c.prop[o] EXCEPT !.memory = IF @ = "cur_event" THEN "freed" ELSE @]]
<1>1. prop \in [Observers -> Properties]
  <2>1. \A o \in Observers : c.prop[o] \in Properties
    BY DEF Handles
  <2>. QED BY <2>1 DEF Properties
<1>2. FreeEvent(c) = [c EXCEPT !.prop = prop]
  BY DEF FreeEvent
<1>3. \A o \in Observers : prop[o] =
         [c.prop[o] EXCEPT !.memory = IF @ = "cur_event" THEN "freed" ELSE @]
  OBVIOUS
<1>. HIDE DEF prop
<1>4. [c EXCEPT !.prop = prop] \in Handles /\ [c EXCEPT !.prop = prop].prop = prop
  BY <1>1 DEF Handles
<1>. QED BY <1>2, <1>3, <1>4 DEF SameData

(* What update_prop() makes of an observer.                                *)
NewValue(p, new) ==
  [p EXCEPT !.updating = FALSE, !.new_value = new,
            !.changed = @ \/ p.user_value # new,
            !.memory = IF p.dead THEN "cur_event" ELSE @]

(* It changes this observer and the counter only.                          *)
LEMMA UpdatePropDoes ==
  ASSUME NEW c \in Handles, NEW o \in Observers, NEW new \in Values,
         c.properties_updating # 0
  PROVE  /\ UpdateProp(c, o, new) \in Handles
         /\ SameData(UpdateProp(c, o, new),
              [c EXCEPT !.properties_updating = @ - 1,
                        !.prop = UpdateProp(c, o, new).prop])
         /\ \A x \in Observers : x # o => UpdateProp(c, o, new).prop[x] = c.prop[x]
         /\ UpdateProp(c, o, new).prop[o] = NewValue(c.prop[o], new)
<1> DEFINE p == NewValue(c.prop[o], new)
           d == [c EXCEPT !.properties_updating = @ - 1, !.prop[o] = p]
<1>1. p \in Properties
  <2>1. c.prop[o] \in Properties
    BY DEF Handles
  <2>. QED BY <2>1 DEF Properties, NewValue
<1>2. UpdateProp(c, o, new) = WakeupClient(d)
  BY DEF UpdateProp, NewValue
<1>. HIDE DEF p
<1>3. /\ d \in Handles /\ d.prop[o] = p
      /\ \A x \in Observers : x # o => d.prop[x] = c.prop[x]
  <2> DEFINE f == [c.prop EXCEPT ![o] = p]
  <2>1. c.prop \in [Observers -> Properties] /\ c.properties_updating - 1 \in Nat
    BY DEF Handles
  <2>2. /\ f \in [Observers -> Properties] /\ f[o] = p
        /\ \A x \in Observers : x # o => f[x] = c.prop[x]
    BY <1>1, <2>1
  <2>3. d = [c EXCEPT !.properties_updating = @ - 1, !.prop = f]
    OBVIOUS
  <2>. HIDE DEF f, d
  <2>4. d \in Handles /\ d.prop = f
    BY <2>1, <2>2, <2>3 DEF Handles
  <2>. QED BY <2>2, <2>4
<1>4. SameData(d, [c EXCEPT !.properties_updating = @ - 1, !.prop = d.prop])
  BY DEF SameData, Handles
<1>. HIDE DEF d
<1>5. WakeupClient(d) \in Handles /\ SameData(WakeupClient(d), d)
  BY <1>3, WakeupClientDoes
<1>. QED BY <1>2, <1>3, <1>4, <1>5 DEF SameData, p

(* An observer whose value is asked for is being updated.                  *)
LEMMA AskPropertyDoes ==
  ASSUME NEW p \in Properties
  PROVE  /\ AskProperty(p) \in Properties /\ AskProperty(p).updating
         /\ AskProperty(p).user_value = p.user_value
         /\ AskProperty(p).memory = p.memory /\ AskProperty(p).dead = p.dead
         /\ ~AskProperty(p).twice => ~p.twice /\ ~p.updating
         /\ ~Retrieved(AskProperty(p))
BY DEF AskProperty, Properties, Retrieved

(* An observer that is told has nothing to tell any more.                  *)
LEMMA TellPropertyDoes ==
  ASSUME NEW p \in Properties
  PROVE  /\ TellProperty(p) \in Properties /\ TellProperty(p).updating = p.updating
         /\ TellProperty(p).user_value = p.new_value
         /\ TellProperty(p).memory = p.memory /\ TellProperty(p).dead = p.dead
         /\ TellProperty(p).twice = p.twice
         /\ ~Retrieved(TellProperty(p))
BY DEF TellProperty, Properties, Retrieved

(* No element occurs twice.                                                *)
Distinct(s) == \A i, j \in DOMAIN s : s[i] = s[j] => i = j

(* The event that tells of p.                                              *)
ChangeOf(p, o) == [id |-> "change", prop |-> o, value |-> p.new_value]

(* Where gen_property_change_event() looks, and where it stops.            *)
LEMMA Positions ==
  ASSUME NEW c \in Handles, c.lowest_changed \in 1 .. Len(c.properties) + 1
  PROVE  /\ Stop(c) \in 1 .. End(c) /\ Lowest(c) \in 1 .. End(c)
         /\ Stop(c) # End(c) => Tells(Nth(c, Stop(c)))
         /\ End(c) \in Nat /\ End(c) = Len(c.properties) + 1
         /\ Visited(c) \subseteq 1 .. Len(c.properties)
         /\ DOMAIN c.properties = 1 .. Len(c.properties)
<1> DEFINE T == {n \in Visited(c) : Tells(Nth(c, n))} \cup {End(c)}
           U == {n \in Visited(c) : /\ n <= Stop(c)
                                    /\ Nth(c, n).changed \/ Nth(c, n).updating}
                  \cup {End(c)}
<1>1. /\ End(c) \in Nat /\ End(c) = Len(c.properties) + 1
      /\ Visited(c) \subseteq 1 .. Len(c.properties)
      /\ DOMAIN c.properties = 1 .. Len(c.properties)
      /\ End(c) \in 1 .. End(c) /\ 1 .. Len(c.properties) \subseteq 1 .. End(c)
      /\ End(c) \notin 1 .. Len(c.properties)
      /\ 1 .. End(c) \subseteq Nat
  BY DEF End, Visited, Handles
<1>2. T \subseteq 1 .. End(c) /\ U \subseteq 1 .. End(c) /\ T # {} /\ U # {}
  BY <1>1
<1>3. T \in SUBSET Nat /\ U \in SUBSET Nat
  BY <1>1, <1>2
<1>4. Stop(c) = Min(T) /\ Lowest(c) = Min(U)
  BY DEF Stop, Lowest
<1>5. Stop(c) \in T /\ Lowest(c) \in U
  <2>. HIDE DEF T, U
  <2>. QED BY <1>2, <1>3, <1>4, LeastNumber
<1>6. Stop(c) # End(c) => Tells(Nth(c, Stop(c)))
  BY <1>5
<1>. QED BY <1>1, <1>2, <1>5, <1>6

(* What gen_property_change_event() made of c and the calls d, without     *)
(* how: it asked for the values of some observers, told of one at most,    *)
(* and left the others alone.                                              *)
Generated(c, d, x) ==
  /\ x.ctx \in Handles
  /\ SameData(x.ctx,
       [c EXCEPT !.lowest_changed = x.ctx.lowest_changed,
                 !.properties_updating = x.ctx.properties_updating,
                 !.prop = x.ctx.prop])
  /\ x.ctx.lowest_changed \in 1 .. Len(c.properties) + 1
  /\ \E q \in Seq(Calls) :
       /\ x.dispatch = d \o q
       /\ x.ctx.properties_updating = c.properties_updating + Len(q)
       /\ \A i \in DOMAIN q :
            /\ q[i].fn = "update_prop" /\ q[i].prop \in ToSet(c.properties)
            /\ x.ctx.prop[q[i].prop] = AskProperty(c.prop[q[i].prop])
       /\ \A i, j \in DOMAIN q : q[i].prop = q[j].prop => i = j
  /\ \A o \in Observers :
       \/ x.ctx.prop[o] = c.prop[o]
       \/ x.ctx.prop[o] = AskProperty(c.prop[o])
       \/ /\ x.ctx.prop[o] = TellProperty(c.prop[o])
          /\ x.event = ChangeOf(c.prop[o], o)
  /\ \/ x.event = None
     \/ \E o \in ToSet(c.properties) :
          /\ x.event = ChangeOf(c.prop[o], o) /\ Tells(c.prop[o])
          /\ x.ctx.prop[o] = TellProperty(c.prop[o])

(* It does no more than that.                                              *)
LEMMA GenPropertyChangeDoes ==
  ASSUME NEW c \in Handles, NEW d \in Seq(Calls),
         c.lowest_changed \in 1 .. Len(c.properties) + 1, Distinct(c.properties),
         NEW x, x = GenPropertyChange(c, d)
  PROVE  Generated(c, d, x)
<1> DEFINE stop == Stop(c)
           asked == Asked(c)
           asks == InOrder(asked)
           n == Cardinality(asked)
           f(o) == IF \E k \in asked : c.properties[k] = o
                   THEN AskProperty(c.prop[o])
                   ELSE IF stop # End(c) /\ c.properties[stop] = o
                   THEN TellProperty(c.prop[o]) ELSE c.prop[o]
           prop == [o \in Observers |-> f(o)]
           q == [i \in 1 .. n |->
                   [fn |-> "update_prop", prop |-> c.properties[asks[i]]]]
           low == Lowest(c)
<1>1. /\ stop \in 1 .. End(c) /\ low \in 1 .. End(c)
      /\ stop # End(c) => Tells(Nth(c, stop))
      /\ End(c) \in Nat /\ End(c) = Len(c.properties) + 1
      /\ Visited(c) \subseteq 1 .. Len(c.properties)
      /\ DOMAIN c.properties = 1 .. Len(c.properties)
  BY Positions
<1>2. asked \in SUBSET (1 .. Len(c.properties)) /\ \A k \in asked : k < stop
  BY <1>1 DEF Asked
<1>3. /\ n \in Nat /\ asks \in [1 .. n -> asked] /\ Increasing(asks)
  <2>. HIDE DEF asked
  <2>1. Len(c.properties) \in Nat
    BY DEF Handles
  <2>. QED BY <1>2, <2>1, Enumeration
<1>4. DOMAIN asks = 1 .. n /\ Len(asks) = n
  BY <1>3
<1>5. x = [ctx |-> [c EXCEPT !.lowest_changed = low,
                             !.properties_updating = @ + Len(asks), !.prop = prop],
           dispatch |-> d \o [i \in DOMAIN asks |->
                   [fn |-> "update_prop", prop |-> c.properties[asks[i]]]],
           event |-> IF stop = End(c) THEN None
                     ELSE [id |-> "change", prop |-> c.properties[stop],
                           value |-> Nth(c, stop).new_value]]
  BY DEF GenPropertyChange
<1>6. x = [ctx |-> [c EXCEPT !.lowest_changed = low,
                             !.properties_updating = @ + n, !.prop = prop],
           dispatch |-> d \o q,
           event |-> IF stop = End(c) THEN None
                     ELSE [id |-> "change", prop |-> c.properties[stop],
                           value |-> Nth(c, stop).new_value]]
  <2>. HIDE DEF asked, stop, low, n, asks, prop
  <2>. QED BY <1>4, <1>5
<1>. HIDE DEF asked, stop, low, n, asks
<1>7. \A o \in Observers : c.prop[o] \in Properties
  BY DEF Handles
<1>8. \A k \in 1 .. Len(c.properties) : c.properties[k] \in Observers
  BY DEF Handles
<1>9. prop \in [Observers -> Properties]
  <2>1. \A o \in Observers : f(o) \in Properties
    BY <1>7, AskPropertyDoes, TellPropertyDoes
  <2>. HIDE DEF f
  <2>. QED BY <2>1
<1>10. \A o \in Observers : prop[o] = f(o)
  OBVIOUS
<1>11. \A i \in 1 .. n : /\ asks[i] \in asked /\ asks[i] \in 1 .. Len(c.properties)
                         /\ c.properties[asks[i]] \in Observers
  BY <1>2, <1>3, <1>8
<1>12. q \in Seq(Calls) /\ Len(q) = n /\ DOMAIN q = 1 .. n
       /\ \A i \in 1 .. n : q[i].fn = "update_prop" /\ q[i].prop = c.properties[asks[i]]
  <2>1. \A i \in 1 .. n :
          [fn |-> "update_prop", prop |-> c.properties[asks[i]]] \in Calls
    BY <1>11 DEF Calls
  <2>2. q \in [1 .. n -> Calls]
    BY <2>1
  <2>. QED BY <1>3, <2>2
<1>. HIDE DEF q, prop
<1>13. /\ x.ctx = [c EXCEPT !.lowest_changed = low,
                            !.properties_updating = @ + n, !.prop = prop]
       /\ x.dispatch = d \o q
       /\ x.event = IF stop = End(c) THEN None
                    ELSE [id |-> "change", prop |-> c.properties[stop],
                          value |-> Nth(c, stop).new_value]
  BY <1>6
<1>14. low \in Nat /\ c.properties_updating + n \in Nat
  BY <1>1, <1>3 DEF Handles
<1>15. /\ x.ctx \in Handles /\ x.ctx.lowest_changed = low /\ x.ctx.prop = prop
       /\ x.ctx.properties_updating = c.properties_updating + n
       /\ x.ctx.events = c.events /\ x.ctx.reserved_events = c.reserved_events
       /\ x.ctx.choked = c.choked /\ x.ctx.properties = c.properties
       /\ x.ctx.messages = c.messages
  BY <1>9, <1>13, <1>14 DEF Handles
<1>16. SameData(x.ctx, [c EXCEPT !.lowest_changed = x.ctx.lowest_changed,
                        !.properties_updating = x.ctx.properties_updating,
                        !.prop = x.ctx.prop])
  BY <1>15 DEF SameData, Handles
<1>17. ASSUME NEW i \in DOMAIN q
       PROVE  /\ q[i].fn = "update_prop" /\ q[i].prop \in ToSet(c.properties)
              /\ x.ctx.prop[q[i].prop] = AskProperty(c.prop[q[i].prop])
  <2>1. i \in 1 .. n /\ q[i].fn = "update_prop" /\ q[i].prop = c.properties[asks[i]]
    BY <1>12
  <2>2. q[i].prop \in ToSet(c.properties)
    BY <1>1, <1>11, <2>1 DEF ToSet
  <2>3. f(c.properties[asks[i]]) = AskProperty(c.prop[c.properties[asks[i]]])
    BY <1>11, <2>1
  <2>. HIDE DEF f
  <2>4. prop[c.properties[asks[i]]] = f(c.properties[asks[i]])
    BY <1>10, <1>11, <2>1
  <2>. QED BY <1>15, <2>1, <2>2, <2>3, <2>4
<1>18. ASSUME NEW i \in DOMAIN q, NEW j \in DOMAIN q, q[i].prop = q[j].prop
       PROVE  i = j
  <2>1. i \in 1 .. n /\ j \in 1 .. n
    BY <1>12
  <2>2. asks[i] = asks[j] /\ asks[i] \in Int
    <3>1. c.properties[asks[i]] = c.properties[asks[j]]
      BY <1>12, <1>18, <2>1
    <3>2. /\ asks[i] \in DOMAIN c.properties /\ asks[j] \in DOMAIN c.properties
          /\ asks[i] \in Int
      BY <1>1, <1>11, <2>1
    <3>. QED BY <3>1, <3>2 DEF Distinct
  <2>3. ~(i < j) /\ ~(j < i)
    BY <1>4, <1>3, <2>1, <2>2 DEF Increasing
  <2>. QED BY <1>3, <2>1, <2>3
<1>19. ASSUME NEW o \in Observers
       PROVE  \/ x.ctx.prop[o] = c.prop[o]
              \/ x.ctx.prop[o] = AskProperty(c.prop[o])
              \/ /\ x.ctx.prop[o] = TellProperty(c.prop[o])
                 /\ x.event = ChangeOf(c.prop[o], o)
  <2>1. CASE stop # End(c) /\ c.properties[stop] = o
    <3>1. x.event = ChangeOf(c.prop[o], o)
      BY <1>13, <2>1 DEF ChangeOf, Nth
    <3>. QED BY <1>10, <1>15, <3>1
  <2>2. CASE ~(stop # End(c) /\ c.properties[stop] = o)
    BY <1>10, <1>15, <2>2
  <2>. QED BY <2>1, <2>2
<1>20. \/ x.event = None
       \/ \E o \in ToSet(c.properties) :
            /\ x.event = ChangeOf(c.prop[o], o) /\ Tells(c.prop[o])
            /\ x.ctx.prop[o] = TellProperty(c.prop[o])
  <2>1. CASE stop = End(c)
    BY <1>13, <2>1
  <2>2. CASE stop # End(c)
    <3> DEFINE o == c.properties[stop]
    <3>1. stop \in 1 .. Len(c.properties)
      BY <1>1, <2>2
    <3>2. o \in ToSet(c.properties) /\ o \in Observers
      BY <1>1, <1>8, <3>1 DEF ToSet
    <3>3. x.event = ChangeOf(c.prop[o], o) /\ Tells(c.prop[o])
      BY <1>1, <1>13, <2>2 DEF ChangeOf, Nth
    <3>4. ASSUME NEW k \in asked PROVE c.properties[k] # o
      <4>1. k \in DOMAIN c.properties /\ stop \in DOMAIN c.properties /\ k < stop
        BY <1>1, <1>2, <3>1
      <4>2. k # stop
        BY <1>2, <4>1
      <4>. QED BY <4>1, <4>2 DEF Distinct
    <3>5. f(o) = TellProperty(c.prop[o])
      BY <2>2, <3>4
    <3>. HIDE DEF o, f
    <3>6. prop[o] = f(o)
      BY <1>10, <3>2
    <3>. QED BY <1>15, <3>2, <3>3, <3>5, <3>6
  <2>. QED BY <2>1, <2>2
<1>21. \E r \in Seq(Calls) :
         /\ x.dispatch = d \o r
         /\ x.ctx.properties_updating = c.properties_updating + Len(r)
         /\ \A i \in DOMAIN r :
              /\ r[i].fn = "update_prop" /\ r[i].prop \in ToSet(c.properties)
              /\ x.ctx.prop[r[i].prop] = AskProperty(c.prop[r[i].prop])
         /\ \A i, j \in DOMAIN r : r[i].prop = r[j].prop => i = j
  BY <1>12, <1>13, <1>15, <1>17, <1>18
<1>22. x.ctx.lowest_changed \in 1 .. Len(c.properties) + 1
  BY <1>1, <1>15
<1>. HIDE DEF f
<1>. QED BY <1>15, <1>16, <1>19, <1>20, <1>21, <1>22 DEF Generated

-----------------------------------------------------------------------------
(* Steps that only wake somebody, or go on.                                *)
(* The core stays where it is or goes between places where it neither      *)
(* updates nor notifies.                                                   *)
CoreSame ==
  \/ core' = core
  \/ /\ core.pc \notin {"update", "notify"} /\ core'.pc \notin {"update", "notify"}
     /\ core' \in CoreStates

(* A step that changes no data of the handle keeps all but Types and       *)
(* Leaving.                                                                *)
LEMMA Quiet ==
  ASSUME IInv, ctx' \in Handles, SameData(ctx', ctx), CoreSame,
         UNCHANGED <<dispatch, value, sent, logged, accepted, got>>,
         client = "gone" => client' = "gone"
  PROVE  Bounded' /\ Counted' /\ Attached' /\ Ordered' /\ ChangesKnown'
<1>1. Bounded'
  BY DEF IInv, Bounded, SameData
<1>2. Counted'
  BY DEF IInv, Counted, SameData, CoreSame, Pending
<1>3. Attached'
  BY DEF IInv, Attached, SameData, CoreSame, Updated, Updates
<1>4. Ordered'
  <2>1. EventOrder(ctx.events, got.event, got.overflow, sent,
                   ~ctx.choked /\ client' # "gone")
    <3>1. EventOrder(ctx.events, got.event, got.overflow, sent,
                   ~ctx.choked /\ client # "gone")
      BY DEF IInv, Ordered
    <3>2. (~ctx.choked /\ client' # "gone") => (~ctx.choked /\ client # "gone")
      OBVIOUS
    <3>. QED BY <3>1, <3>2 DEF EventOrder
  <2>2. /\ ReplyOrder(ctx.events, dispatch, got.replies, accepted)
        /\ LogOrder(ctx.messages, got.log, got.log_overflow, logged)
        /\ Len(ctx.messages) = LogSize => ctx.messages[LogSize] = 0
    BY DEF IInv, Ordered
  <2>3. /\ ctx'.events = ctx.events /\ ctx'.choked = ctx.choked
        /\ ctx'.messages = ctx.messages
    BY DEF SameData
  <2>. QED BY <2>1, <2>2, <2>3 DEF Ordered
<1>5. ChangesKnown'
  <2>1. core'.pc # "notify" <=> core.pc # "notify"
    BY DEF CoreSame
  <2>. QED BY <2>1 DEF IInv, ChangesKnown, SameData
<1>. QED BY <1>1, <1>2, <1>3, <1>4, <1>5

(* The steps that wait or are woken, one by one.                           *)
LEMMA WaitWakeupKeeps ==
  ASSUME IInv, WaitWakeup \/ Woken
  PROVE  IInv'
<1>1. ctx \in Handles /\ ctx' = [ctx EXCEPT !.need_wakeup = FALSE]
  BY DEF IInv, Types, WaitWakeup, Woken
<1>2. ctx' \in Handles /\ SameData(ctx', ctx)
  BY <1>1 DEF Handles, SameData
<1>3. /\ UNCHANGED <<dispatch, value, core, timeout, cur_event, workload,
                     sent, logged, accepted, got>>
      /\ client' \in {"woken", "timedout", "waiting"}
      /\ client \in {"unlocked", "waiting"}
      /\ client' = "timedout" => timeout = "zero"
  BY DEF WaitWakeup, Woken, count
<1>4. Types'
  BY <1>2, <1>3 DEF IInv, Types
<1>5. Leaving'
  BY <1>2, <1>3 DEF IInv, Leaving, SameData
<1>6. Bounded' /\ Counted' /\ Attached' /\ Ordered' /\ ChangesKnown'
  BY <1>2, <1>3, Quiet DEF CoreSame
<1>. QED BY <1>4, <1>5, <1>6 DEF IInv

LEMMA TimedOutKeeps ==
  ASSUME IInv, TimedOut
  PROVE  IInv'
<1>1. /\ UNCHANGED <<ctx, dispatch, value, core, timeout, cur_event, workload,
                     sent, logged, accepted, got>>
      /\ client' = "timedout" /\ client = "waiting" /\ timeout = "some"
  BY DEF TimedOut, count
<1>2. ctx' \in Handles /\ SameData(ctx', ctx)
  BY <1>1 DEF IInv, Types, SameData
<1>3. Types'
  BY <1>1 DEF IInv, Types
<1>4. Leaving'
  BY <1>1 DEF IInv, Leaving
<1>5. Bounded' /\ Counted' /\ Attached' /\ Ordered' /\ ChangesKnown'
  BY <1>1, <1>2, Quiet DEF CoreSame
<1>. QED BY <1>3, <1>4, <1>5 DEF IInv

LEMMA ReturnNoneKeeps ==
  ASSUME IInv, ReturnNone
  PROVE  IInv' /\ got' = got
<1>1. ctx \in Handles /\ ctx' = [ctx EXCEPT !.queued_wakeup = FALSE]
  BY DEF IInv, Types, ReturnNone, Return
<1>2. ctx' \in Handles /\ SameData(ctx', ctx)
  BY <1>1 DEF Handles, SameData
<1>3. got' = got
  BY DEF ReturnNone, Return, Deliver, None
<1>4. /\ UNCHANGED <<dispatch, value, core, timeout, workload, sent, logged, accepted>>
      /\ client' = "idle" /\ client = "timedout" /\ cur_event' = None
  BY DEF ReturnNone, Return, count
<1>5. Types'
  BY <1>2, <1>3, <1>4 DEF IInv, Types, Returned, None
<1>6. Leaving'
  BY <1>4 DEF IInv, Leaving
<1>7. Bounded' /\ Counted' /\ Attached' /\ Ordered' /\ ChangesKnown'
  BY <1>2, <1>3, <1>4, Quiet DEF CoreSame
<1>. QED BY <1>3, <1>5, <1>6, <1>7 DEF IInv

LEMMA WaitAsyncRequestsKeeps ==
  ASSUME IInv, WaitAsyncRequests
  PROVE  IInv'
<1>1. /\ UNCHANGED <<ctx, dispatch, value, core, cur_event, workload,
                     sent, logged, accepted, got>>
      /\ timeout' = "detach" /\ client # "gone"
      /\ client' = IF AsyncDone THEN "leaving" ELSE "unlocked"
  BY DEF WaitAsyncRequests, count
<1>2. ctx' \in Handles /\ SameData(ctx', ctx)
  BY <1>1 DEF IInv, Types, SameData
<1>3. Types'
  BY <1>1 DEF IInv, Types
<1>4. Leaving'
  BY <1>1 DEF IInv, Leaving, AsyncDone
<1>5. Bounded' /\ Counted' /\ Attached' /\ Ordered' /\ ChangesKnown'
  BY <1>1, <1>2, Quiet DEF CoreSame
<1>. QED BY <1>3, <1>4, <1>5 DEF IInv

LEMMA DetachKeeps ==
  ASSUME IInv, Detach
  PROVE  IInv'
<1>1. /\ UNCHANGED <<ctx, dispatch, value, core, cur_event, timeout, workload,
                     sent, logged, accepted, got>>
      /\ client = "leaving" /\ client' = "gone"
  BY DEF Detach, count
<1>2. ctx' \in Handles /\ SameData(ctx', ctx)
  BY <1>1 DEF IInv, Types, SameData
<1>3. Types'
  BY <1>1 DEF IInv, Types
<1>4. Leaving'
  BY <1>1 DEF IInv, Leaving
<1>5. Bounded' /\ Counted' /\ Attached' /\ Ordered' /\ ChangesKnown'
  BY <1>1, <1>2, Quiet DEF CoreSame
<1>. QED BY <1>3, <1>4, <1>5 DEF IInv

LEMMA WakeupKeeps ==
  ASSUME IInv, Wakeup
  PROVE  IInv'
<1>1. /\ UNCHANGED <<dispatch, value, core, client, timeout, cur_event, workload,
                     sent, logged, accepted, got>>
      /\ ctx' = WakeupClient([ctx EXCEPT !.queued_wakeup = TRUE])
  BY DEF Wakeup, count
<1>2. /\ [ctx EXCEPT !.queued_wakeup = TRUE] \in Handles
      /\ SameData([ctx EXCEPT !.queued_wakeup = TRUE], ctx)
  BY DEF IInv, Types, Handles, SameData
<1>3. ctx' \in Handles /\ SameData(ctx', [ctx EXCEPT !.queued_wakeup = TRUE])
  BY <1>1, <1>2, WakeupClientDoes
<1>4. SameData(ctx', ctx)
  BY <1>2, <1>3 DEF SameData
<1>5. Types'
  BY <1>1, <1>3 DEF IInv, Types
<1>6. Leaving'
  BY <1>1, <1>4 DEF IInv, Leaving, SameData
<1>7. Bounded' /\ Counted' /\ Attached' /\ Ordered' /\ ChangesKnown'
  BY <1>1, <1>3, <1>4, Quiet DEF CoreSame
<1>. QED BY <1>5, <1>6, <1>7 DEF IInv

LEMMA CoreGoesOnKeeps ==
  ASSUME IInv, Shutdown \/ CoreWoken
  PROVE  IInv'
<1>1. /\ UNCHANGED <<ctx, dispatch, value, client, timeout, cur_event, workload,
                     sent, logged, accepted, got>>
      /\ core.pc \in {"run", "sleep"} /\ core' = [pc |-> "shutdown"]
  BY DEF Shutdown, CoreWoken, count
<1>2. ctx' \in Handles /\ SameData(ctx', ctx) /\ CoreSame
  BY <1>1 DEF IInv, Types, SameData, CoreSame, CoreStates
<1>3. Types'
  BY <1>1, <1>2 DEF IInv, Types, CoreSame
<1>4. Leaving'
  BY <1>1 DEF IInv, Leaving
<1>5. Bounded' /\ Counted' /\ Attached' /\ Ordered' /\ ChangesKnown'
  BY <1>1, <1>2, Quiet
<1>. QED BY <1>3, <1>4, <1>5 DEF IInv

LEMMA StutterKeeps ==
  ASSUME IInv, UNCHANGED vars
  PROVE  IInv'
<1>1. UNCHANGED <<ctx, dispatch, value, client, core, timeout, cur_event, workload,
                     sent, logged, accepted, got>>
  BY DEF vars, count
<1>2. ctx' \in Handles /\ SameData(ctx', ctx) /\ CoreSame
  BY <1>1 DEF IInv, Types, SameData, CoreSame
<1>3. Types'
  BY <1>1 DEF IInv, Types
<1>4. Leaving'
  BY <1>1 DEF IInv, Leaving
<1>5. Bounded' /\ Counted' /\ Attached' /\ Ordered' /\ ChangesKnown'
  BY <1>1, <1>2, Quiet
<1>. QED BY <1>3, <1>4, <1>5 DEF IInv

(* A step that leaves the observers and the queued calls alone.            *)
LEMMA ObserversSame ==
  ASSUME IInv, CoreSame, UNCHANGED <<dispatch, value>>,
         ctx'.properties = ctx.properties, ctx'.prop = ctx.prop,
         ctx'.lowest_changed = ctx.lowest_changed,
         got'.value = got.value, client = "gone" => client' = "gone"
  PROVE  /\ ctx'.lowest_changed \in 1 .. Len(ctx'.properties) + 1
         /\ Attached' /\ ChangesKnown'
         /\ Pending("request")' = Pending("request")
         /\ (Pending("update_prop") + (IF core.pc = "update" THEN 1 ELSE 0))' =
              Pending("update_prop") + (IF core.pc = "update" THEN 1 ELSE 0)
<1>1. Attached'
  BY DEF IInv, Attached, CoreSame, Updated, Updates
<1>2. ChangesKnown'
  BY DEF IInv, ChangesKnown, CoreSame
<1>3. ctx'.lowest_changed \in 1 .. Len(ctx'.properties) + 1
  BY DEF IInv, Bounded
<1>4. /\ Pending("request")' = Pending("request")
      /\ Pending("update_prop")' = Pending("update_prop")
      /\ core'.pc = "update" <=> core.pc = "update"
  BY DEF Pending, CoreSame
<1>. QED BY <1>1, <1>2, <1>3, <1>4

(* send_event() of the next event or of the shutdown, if it fits.          *)
LEMMA SendKeeps ==
  ASSUME IInv, client # "gone", CoreSame, NEW e \in Events, e.id # "reply",
         ctx' = SendEvent(ctx, e),
         e.id = "event" => e.n = sent + 1,
         sent' = IF e.id = "event" THEN sent + 1 ELSE sent,
         UNCHANGED <<dispatch, value, logged, accepted, client, timeout, got,
                     cur_event, workload>>
  PROVE  IInv'
<1>1. /\ ctx \in Handles /\ dispatch \in Seq(Calls) /\ got \in Got /\ sent \in Nat
      /\ accepted \in Nat
  BY DEF IInv, Types
<1>2. /\ ctx' \in Handles
      /\ \/ ctx' = ctx /\ ctx.choked
         \/ ctx' = [ctx EXCEPT !.choked = TRUE]
         \/ /\ ~ctx.choked /\ Len(ctx.events) + ctx.reserved_events < MaxEvents
            /\ SameData(ctx', [ctx EXCEPT !.events = Append(@, e)])
  BY <1>1, SendEventDoes
<1>3. /\ ctx'.properties = ctx.properties /\ ctx'.prop = ctx.prop
      /\ ctx'.lowest_changed = ctx.lowest_changed
      /\ ctx'.properties_updating = ctx.properties_updating
      /\ ctx'.reserved_events = ctx.reserved_events /\ ctx'.messages = ctx.messages
      /\ \/ ctx'.events = ctx.events /\ ctx'.choked
         \/ /\ ~ctx.choked /\ Len(ctx.events) + ctx.reserved_events < MaxEvents
            /\ ctx'.events = Append(ctx.events, e)
  BY <1>1, <1>2 DEF Handles, SameData
<1>4. /\ ctx'.lowest_changed \in 1 .. Len(ctx'.properties) + 1
      /\ Attached' /\ ChangesKnown'
      /\ Pending("request")' = Pending("request")
      /\ (Pending("update_prop") + (IF core.pc = "update" THEN 1 ELSE 0))' =
           Pending("update_prop") + (IF core.pc = "update" THEN 1 ELSE 0)
  BY <1>3, ObserversSame
<1>5. Types'
  <2>1. sent' \in Nat /\ core' \in CoreStates
    BY <1>1 DEF IInv, Types, CoreSame
  <2>. QED BY <1>2, <2>1 DEF IInv, Types
<1>6. Bounded'
  BY <1>3, <1>4 DEF IInv, Bounded
<1>7. ctx.events \in Seq(Events) /\ ctx.choked \in BOOLEAN
  BY <1>1 DEF Handles
<1>8. Counted'
  <2>1. Len(Append(ctx.events, e)) = Len(ctx.events) + 1 /\ Len(ctx.events) \in Nat
        /\ ctx.reserved_events \in Nat
    BY <1>1, <1>7 DEF Handles
  <2>2. Len(ctx'.events) + ctx'.reserved_events <= MaxEvents
    BY <1>3, <2>1, ClientAssumption DEF IInv, Counted
  <2>. QED BY <1>3, <1>4, <2>2 DEF IInv, Counted
<1>9. Leaving'
  BY <1>3 DEF IInv, Leaving
<1>10. EventOrder(ctx'.events, got.event, got.overflow, sent',
                  ~ctx'.choked /\ client # "gone")
  <2>0. got.event \in Nat /\ got.overflow \in BOOLEAN
    BY <1>1 DEF Got
  <2>1. EventOrder(ctx.events, got.event, got.overflow, sent,
                   ~ctx.choked /\ client # "gone")
    BY DEF IInv, Ordered
  <2>2. CASE ctx'.events = ctx.events /\ ctx'.choked
    <3>1. sent' \in Nat /\ sent <= sent'
      BY <1>1
    <3>2. EventOrder(ctx.events, got.event, got.overflow, sent, FALSE)
      BY <2>1 DEF EventOrder
    <3>3. \A i \in EventsIn(ctx.events) : ctx.events[i].n \in Number
      BY <1>7, Numbered
    <3>4. EventOrder(ctx.events, got.event, got.overflow, sent', FALSE)
      BY <1>1, <2>0, <3>1, <3>2, <3>3 DEF EventOrder, Number
    <3>. QED BY <2>2, <3>4
  <2>3. CASE ~ctx.choked /\ ctx'.events = Append(ctx.events, e)
    <3>1. EventOrder(ctx.events, got.event, got.overflow, sent, TRUE)
      BY <2>1, <2>3
    <3>2. EventOrder(Append(ctx.events, e), got.event, got.overflow, sent', TRUE)
      <4>1. CASE e.id = "event"
        BY <1>1, <1>7, <2>0, <3>1, <4>1, EventSent
      <4>2. CASE e.id # "event"
        BY <1>1, <1>7, <2>0, <3>1, <4>2, EventsOther
      <4>. QED BY <4>1, <4>2
    <3>. QED BY <2>3, <3>2, EventsOpen
  <2>. QED BY <1>3, <2>2, <2>3
<1>11. ReplyOrder(ctx'.events, dispatch, got.replies, accepted)
  <2>1. ReplyOrder(ctx.events, dispatch, got.replies, accepted)
    BY DEF IInv, Ordered
  <2>2. /\ RepliesIn(Append(ctx.events, e)) = RepliesIn(ctx.events)
        /\ \A i \in RepliesIn(ctx.events) : Append(ctx.events, e)[i] = ctx.events[i]
    BY <1>7, RepliesSame
  <2>3. ReplyOrder(Append(ctx.events, e), dispatch, got.replies, accepted)
    BY <2>1, <2>2, RepliesOther
  <2>. QED BY <1>3, <2>1, <2>3
<1>12. Ordered'
  BY <1>3, <1>10, <1>11 DEF IInv, Ordered
<1>. QED BY <1>4, <1>5, <1>6, <1>8, <1>9, <1>12 DEF IInv

LEMMA BroadcastKeeps ==
  ASSUME IInv, Broadcast
  PROVE  IInv'
<1> DEFINE e == [id |-> "event", n |-> sent + 1]
<1>1. /\ UNCHANGED <<dispatch, value, core, client, timeout, cur_event, workload,
                     logged, accepted, got>>
      /\ sent' = sent + 1
      /\ ctx' = IF client = "gone" THEN ctx ELSE SendEvent(ctx, e)
  BY DEF Broadcast
<1>2. /\ e \in Events /\ e.id = "event" /\ e.n = sent + 1 /\ sent \in Nat
      /\ ctx \in Handles /\ got \in Got
  BY DEF IInv, Types, Events, Number
<1>3. CASE client # "gone"
  <2>. HIDE DEF e
  <2>. QED BY <1>1, <1>2, <1>3, SendKeeps DEF CoreSame
<1>4. CASE client = "gone"
  <2>1. ctx' = ctx
    BY <1>1, <1>4
  <2>2. /\ Attached' /\ ChangesKnown'
        /\ Pending("request")' = Pending("request")
        /\ (Pending("update_prop") + (IF core.pc = "update" THEN 1 ELSE 0))' =
             Pending("update_prop") + (IF core.pc = "update" THEN 1 ELSE 0)
    BY <1>1, <2>1, ObserversSame DEF CoreSame
  <2>3. Types' /\ Bounded' /\ Counted' /\ Leaving'
    BY <1>1, <1>2, <2>1, <2>2 DEF IInv, Types, Bounded, Counted, Leaving
  <2>4. EventOrder(ctx.events, got.event, got.overflow, sent + 1, FALSE)
    <3>1. EventOrder(ctx.events, got.event, got.overflow, sent,
                     ~ctx.choked /\ client # "gone")
      BY DEF IInv, Ordered
    <3>2. /\ sent + 1 \in Nat /\ sent <= sent + 1 /\ got.event \in Nat
          /\ got.overflow \in BOOLEAN /\ ctx.events \in Seq(Events)
      BY <1>2 DEF Got, Handles
    <3>3. EventOrder(ctx.events, got.event, got.overflow, sent, FALSE)
      BY <3>1 DEF EventOrder
    <3>4. \A i \in EventsIn(ctx.events) : ctx.events[i].n \in Number
      BY <3>2, Numbered
    <3>. QED BY <1>2, <3>2, <3>3, <3>4 DEF EventOrder, Number
  <2>5. Ordered'
    BY <1>1, <1>4, <2>1, <2>4 DEF IInv, Ordered
  <2>. QED BY <2>2, <2>3, <2>5 DEF IInv
<1>. QED BY <1>3, <1>4

LEMMA ShutdownClientsKeeps ==
  ASSUME IInv, ShutdownClients
  PROVE  IInv'
<1> DEFINE e == [id |-> "shutdown"]
<1>1. /\ UNCHANGED <<dispatch, value, client, timeout, cur_event, workload,
                     sent, logged, accepted, got>>
      /\ core.pc = "shutdown"
      /\ \/ client = "gone" /\ core' = [pc |-> "exited"] /\ ctx' = ctx
         \/ /\ client # "gone" /\ ctx' = SendEvent(ctx, e)
            /\ core' = [pc |-> "sleep", worked |-> FALSE]
  BY DEF ShutdownClients, count
<1>2. CoreSame
  <2>1. core'.pc = "exited" \/ core'.pc = "sleep"
    BY <1>1
  <2>2. /\ [pc |-> "exited"] \in CoreStates
        /\ [pc |-> "sleep", worked |-> FALSE] \in CoreStates
    BY DEF CoreStates
  <2>3. core' \in CoreStates
    BY <1>1, <2>2
  <2>. QED BY <1>1, <2>1, <2>3 DEF CoreSame
<1>3. CASE client # "gone"
  <2>1. e \in Events /\ e.id = "shutdown"
    BY DEF Events
  <2>. HIDE DEF e
  <2>. QED BY <1>1, <1>2, <1>3, <2>1, SendKeeps
<1>4. CASE client = "gone"
  <2>1. ctx' \in Handles /\ SameData(ctx', ctx) /\ core' \in CoreStates
    BY <1>1, <1>4 DEF IInv, Types, SameData, CoreStates
  <2>2. Types' /\ Leaving'
    BY <1>1, <1>4, <2>1 DEF IInv, Types, Leaving, SameData
  <2>. QED BY <1>1, <1>2, <2>1, <2>2, Quiet DEF IInv
<1>. QED BY <1>3, <1>4

(* The types of what the steps below read, and the calls counted.          *)
LEMMA PendingCalls ==
  ASSUME IInv
  PROVE  /\ \A fn : Pending(fn) \in Nat /\ Pending(fn) = Cardinality(CallsOf(dispatch, fn))
         /\ ctx \in Handles /\ dispatch \in Seq(Calls) /\ ctx.reserved_events \in Nat
         /\ ctx.properties_updating \in Nat /\ ctx.events \in Seq(Events)
         /\ ctx.messages \in Seq(Nat) /\ Len(ctx.events) \in Nat
         /\ Len(ctx.messages) \in Nat /\ Len(ctx.properties) \in Nat
         /\ got \in Got /\ accepted \in Nat /\ logged \in Nat /\ sent \in Nat
         /\ got.replies \in Nat /\ got.log \in Nat /\ got.log_overflow \in BOOLEAN
         /\ core \in CoreStates /\ got.event \in Nat /\ got.overflow \in BOOLEAN
<1>1. dispatch \in Seq(Calls) /\ ctx \in Handles /\ got \in Got
  BY DEF IInv, Types
<1>2. \A fn : Pending(fn) = Cardinality(CallsOf(dispatch, fn))
  BY DEF Pending, CallsOf
<1>3. \A fn : Cardinality(CallsOf(dispatch, fn)) \in Nat
  BY <1>1, CallsFinite
<1>4. /\ ctx.reserved_events \in Nat /\ ctx.properties_updating \in Nat
      /\ ctx.events \in Seq(Events) /\ ctx.messages \in Seq(Nat)
      /\ ctx.properties \in Seq(Observers)
  BY <1>1 DEF Handles
<1>5. /\ Len(ctx.events) \in Nat /\ Len(ctx.messages) \in Nat
      /\ Len(ctx.properties) \in Nat
  BY <1>4
<1>6. /\ got.replies \in Nat /\ got.log \in Nat /\ got.log_overflow \in BOOLEAN
      /\ got.event \in Nat /\ got.overflow \in BOOLEAN
  BY <1>1 DEF Got
<1>7. accepted \in Nat /\ logged \in Nat /\ sent \in Nat /\ core \in CoreStates
  BY DEF IInv, Types
<1>. QED BY <1>1, <1>2, <1>3, <1>4, <1>5, <1>6, <1>7

(* The updates when another call is queued.                                *)
LEMMA UpdatesAppend ==
  ASSUME NEW d \in Seq(Calls), NEW c \in Calls, c.fn # "update_prop", NEW o
  PROVE  Updates(Append(d, c), o) = Updates(d, o)
<1>1. \A i \in Updates(d, o) : i \in Updates(Append(d, c), o)
  BY Appends DEF Updates
<1>2. \A i \in Updates(Append(d, c), o) : i \in Updates(d, o)
  BY Appends DEF Updates
<1>. QED BY <1>1, <1>2

(* The updates when the first call leaves.                                 *)
LEMMA UpdatesTail ==
  ASSUME NEW d \in Seq(Calls), d # <<>>, NEW o
  PROVE  /\ \A i \in Updates(Tail(d), o) : i + 1 \in Updates(d, o) /\ i \in Number
         /\ \A i \in Updates(d, o) : i # 1 => i - 1 \in Updates(Tail(d), o)
         /\ 1 \in Updates(d, o) <=> Head(d).fn = "update_prop" /\ Head(d).prop = o
BY Tails DEF Updates, Number

(* An observer is to be updated if a call is queued or being made.         *)
LEMMA UpdatedIs ==
  /\ \A o : Updated(o) <=> \/ Updates(dispatch, o) # {}
                           \/ core.pc = "update" /\ core.prop = o
  /\ \A o : Updated(o)' <=> \/ Updates(dispatch', o) # {}
                            \/ core'.pc = "update" /\ core'.prop = o
BY DEF Updated, Updates

(* A request reserves an event and queues a call.                          *)
LEMMA RequestKeeps ==
  ASSUME IInv, Request
  PROVE  IInv'
<1> DEFINE call == [fn |-> "request", n |-> accepted + 1]
<1>0. /\ ctx \in Handles /\ dispatch \in Seq(Calls) /\ ctx.reserved_events \in Nat
      /\ Len(ctx.events) \in Nat /\ accepted \in Nat /\ got.replies \in Nat
      /\ ctx.events \in Seq(Events)
  BY PendingCalls
<1>1. /\ UNCHANGED <<value, core, client, timeout, cur_event, workload,
                     sent, logged, got>>
      /\ ~(Len(ctx.events) + ctx.reserved_events >= MaxEvents)
      /\ client \notin {"leaving", "gone"} /\ timeout # "detach"
      /\ accepted' = accepted + 1 /\ dispatch' = Append(dispatch, call)
      /\ ctx' = [ctx EXCEPT !.reserved_events = @ + 1]
  BY DEF Request, Full, InUse
<1>2. call \in Calls /\ call.fn = "request" /\ call.n = accepted + 1
  BY <1>0 DEF Calls, Number
<1>. HIDE DEF call
<1>3. /\ ctx' \in Handles /\ dispatch' \in Seq(Calls)
      /\ ctx'.events = ctx.events /\ ctx'.reserved_events = ctx.reserved_events + 1
      /\ ctx'.choked = ctx.choked /\ ctx'.properties = ctx.properties
      /\ ctx'.lowest_changed = ctx.lowest_changed /\ ctx'.messages = ctx.messages
      /\ ctx'.properties_updating = ctx.properties_updating /\ ctx'.prop = ctx.prop
  <2>1. dispatch' \in Seq(Calls) /\ ctx.reserved_events + 1 \in Nat
    BY <1>0, <1>1, <1>2, Appends
  <2>. QED BY <1>0, <1>1, <2>1 DEF Handles
<1>4. Types'
  BY <1>0, <1>1, <1>3 DEF IInv, Types
<1>5. Bounded' /\ Leaving'
  BY <1>1, <1>3 DEF IInv, Bounded, Leaving
<1>6. Counted'
  <2>1. /\ Cardinality(CallsOf(dispatch', "request")) =
             Cardinality(CallsOf(dispatch, "request")) + 1
        /\ Cardinality(CallsOf(dispatch', "update_prop")) =
             Cardinality(CallsOf(dispatch, "update_prop"))
    <3>1. Cardinality(CallsOf(dispatch, "update_prop")) \in Nat
      BY <1>0, CallsFinite
    <3>. QED BY <1>0, <1>1, <1>2, <3>1, CallsAppend
  <2>2. /\ Pending("request")' = Pending("request") + 1
        /\ Pending("update_prop")' = Pending("update_prop")
    BY <2>1 DEF Pending, CallsOf
  <2>. QED BY <1>0, <1>1, <1>3, <2>2, ClientAssumption DEF IInv, Counted
<1>7. Attached'
  <2>1. \A o : Updates(dispatch', o) = Updates(dispatch, o)
    BY <1>0, <1>1, <1>2, UpdatesAppend
  <2>2. \A o : Updated(o)' <=> Updated(o)
    BY <1>1, <2>1, UpdatedIs
  <2>. QED BY <1>1, <1>3, <2>1, <2>2 DEF IInv, Attached
<1>8. Ordered'
  <2>1. ReplyOrder(ctx.events, dispatch', got.replies, accepted')
    BY <1>0, <1>1, <1>2, RequestSent DEF IInv, Ordered
  <2>. QED BY <1>1, <1>3, <2>1 DEF IInv, Ordered
<1>9. ChangesKnown'
  BY <1>1, <1>3 DEF IInv, ChangesKnown
<1>. QED BY <1>4, <1>5, <1>6, <1>7, <1>8, <1>9 DEF IInv

(* A log message enters the buffer, or is counted as lost.                 *)
LEMMA LogKeeps ==
  ASSUME IInv, Log
  PROVE  IInv'
<1> DEFINE m == ctx.messages
           e == IF LogSize - Len(m) > 1 THEN logged + 1 ELSE 0
<1>0. /\ ctx \in Handles /\ Len(m) \in Nat /\ logged \in Nat /\ m \in Seq(Nat)
      /\ got.log \in Nat /\ got.log_overflow \in BOOLEAN /\ LogSize \in Nat \ {0}
  BY PendingCalls, ClientAssumption
<1>1. /\ UNCHANGED <<dispatch, value, core, client, timeout, cur_event, workload,
                     sent, accepted, got>>
      /\ client # "gone" /\ logged' = logged + 1
      /\ ctx' = IF LogSize - Len(m) = 0 THEN ctx
                ELSE WakeupClient([ctx EXCEPT !.messages = Append(@, e)])
  BY DEF Log
<1>2. LogOrder(m, got.log, got.log_overflow, logged) /\ Len(m) <= LogSize
      /\ (Len(m) = LogSize => m[LogSize] = 0)
  BY DEF IInv, Ordered, Bounded
<1>3. e \in Nat /\ e \in {0, logged + 1}
  BY <1>0
<1>4. /\ ctx' \in Handles /\ ctx'.events = ctx.events
      /\ ctx'.reserved_events = ctx.reserved_events
      /\ ctx'.choked = ctx.choked /\ ctx'.properties = ctx.properties
      /\ ctx'.lowest_changed = ctx.lowest_changed
      /\ ctx'.properties_updating = ctx.properties_updating /\ ctx'.prop = ctx.prop
      /\ ctx'.messages = IF LogSize - Len(m) = 0 THEN m ELSE Append(m, e)
  <2>. HIDE DEF e
  <2>1. CASE LogSize - Len(m) = 0
    BY <1>0, <1>1, <2>1
  <2>2. CASE LogSize - Len(m) # 0
    <3> DEFINE c == [ctx EXCEPT !.messages = Append(@, e)]
    <3>1. /\ c \in Handles /\ c.events = ctx.events
          /\ c.reserved_events = ctx.reserved_events
          /\ c.choked = ctx.choked /\ c.properties = ctx.properties
          /\ c.lowest_changed = ctx.lowest_changed
          /\ c.properties_updating = ctx.properties_updating /\ c.prop = ctx.prop
          /\ c.messages = Append(m, e)
      <4>1. Append(m, e) \in Seq(Nat)
        BY <1>0, <1>3
      <4>. HIDE DEF m
      <4>2. c = [ctx EXCEPT !.messages = Append(m, e)]
        BY DEF m
      <4>3. c.messages = Append(m, e)
        BY <1>0, <4>2 DEF Handles
      <4>. QED BY <1>0, <4>1, <4>2, <4>3 DEF Handles
    <3>2. ctx' = WakeupClient(c)
      BY <1>1, <2>2
    <3>. HIDE DEF c
    <3>. QED BY <2>2, <3>1, <3>2, WakeupClientDoes DEF SameData
  <2>. QED BY <2>1, <2>2
<1>5. LogOrder(ctx'.messages, got.log, got.log_overflow, logged') /\ Len(ctx'.messages) <= LogSize
      /\ (Len(ctx'.messages) = LogSize => ctx'.messages[LogSize] = 0)
  <2>1. CASE LogSize - Len(m) = 0
    <3>1. Len(m) = LogSize /\ m # <<>> /\ m[Len(m)] = 0
      BY <1>0, <1>2, <2>1
    <3>2. LogOrder(m, got.log, got.log_overflow, logged + 1)
      BY <1>0, <1>2, <3>1, LogDropped
    <3>. QED BY <1>1, <1>2, <1>4, <2>1, <3>2
  <2>2. CASE LogSize - Len(m) # 0
    <3>1. LogOrder(Append(m, e), got.log, got.log_overflow, logged + 1)
      BY <1>0, <1>2, <1>3, LogAdded
    <3>2. Len(Append(m, e)) = Len(m) + 1 /\ Append(m, e)[Len(m) + 1] = e
      BY <1>0, <1>3, Appends
    <3>3. Len(m) + 1 = LogSize => e = 0
      BY <1>0
    <3>4. Len(m) + 1 <= LogSize
      BY <1>0, <1>2, <2>2
    <3>. HIDE DEF e, m
    <3>5. Len(Append(m, e)) = LogSize => Append(m, e)[LogSize] = 0
      BY <1>0, <3>2, <3>3
    <3>. QED BY <1>1, <1>4, <2>2, <3>1, <3>2, <3>4, <3>5
  <2>. QED BY <2>1, <2>2
<1>. HIDE DEF m, e
<1>6. /\ ctx'.lowest_changed \in 1 .. Len(ctx'.properties) + 1
      /\ Attached' /\ ChangesKnown'
      /\ Pending("request")' = Pending("request")
      /\ (Pending("update_prop") + (IF core.pc = "update" THEN 1 ELSE 0))' =
           Pending("update_prop") + (IF core.pc = "update" THEN 1 ELSE 0)
  BY <1>1, <1>4, ObserversSame DEF CoreSame
<1>7. Types' /\ Bounded' /\ Counted' /\ Leaving'
  <2>1. logged' \in Nat
    BY <1>0, <1>1
  <2>. QED BY <1>1, <1>4, <1>5, <1>6, <2>1 DEF IInv, Types, Bounded, Counted,
              Leaving
<1>8. Ordered'
  BY <1>1, <1>4, <1>5 DEF IInv, Ordered
<1>. QED BY <1>6, <1>7, <1>8 DEF IInv

(* The property changes, and all observers are marked.                     *)
LEMMA ChangeKeeps ==
  ASSUME IInv, NEW v \in Values, Change(v)
  PROVE  IInv'
<1>1. /\ UNCHANGED <<ctx, dispatch, client, timeout, cur_event, workload,
                     sent, logged, accepted, got>>
      /\ core.pc = "run" /\ core' = [pc |-> "notify"] /\ value' = v
  BY DEF Change
<1>2. core' \in CoreStates /\ core'.pc = "notify"
  BY <1>1 DEF CoreStates
<1>3. Types' /\ Bounded' /\ Leaving'
  BY <1>1, <1>2 DEF IInv, Types, Bounded, Leaving
<1>4. Counted'
  BY <1>1 DEF IInv, Counted, Pending
<1>5. Attached'
  BY <1>1 DEF IInv, Attached, Updated, Updates
<1>6. Ordered'
  BY <1>1 DEF IInv, Ordered
<1>7. ChangesKnown'
  BY <1>1, <1>2 DEF IInv, ChangesKnown
<1>. QED BY <1>3, <1>4, <1>5, <1>6, <1>7 DEF IInv

LEMMA NotifyKeeps ==
  ASSUME IInv, Notify
  PROVE  IInv'
<1>1. /\ UNCHANGED <<dispatch, value, client, timeout, cur_event, workload,
                     sent, logged, accepted, got>>
      /\ core.pc = "notify" /\ core' = [pc |-> "run"]
      /\ ctx' = IF client = "gone" THEN ctx ELSE NotifyProperty(ctx)
  BY DEF Notify, count
<1>2. core' \in CoreStates /\ core'.pc = "run"
  BY <1>1 DEF CoreStates
<1>3. ctx \in Handles /\ ctx.properties \in Seq(Observers)
  BY DEF IInv, Types, Handles
<1>4. \A o \in Observers : ctx.prop[o] \in Properties
  BY <1>3 DEF Handles
<1>5. /\ ctx' \in Handles /\ ctx'.events = ctx.events
      /\ ctx'.reserved_events = ctx.reserved_events
      /\ ctx'.choked = ctx.choked /\ ctx'.properties = ctx.properties
      /\ ctx'.lowest_changed \in {1, ctx.lowest_changed}
      /\ ctx'.properties_updating = ctx.properties_updating
      /\ ctx'.messages = ctx.messages
      /\ \A o \in Observers :
           ctx'.prop[o] = IF client # "gone" /\ o \in ToSet(ctx.properties)
                          THEN MarkChanged(ctx.prop[o]) ELSE ctx.prop[o]
  <2>1. CASE client = "gone"
    BY <1>1, <1>3, <2>1
  <2>2. CASE client # "gone"
    <3>1. /\ NotifyProperty(ctx) \in Handles
          /\ SameData(NotifyProperty(ctx),
               [ctx EXCEPT !.prop = NotifyProperty(ctx).prop,
                           !.lowest_changed = NotifyProperty(ctx).lowest_changed])
          /\ NotifyProperty(ctx).lowest_changed \in {1, ctx.lowest_changed}
          /\ \A o \in Observers :
               NotifyProperty(ctx).prop[o] =
                 IF o \in ToSet(ctx.properties) THEN MarkChanged(ctx.prop[o])
                 ELSE ctx.prop[o]
      BY <1>3, NotifyPropertyDoes
    <3>2. ctx' = NotifyProperty(ctx)
      BY <1>1, <2>2
    <3>3. SameData(ctx', [ctx EXCEPT !.prop = ctx'.prop,
                                     !.lowest_changed = ctx'.lowest_changed])
      BY <3>1, <3>2
    <3>4. /\ ctx'.events = ctx.events /\ ctx'.reserved_events = ctx.reserved_events
          /\ ctx'.choked = ctx.choked /\ ctx'.properties = ctx.properties
          /\ ctx'.properties_updating = ctx.properties_updating
          /\ ctx'.messages = ctx.messages
      BY <1>3, <3>3 DEF SameData, Handles
    <3>. QED BY <2>2, <3>1, <3>2, <3>4
  <2>. QED BY <2>1, <2>2
<1>6. ASSUME NEW o \in Observers
      PROVE  /\ ctx'.prop[o].user_value = ctx.prop[o].user_value
             /\ ctx'.prop[o].memory = ctx.prop[o].memory
             /\ ctx'.prop[o].dead = ctx.prop[o].dead
             /\ ctx'.prop[o].updating = ctx.prop[o].updating
             /\ ctx'.prop[o].twice = ctx.prop[o].twice
             /\ ctx'.prop[o] = ctx.prop[o] \/ ~Retrieved(ctx'.prop[o])
             /\ client # "gone" /\ o \in ToSet(ctx.properties)
                  => ~Retrieved(ctx'.prop[o])
  BY <1>4, <1>5, MarkChangedDoes
<1>7. Types'
  BY <1>1, <1>2, <1>5 DEF IInv, Types
<1>8. Bounded'
  <2>1. Len(ctx.properties) \in Nat
    BY <1>3
  <2>. QED BY <1>5, <2>1 DEF IInv, Bounded
<1>9. Counted' /\ Leaving'
  BY <1>1, <1>5 DEF IInv, Counted, Leaving, Pending
<1>10. \A i \in DOMAIN ctx.properties : /\ ctx.properties[i] \in Observers
                                        /\ ctx.properties[i] \in ToSet(ctx.properties)
  BY <1>3 DEF ToSet
<1>11. Attached'
  <2>1. \A o : Updated(o)' <=> Updated(o)
    BY <1>1, UpdatedIs
  <2>2. \A i \in DOMAIN ctx.properties :
          /\ ctx'.prop[ctx.properties[i]].memory = "ctx"
          /\ ~ctx'.prop[ctx.properties[i]].dead
    BY <1>6, <1>10 DEF IInv, Attached
  <2>. QED BY <1>1, <1>5, <1>6, <2>1, <2>2 DEF IInv, Attached
<1>12. Ordered'
  BY <1>1, <1>5 DEF IInv, Ordered
<1>13. ChangesKnown'
  <2>1. ASSUME NEW i \in DOMAIN ctx.properties, Retrieved(ctx'.prop[ctx.properties[i]])
        PROVE  /\ ctx'.prop[ctx.properties[i]].new_value #
                    ctx'.prop[ctx.properties[i]].user_value
               /\ client = "gone"
    BY <1>6, <1>10, <2>1 DEF IInv, ChangesKnown
  <2>2. \A o \in Observers :
          /\ got.value[o] = ctx'.prop[o].user_value
          /\ ctx'.prop[o].memory = "unused" => got.value[o] = 0
    BY <1>6 DEF IInv, ChangesKnown
  <2>. QED BY <1>1, <1>5, <2>1, <2>2 DEF ChangesKnown
<1>. QED BY <1>7, <1>8, <1>9, <1>11, <1>12, <1>13 DEF IInv

(* The core answers a request: the reserved event becomes the reply.       *)
LEMMA RunRequestKeeps ==
  ASSUME IInv, RunRequest
  PROVE  IInv'
<1> DEFINE d == dispatch  call == Head(dispatch)
           reply == [id |-> "reply", n |-> call.n]
           c == [ctx EXCEPT !.reserved_events = @ - 1]
<1>0. /\ ctx \in Handles /\ d \in Seq(Calls) /\ ctx.reserved_events \in Nat
      /\ Len(ctx.events) \in Nat /\ accepted \in Nat /\ got.replies \in Nat
      /\ ctx.events \in Seq(Events) /\ core \in CoreStates
      /\ Pending("request") = Cardinality(CallsOf(d, "request"))
      /\ Pending("update_prop") = Cardinality(CallsOf(d, "update_prop"))
      /\ Pending("request") \in Nat
  BY PendingCalls
<1>1. /\ UNCHANGED <<value, client, timeout, cur_event, workload,
                     sent, logged, accepted, got>>
      /\ d # <<>> /\ call.fn = "request" /\ dispatch' = Tail(d)
      /\ ctx' = AppendEvent(c, reply)
      /\ \/ core' = core
         \/ core.pc = "sleep" /\ core' = [core EXCEPT !.worked = TRUE]
  BY DEF RunRequest, count
<1>2. CoreSame /\ core' \in CoreStates /\ (core'.pc = "update" <=> core.pc = "update")
  <2>1. CASE core' = core
    BY <1>0, <2>1 DEF CoreSame
  <2>2. CASE core.pc = "sleep" /\ core' = [core EXCEPT !.worked = TRUE]
    <3>1. core \in [pc : {"sleep"}, worked : BOOLEAN]
      BY <1>0, <2>2 DEF CoreStates
    <3>2. core' \in [pc : {"sleep"}, worked : BOOLEAN]
      BY <2>2, <3>1
    <3>. QED BY <2>2, <3>2 DEF CoreSame, CoreStates
  <2>. QED BY <1>1, <2>1, <2>2
<1>3. call = d[1] /\ d[1] \in Calls /\ 1 \in RequestsIn(d) /\ Tail(d) \in Seq(Calls)
  BY <1>0, <1>1, Tails DEF RequestsIn
<1>4. reply \in Events /\ reply.id = "reply" /\ reply.n = d[1].n
  <2>1. call.n \in Number
    BY <1>1, <1>3 DEF Calls
  <2>. QED BY <1>3, <2>1 DEF Events
<1>5. /\ Cardinality(CallsOf(Tail(d), "request")) =
           Cardinality(CallsOf(d, "request")) - 1
      /\ Cardinality(CallsOf(Tail(d), "update_prop")) =
           Cardinality(CallsOf(d, "update_prop"))
      /\ Cardinality(CallsOf(Tail(d), "request")) \in Nat
  <2>1. Cardinality(CallsOf(d, "update_prop")) \in Nat
    BY <1>0, CallsFinite
  <2>2. Cardinality(CallsOf(Tail(d), "request")) \in Nat
    BY <1>3, CallsFinite
  <2>3. d[1].fn = "request" /\ d[1].fn # "update_prop"
    BY <1>1, <1>3
  <2>. HIDE DEF d, call
  <2>4. \A fn : Cardinality(CallsOf(Tail(d), fn)) =
                 Cardinality(CallsOf(d, fn)) - (IF d[1].fn = fn THEN 1 ELSE 0)
    BY <1>0, <1>1, CallsTail
  <2>. QED BY <2>1, <2>2, <2>3, <2>4
<1>6. ctx.reserved_events - 1 \in Nat /\ ctx.reserved_events # 0
  <2>1. ctx.reserved_events = Cardinality(CallsOf(d, "request"))
    BY <1>0 DEF IInv, Counted
  <2>. QED BY <1>0, <1>5, <2>1
<1>7. /\ Pending("request")' = Pending("request") - 1
      /\ Pending("update_prop")' = Pending("update_prop")
  BY <1>0, <1>1, <1>5 DEF Pending, CallsOf
<1>. HIDE DEF d, call, reply
<1>8. /\ c \in Handles /\ c.events = ctx.events
      /\ c.reserved_events = ctx.reserved_events - 1
      /\ c.choked = ctx.choked /\ c.properties = ctx.properties
      /\ c.lowest_changed = ctx.lowest_changed /\ c.messages = ctx.messages
      /\ c.properties_updating = ctx.properties_updating /\ c.prop = ctx.prop
  BY <1>0, <1>6 DEF Handles
<1>. HIDE DEF c
<1>9. /\ ctx' \in Handles /\ ctx'.events = Append(ctx.events, reply)
      /\ ctx'.reserved_events = ctx.reserved_events - 1
      /\ ctx'.choked = ctx.choked /\ ctx'.properties = ctx.properties
      /\ ctx'.lowest_changed = ctx.lowest_changed /\ ctx'.messages = ctx.messages
      /\ ctx'.properties_updating = ctx.properties_updating /\ ctx'.prop = ctx.prop
  <2>1. ctx' \in Handles /\ SameData(ctx', [c EXCEPT !.events = Append(@, reply)])
    BY <1>1, <1>4, <1>8, AppendEventDoes
  <2>. QED BY <1>8, <2>1 DEF SameData, Handles
<1>10. client \notin {"leaving", "gone"}
  BY <1>6 DEF IInv, Leaving
<1>11. Types'
  BY <1>1, <1>2, <1>3, <1>9 DEF IInv, Types
<1>12. Bounded' /\ Leaving'
  BY <1>1, <1>9, <1>10 DEF IInv, Bounded, Leaving
<1>13. Counted'
  <2>1. Len(Append(ctx.events, reply)) = Len(ctx.events) + 1
    BY <1>0
  <2>. QED BY <1>0, <1>2, <1>7, <1>9, <2>1, ClientAssumption DEF IInv, Counted
<1>14. Attached'
  <2>1. \A o : /\ \A i \in Updates(Tail(d), o) : i + 1 \in Updates(d, o) /\ i \in Number
    BY <1>0, <1>1, UpdatesTail
  <2>2. \A o : Updated(o)' => Updated(o)
    <3>1. \A o : Updates(Tail(d), o) # {} => Updates(d, o) # {}
      BY <2>1
    <3>. QED BY <1>1, <1>2, <3>1, UpdatedIs DEF d, CoreSame
  <2>3. ASSUME NEW o \in Observers, ~ctx.prop[o].twice
        PROVE  /\ \A i, j \in Updates(Tail(d), o) : i = j
               /\ core'.pc = "update" /\ core'.prop = o => Updates(Tail(d), o) = {}
    <3>1. /\ \A i, j \in Updates(d, o) : i = j
          /\ core.pc = "update" /\ core.prop = o => Updates(d, o) = {}
      BY <2>3 DEF IInv, Attached, d
    <3>2. ASSUME NEW i \in Updates(Tail(d), o), NEW j \in Updates(Tail(d), o)
          PROVE  i = j
      <4>1. i + 1 = j + 1 /\ i \in Number /\ j \in Number
        BY <2>1, <3>1
      <4>. QED BY <4>1 DEF Number
    <3>. QED BY <1>2, <2>1, <3>1, <3>2 DEF CoreSame
  <2>. QED BY <1>1, <1>9, <2>2, <2>3 DEF IInv, Attached
<1>15. Ordered'
  <2>1. /\ EventOrder(ctx.events, got.event, got.overflow, sent,
                      ~ctx.choked /\ client # "gone")
        /\ ReplyOrder(ctx.events, d, got.replies, accepted)
    BY DEF IInv, Ordered, d
  <2>2. ReplyOrder(Append(ctx.events, reply), Tail(d), got.replies, accepted)
    BY <1>0, <1>1, <1>3, <1>4, <2>1, RequestAnswered
  <2>3. EventOrder(Append(ctx.events, reply), got.event, got.overflow, sent,
                   ~ctx.choked /\ client # "gone")
    <3> DEFINE open == ~ctx.choked /\ client # "gone"
    <3>1. open \in BOOLEAN /\ EventOrder(ctx.events, got.event, got.overflow, sent, open)
      BY <2>1
    <3>. HIDE DEF open
    <3>2. got.event \in Nat /\ got.overflow \in BOOLEAN /\ sent \in Nat
      BY PendingCalls
    <3>3. EventOrder(Append(ctx.events, reply), got.event, got.overflow, sent, open)
      BY <1>0, <1>4, <3>1, <3>2, EventsOther
    <3>. QED BY <3>3 DEF open
  <2>. QED BY <1>1, <1>9, <2>2, <2>3 DEF IInv, Ordered
<1>16. ChangesKnown'
  BY <1>1, <1>2, <1>9 DEF IInv, ChangesKnown, CoreSame
<1>. QED BY <1>11, <1>12, <1>13, <1>14, <1>15, <1>16 DEF IInv

(* The core starts to retrieve a value, and has it.                        *)
LEMMA GetPropertyKeeps ==
  ASSUME IInv, GetProperty
  PROVE  IInv'
<1> DEFINE d == dispatch  call == Head(dispatch)
<1>0. /\ ctx \in Handles /\ d \in Seq(Calls) /\ accepted \in Nat /\ got.replies \in Nat
      /\ ctx.events \in Seq(Events) /\ ctx.properties_updating \in Nat
      /\ Pending("request") = Cardinality(CallsOf(d, "request"))
      /\ Pending("update_prop") = Cardinality(CallsOf(d, "update_prop"))
      /\ Pending("request") \in Nat /\ Pending("update_prop") \in Nat
  BY PendingCalls
<1>1. /\ UNCHANGED <<ctx, value, client, timeout, cur_event, workload,
                     sent, logged, accepted, got>>
      /\ d # <<>> /\ call.fn = "update_prop" /\ dispatch' = Tail(d)
      /\ core.pc \in {"run", "sleep"}
      /\ core' = [pc |-> "update", prop |-> call.prop, then |-> core.pc]
  BY DEF GetProperty, count
<1>2. /\ call = d[1] /\ d[1] \in Calls /\ 1 \notin RequestsIn(d)
      /\ Tail(d) \in Seq(Calls)
  BY <1>0, <1>1, Tails DEF RequestsIn
<1>3. call.prop \in Observers
  BY <1>1, <1>2 DEF Calls
<1>4. core' \in CoreStates /\ core'.pc = "update" /\ core'.prop = call.prop
  BY <1>1, <1>3 DEF CoreStates
<1>5. /\ Cardinality(CallsOf(Tail(d), "request")) = Cardinality(CallsOf(d, "request"))
      /\ Cardinality(CallsOf(Tail(d), "update_prop")) =
           Cardinality(CallsOf(d, "update_prop")) - 1
  <2>1. d[1].fn = "update_prop" /\ d[1].fn # "request"
    BY <1>1, <1>2
  <2>2. Cardinality(CallsOf(d, "request")) \in Nat
    BY <1>0
  <2>. HIDE DEF d, call
  <2>3. \A fn : Cardinality(CallsOf(Tail(d), fn)) =
                 Cardinality(CallsOf(d, fn)) - (IF d[1].fn = fn THEN 1 ELSE 0)
    BY <1>0, <1>1, CallsTail
  <2>. QED BY <2>1, <2>2, <2>3
<1>6. /\ Pending("request")' = Pending("request")
      /\ Pending("update_prop")' = Pending("update_prop") - 1
  BY <1>0, <1>1, <1>5 DEF Pending, CallsOf
<1>7. Types'
  BY <1>1, <1>2, <1>4 DEF IInv, Types
<1>8. Bounded' /\ Leaving'
  BY <1>1 DEF IInv, Bounded, Leaving
<1>9. Counted'
  <2>1. /\ Len(ctx.events) + ctx.reserved_events <= MaxEvents
        /\ ctx.reserved_events = Pending("request")
        /\ ctx.properties_updating = Pending("update_prop")
    BY <1>0, <1>1 DEF IInv, Counted
  <2>2. /\ ctx.reserved_events = Pending("request")'
        /\ ctx.properties_updating = Pending("update_prop")' + 1
    BY <1>0, <1>6, <2>1
  <2>. QED BY <1>1, <1>4, <2>1, <2>2 DEF Counted
<1>. HIDE DEF d, call
<1>10. /\ \A o : \A i \in Updates(Tail(d), o) : i + 1 \in Updates(d, o) /\ i \in Number
       /\ \A o : 1 \in Updates(d, o) <=> o = call.prop
  BY <1>0, <1>1, UpdatesTail DEF d, call
<1>11. Attached'
  <2>1. \A o : Updated(o)' => Updated(o)
    <3>1. \A o : Updates(Tail(d), o) # {} => Updates(d, o) # {}
      BY <1>10
    <3>2. \A o : core'.prop = o => Updates(d, o) # {}
      BY <1>4, <1>10
    <3>. QED BY <1>1, <3>1, <3>2, UpdatedIs DEF d
  <2>2. ASSUME NEW o \in Observers, ~ctx.prop[o].twice
        PROVE  /\ \A i, j \in Updates(Tail(d), o) : i = j
               /\ core'.pc = "update" /\ core'.prop = o => Updates(Tail(d), o) = {}
    <3>1. \A i, j \in Updates(d, o) : i = j
      BY <2>2 DEF IInv, Attached, d
    <3>2. ASSUME NEW i \in Updates(Tail(d), o), NEW j \in Updates(Tail(d), o)
          PROVE  i = j
      <4>1. i + 1 = j + 1 /\ i \in Number /\ j \in Number
        BY <1>10, <3>1
      <4>. QED BY <4>1 DEF Number
    <3>3. ASSUME core'.prop = o, NEW i \in Updates(Tail(d), o) PROVE FALSE
      <4>1. i + 1 = 1 /\ i \in Number
        BY <1>4, <1>10, <3>1, <3>3
      <4>. QED BY <4>1 DEF Number
    <3>. QED BY <3>2, <3>3
  <2>. QED BY <1>1, <2>1, <2>2 DEF IInv, Attached
<1>12. Ordered'
  <2>1. ReplyOrder(ctx.events, d, got.replies, accepted)
    BY DEF IInv, Ordered, d
  <2>2. ReplyOrder(ctx.events, Tail(d), got.replies, accepted)
    BY <1>0, <1>1, <1>2, <2>1, RequestsShifted
  <2>. QED BY <1>1, <2>2 DEF IInv, Ordered
<1>13. ChangesKnown'
  BY <1>1 DEF IInv, ChangesKnown
<1>. QED BY <1>7, <1>8, <1>9, <1>11, <1>12, <1>13 DEF IInv

LEMMA UpdateKeeps ==
  ASSUME IInv, Update
  PROVE  IInv'
<1> DEFINE o == core.prop  p == ctx.prop[o]  new == ctx'.prop[o]
<1>0. /\ ctx \in Handles /\ dispatch \in Seq(Calls) /\ value \in Values
      /\ ctx.properties_updating \in Nat /\ Pending("update_prop") \in Nat
      /\ Len(ctx.properties) \in Nat /\ core \in CoreStates
  BY PendingCalls DEF IInv, Types
<1>1. /\ UNCHANGED <<dispatch, value, client, timeout, cur_event, workload,
                     sent, logged, accepted, got>>
      /\ core.pc = "update" /\ ctx' = UpdateProp(ctx, o, value)
      /\ core' = IF core.then = "run" THEN [pc |-> "run"]
                 ELSE [pc |-> "sleep", worked |-> TRUE]
  BY DEF Update, count
<1>2. o \in Observers
  BY <1>0, <1>1 DEF CoreStates
<1>3. core' \in CoreStates /\ (core'.pc = "run" \/ core'.pc = "sleep")
  <2>1. /\ [pc |-> "run"] \in CoreStates
        /\ [pc |-> "sleep", worked |-> TRUE] \in CoreStates
    BY DEF CoreStates
  <2>. QED BY <1>1, <2>1
<1>4. ctx.properties_updating = Pending("update_prop") + 1
  BY <1>1 DEF IInv, Counted
<1>5. ctx.properties_updating # 0 /\ client \notin {"leaving", "gone"}
  <2>1. ctx.properties_updating # 0
    BY <1>0, <1>4
  <2>. QED BY <2>1 DEF IInv, Leaving
<1>6. p \in Properties /\ (\A x \in Observers : ctx.prop[x] \in Properties)
  BY <1>0, <1>2 DEF Handles
<1>. HIDE DEF o
<1>7. /\ ctx' \in Handles
      /\ SameData(ctx', [ctx EXCEPT !.properties_updating = @ - 1,
                                    !.prop = ctx'.prop])
      /\ \A x \in Observers : x # o => ctx'.prop[x] = ctx.prop[x]
      /\ new = NewValue(p, value)
  <2>1. /\ UpdateProp(ctx, o, value) \in Handles
        /\ SameData(UpdateProp(ctx, o, value),
             [ctx EXCEPT !.properties_updating = @ - 1,
                         !.prop = UpdateProp(ctx, o, value).prop])
        /\ \A x \in Observers : x # o => UpdateProp(ctx, o, value).prop[x] = ctx.prop[x]
        /\ UpdateProp(ctx, o, value).prop[o] = NewValue(ctx.prop[o], value)
    <3>1. o \in Observers /\ value \in Values /\ ctx.properties_updating # 0
      BY <1>0, <1>2, <1>5
    <3>. QED BY <1>0, <3>1, UpdatePropDoes, Zenon
  <2>. QED BY <1>1, <2>1
<1>8. /\ ctx'.events = ctx.events /\ ctx'.reserved_events = ctx.reserved_events
      /\ ctx'.choked = ctx.choked /\ ctx'.properties = ctx.properties
      /\ ctx'.lowest_changed = ctx.lowest_changed /\ ctx'.messages = ctx.messages
      /\ ctx'.properties_updating = ctx.properties_updating - 1
  BY <1>0, <1>7 DEF SameData, Handles
<1>9. /\ new.new_value = value /\ new.user_value = p.user_value
      /\ new.memory = (IF p.dead THEN "cur_event" ELSE p.memory)
      /\ new.dead = p.dead /\ new.twice = p.twice /\ new.format = p.format
      /\ new.need_new_value = p.need_new_value
      /\ (new.changed <=> p.changed \/ p.user_value # value)
  BY <1>6, <1>7 DEF Properties, NewValue
<1>. HIDE DEF p, new
<1>10. Types'
  BY <1>1, <1>3, <1>7 DEF IInv, Types
<1>11. Bounded' /\ Leaving'
  BY <1>1, <1>5, <1>8 DEF IInv, Bounded, Leaving
<1>12. Counted'
  <2>1. Pending("update_prop")' = Pending("update_prop")
        /\ Pending("request")' = Pending("request")
    BY <1>1 DEF Pending
  <2>. QED BY <1>0, <1>3, <1>4, <1>8, <2>1 DEF IInv, Counted
<1>13. Attached'
  <2>1. \A x : Updated(x)' => Updated(x) /\ Updates(dispatch, x) # {}
    BY <1>1, <1>3, UpdatedIs
  <2>2. /\ Updated(o) => p.memory # "unused"
        /\ ~p.twice => Updates(dispatch, o) = {}
    BY <1>1, <1>2 DEF IInv, Attached, p, o
  <2>3. ASSUME NEW x \in Observers
        PROVE  /\ Updated(x)' => ctx'.prop[x].memory # "unused"
               /\ ~ctx'.prop[x].twice =>
                    /\ Updated(x)' => ctx'.prop[x].updating /\ ctx'.prop[x].memory = "ctx"
                    /\ \A i, j \in Updates(dispatch, x) : i = j
    <3>1. CASE x = o
      BY <1>9, <2>1, <2>2, <3>1 DEF new
    <3>2. CASE x # o
      BY <1>7, <2>1, <3>2 DEF IInv, Attached
    <3>. QED BY <3>1, <3>2
  <2>4. ASSUME NEW i \in DOMAIN ctx.properties
        PROVE  /\ ctx'.prop[ctx.properties[i]].memory = "ctx"
               /\ ~ctx'.prop[ctx.properties[i]].dead
    <3>1. /\ ctx.properties[i] \in Observers
          /\ ctx.prop[ctx.properties[i]].memory = "ctx"
          /\ ~ctx.prop[ctx.properties[i]].dead
      BY <1>0 DEF IInv, Attached, Handles
    <3>. QED BY <1>7, <1>9, <3>1 DEF new, p
  <2>. QED BY <1>1, <1>3, <1>8, <2>3, <2>4 DEF IInv, Attached
<1>14. Ordered'
  BY <1>1, <1>8 DEF IInv, Ordered
<1>15. ChangesKnown'
  <2>1. ASSUME NEW x \in Observers
        PROVE  /\ got.value[x] = ctx'.prop[x].user_value
               /\ ctx'.prop[x].memory = "unused" => got.value[x] = 0
    <3>1. /\ got.value[x] = ctx.prop[x].user_value
          /\ ctx.prop[x].memory = "unused" => got.value[x] = 0
      BY DEF IInv, ChangesKnown
    <3>. QED BY <1>7, <1>9, <3>1 DEF new, p
  <2>2. ASSUME NEW i \in DOMAIN ctx.properties,
               Retrieved(ctx'.prop[ctx.properties[i]])
        PROVE  /\ ctx'.prop[ctx.properties[i]].new_value #
                    ctx'.prop[ctx.properties[i]].user_value
               /\ ctx'.prop[ctx.properties[i]].new_value = value
    <3>1. /\ ctx.properties[i] \in Observers
          /\ Retrieved(ctx.prop[ctx.properties[i]]) =>
               /\ ctx.prop[ctx.properties[i]].new_value #
                    ctx.prop[ctx.properties[i]].user_value
               /\ ctx.prop[ctx.properties[i]].new_value = value
      BY <1>0, <1>1, <1>5 DEF IInv, ChangesKnown, Handles
    <3>2. CASE ctx.properties[i] = o
      BY <1>9, <2>2, <3>1, <3>2 DEF new, p, Retrieved
    <3>3. CASE ctx.properties[i] # o
      BY <1>7, <2>2, <3>1, <3>3
    <3>. QED BY <3>2, <3>3
  <2>. QED BY <1>1, <1>8, <2>1, <2>2 DEF ChangesKnown
<1>. QED BY <1>10, <1>11, <1>12, <1>13, <1>14, <1>15 DEF IInv

(* MP_TARRAY_REMOVE_AT.                                                    *)
LEMMA Removes ==
  ASSUME NEW S, NEW s \in Seq(S), NEW n \in DOMAIN s
  PROVE  /\ RemoveAt(s, n) \in Seq(S) /\ Len(s) \in Nat /\ Len(RemoveAt(s, n)) \in Nat
         /\ DOMAIN RemoveAt(s, n) = 1 .. Len(s) - 1 /\ DOMAIN s = 1 .. Len(s)
         /\ \A i \in 1 .. Len(s) - 1 : RemoveAt(s, n)[i] = IF i < n THEN s[i] ELSE s[i + 1]
<1> DEFINE a == SubSeq(s, 1, n - 1)  b == SubSeq(s, n + 1, Len(s))
<1>1. Len(s) \in Nat /\ DOMAIN s = 1 .. Len(s) /\ n \in 1 .. Len(s)
  OBVIOUS
<1>2. /\ a \in Seq(S) /\ Len(a) = n - 1 /\ \A i \in 1 .. n - 1 : a[i] = s[i]
  <2>1. \A i \in 1 .. n - 1 : s[i] \in S
    BY <1>1
  <2>2. 1 \in Int /\ n - 1 \in Int
    BY <1>1
  <2>3. /\ a \in Seq(S) /\ Len(a) = IF 1 <= n - 1 THEN (n - 1) - 1 + 1 ELSE 0
        /\ \A i \in 1 .. (n - 1) - 1 + 1 : a[i] = s[1 + i - 1]
    BY <2>1, <2>2, SubSeqProperties
  <2>. HIDE DEF a
  <2>. QED BY <1>1, <2>3
<1>3. /\ b \in Seq(S) /\ Len(b) = Len(s) - n
      /\ \A i \in 1 .. Len(s) - n : b[i] = s[i + n]
  <2>1. \A i \in n + 1 .. Len(s) : s[i] \in S
    BY <1>1
  <2>2. n + 1 \in Int /\ Len(s) \in Int
    BY <1>1
  <2>3. /\ b \in Seq(S)
        /\ Len(b) = IF n + 1 <= Len(s) THEN Len(s) - (n + 1) + 1 ELSE 0
        /\ \A i \in 1 .. Len(s) - (n + 1) + 1 : b[i] = s[(n + 1) + i - 1]
    <3> DEFINE l == Len(s)  k == n + 1
    <3>1. k \in Int /\ l \in Int /\ \A i \in k .. l : s[i] \in S
      BY <2>1, <2>2
    <3>. HIDE DEF l, k
    <3>2. /\ SubSeq(s, k, l) \in Seq(S)
          /\ Len(SubSeq(s, k, l)) = IF k <= l THEN l - k + 1 ELSE 0
          /\ \A i \in 1 .. l - k + 1 : SubSeq(s, k, l)[i] = s[k + i - 1]
      BY <3>1, SubSeqProperties
    <3>. QED BY <3>2 DEF l, k
  <2>. HIDE DEF b
  <2>4. ASSUME NEW i \in 1 .. Len(s) - n PROVE b[i] = s[i + n]
    <3>1. i \in 1 .. Len(s) - (n + 1) + 1 /\ (n + 1) + i - 1 = i + n
      BY <1>1
    <3>2. b[i] = s[(n + 1) + i - 1]
      BY <2>3, <3>1
    <3>. QED BY <3>1, <3>2
  <2>5. Len(b) = Len(s) - n
    BY <1>1, <2>3
  <2>. QED BY <2>3, <2>4, <2>5
<1>4. RemoveAt(s, n) = a \o b
  BY DEF RemoveAt
<1>. HIDE DEF a, b
<1>5. /\ a \o b \in Seq(S) /\ Len(a \o b) = Len(s) - 1
      /\ \A i \in 1 .. Len(a) + Len(b) :
           (a \o b)[i] = IF i <= Len(a) THEN a[i] ELSE b[i - Len(a)]
  <2>1. /\ a \o b \in Seq(S) /\ Len(a \o b) = Len(a) + Len(b)
        /\ \A i \in 1 .. Len(a) + Len(b) :
             (a \o b)[i] = IF i <= Len(a) THEN a[i] ELSE b[i - Len(a)]
    BY <1>2, <1>3, ConcatProperties
  <2>2. Len(a) + Len(b) = Len(s) - 1
    BY <1>1, <1>2, <1>3
  <2>. QED BY <2>1, <2>2
<1>6. DOMAIN (a \o b) = 1 .. Len(s) - 1 /\ Len(s) - 1 \in Nat
  <2> DEFINE t == a \o b
  <2>1. t \in Seq(S) /\ Len(t) = Len(s) - 1
    BY <1>5
  <2>. HIDE DEF t
  <2>2. DOMAIN t = 1 .. Len(t) /\ Len(t) \in Nat
    BY <2>1
  <2>. QED BY <2>1, <2>2 DEF t
<1>7. ASSUME NEW i \in 1 .. Len(s) - 1
      PROVE  (a \o b)[i] = IF i < n THEN s[i] ELSE s[i + 1]
  <2>1. i \in 1 .. Len(a) + Len(b) /\ (i <= Len(a) <=> i < n)
    BY <1>1, <1>2, <1>3
  <2>2. (a \o b)[i] = IF i < n THEN a[i] ELSE b[i - (n - 1)]
    BY <1>2, <1>5, <2>1
  <2>3. CASE i < n
    BY <1>1, <1>2, <2>2, <2>3
  <2>4. CASE ~(i < n)
    <3>1. i - (n - 1) \in 1 .. Len(s) - n /\ (i - (n - 1)) + n = i + 1
      BY <1>1, <2>4
    <3>2. b[i - (n - 1)] = s[i + 1]
      BY <1>3, <3>1
    <3>. QED BY <2>2, <2>4, <3>2
  <2>. QED BY <2>3, <2>4
<1>. QED BY <1>1, <1>4, <1>5, <1>6, <1>7

(* An observer is added.                                                   *)
LEMMA ObservePropertyKeeps ==
  ASSUME IInv, NEW o \in Observers, ObserveProperty(o)
  PROVE  IInv'
<1> DEFINE p == Property(Format[o])  props == ctx.properties
<1>0. /\ ctx \in Handles /\ props \in Seq(Observers) /\ Len(props) \in Nat
      /\ DOMAIN props = 1 .. Len(props) /\ ctx.prop \in [Observers -> Properties]
      /\ ctx.called \in BOOLEAN
  BY DEF IInv, Types, Handles
<1>1. /\ UNCHANGED <<dispatch, value, core, client, timeout, cur_event, workload,
                     sent, logged, accepted, got>>
      /\ client \notin {"leaving", "gone"} /\ ctx.prop[o].memory = "unused"
      /\ ctx' = [ctx EXCEPT !.prop[o] = p, !.properties = Append(@, o),
                            !.lowest_changed = 1]
  BY DEF ObserveProperty, InUse, count
<1>2. p \in Properties /\ p.memory = "ctx" /\ ~p.dead /\ p.user_value = 0 /\ ~Retrieved(p)
  BY ClientAssumption DEF Property, Properties, Retrieved
<1>3. /\ ctx' \in Handles /\ ctx'.events = ctx.events
      /\ ctx'.reserved_events = ctx.reserved_events
      /\ ctx'.choked = ctx.choked /\ ctx'.properties = Append(props, o)
      /\ ctx'.lowest_changed = 1
      /\ ctx'.properties_updating = ctx.properties_updating
      /\ ctx'.messages = ctx.messages /\ ctx'.prop[o] = p
      /\ \A x \in Observers : x # o => ctx'.prop[x] = ctx.prop[x]
  <2> DEFINE f == [ctx.prop EXCEPT ![o] = p]  q == Append(props, o)
  <2>1. f \in [Observers -> Properties] /\ q \in Seq(Observers)
    BY <1>0, <1>2
  <2>2. ctx' = [ctx EXCEPT !.prop = f, !.properties = q, !.lowest_changed = 1]
    BY <1>1
  <2>3. f[o] = p /\ \A x \in Observers : x # o => f[x] = ctx.prop[x]
    BY <1>0
  <2>. HIDE DEF f, q, p
  <2>4. /\ ctx' \in Handles /\ ctx'.prop = f /\ ctx'.properties = q
        /\ ctx'.lowest_changed = 1 /\ ctx'.events = ctx.events
        /\ ctx'.reserved_events = ctx.reserved_events /\ ctx'.choked = ctx.choked
        /\ ctx'.properties_updating = ctx.properties_updating
        /\ ctx'.messages = ctx.messages
    BY <1>0, <2>1, <2>2 DEF Handles
  <2>. QED BY <2>3, <2>4 DEF q
<1>. HIDE DEF p, props
<1>4. /\ Len(Append(props, o)) = Len(props) + 1
      /\ DOMAIN Append(props, o) = DOMAIN props \cup {Len(props) + 1}
      /\ \A i \in DOMAIN props : i < Len(props) + 1 /\ Append(props, o)[i] = props[i]
      /\ Append(props, o)[Len(props) + 1] = o
  BY <1>0, Appends
<1>5. \A i \in DOMAIN props : props[i] # o /\ props[i] \in Observers
  BY <1>0, <1>1 DEF IInv, Attached, props
<1>6. ~Updated(o)
  BY <1>1 DEF IInv, Attached
<1>7. Types' /\ Leaving'
  BY <1>1, <1>3 DEF IInv, Types, Leaving
<1>8. Bounded'
  BY <1>0, <1>3, <1>4 DEF IInv, Bounded
<1>9. Counted'
  BY <1>1, <1>3 DEF IInv, Counted, Pending
<1>10. Attached'
  <2>1. \A x : Updated(x)' <=> Updated(x)
    BY <1>1, UpdatedIs
  <2>2. ASSUME NEW i \in DOMAIN Append(props, o), NEW j \in DOMAIN Append(props, o),
               Append(props, o)[i] = Append(props, o)[j]
        PROVE  i = j
    <3>1. CASE i \in DOMAIN props /\ j \in DOMAIN props
      BY <1>4, <2>2, <3>1 DEF IInv, Attached, props
    <3>2. CASE ~(i \in DOMAIN props /\ j \in DOMAIN props)
      BY <1>4, <1>5, <2>2, <3>2
    <3>. QED BY <3>1, <3>2
  <2>3. ASSUME NEW i \in DOMAIN Append(props, o)
        PROVE  /\ ctx'.prop[Append(props, o)[i]].memory = "ctx"
               /\ ~ctx'.prop[Append(props, o)[i]].dead
    <3>1. CASE i \in DOMAIN props
      BY <1>3, <1>4, <1>5, <3>1 DEF IInv, Attached, props
    <3>2. CASE i \notin DOMAIN props
      BY <1>2, <1>3, <1>4, <3>2
    <3>. QED BY <3>1, <3>2
  <2>4. ASSUME NEW x \in Observers
        PROVE  /\ Updated(x) => ctx'.prop[x].memory # "unused"
               /\ ~ctx'.prop[x].twice =>
                    /\ Updated(x) => ctx'.prop[x].updating /\ ctx'.prop[x].memory = "ctx"
                    /\ \A i, j \in Updates(dispatch, x) : i = j
                    /\ core.pc = "update" /\ core.prop = x => Updates(dispatch, x) = {}
    <3>1. CASE x = o
      BY <1>6, <3>1, UpdatedIs
    <3>2. CASE x # o
      BY <1>3, <3>2 DEF IInv, Attached
    <3>. QED BY <3>1, <3>2
  <2>. QED BY <1>1, <1>3, <2>1, <2>2, <2>3, <2>4 DEF Attached
<1>11. Ordered'
  BY <1>1, <1>3 DEF IInv, Ordered
<1>12. ChangesKnown'
  <2>1. ASSUME NEW x \in Observers
        PROVE  /\ got.value[x] = ctx'.prop[x].user_value
               /\ ctx'.prop[x].memory = "unused" => got.value[x] = 0
    <3>1. CASE x = o
      BY <1>1, <1>2, <1>3, <3>1 DEF IInv, ChangesKnown
    <3>2. CASE x # o
      BY <1>3, <3>2 DEF IInv, ChangesKnown
    <3>. QED BY <3>1, <3>2
  <2>2. ASSUME NEW i \in DOMAIN Append(props, o),
               Retrieved(ctx'.prop[Append(props, o)[i]])
        PROVE  /\ ctx'.prop[Append(props, o)[i]].new_value #
                    ctx'.prop[Append(props, o)[i]].user_value
               /\ core.pc # "notify" /\ client # "gone" =>
                    ctx'.prop[Append(props, o)[i]].new_value = value
    <3>1. i \in DOMAIN props
      BY <1>2, <1>3, <1>4, <2>2
    <3>2. /\ Append(props, o)[i] = props[i]
          /\ ctx'.prop[props[i]] = ctx.prop[props[i]]
      BY <1>3, <1>4, <1>5, <3>1
    <3>. QED BY <2>2, <3>1, <3>2 DEF IInv, ChangesKnown, props
  <2>. QED BY <1>1, <1>3, <2>1, <2>2 DEF ChangesKnown
<1>. QED BY <1>7, <1>8, <1>9, <1>10, <1>11, <1>12 DEF IInv

(* An observer leaves the handle: it hangs on the last event, or is dead   *)
(* and the update hangs it there.                                          *)
LEMMA UnobservePropertyKeeps ==
  ASSUME IInv, NEW o \in Observers, UnobserveProperty(o)
  PROVE  IInv'
<1> DEFINE p == IF ctx.prop[o].updating THEN [ctx.prop[o] EXCEPT !.dead = TRUE]
                ELSE [ctx.prop[o] EXCEPT !.memory = "cur_event"]
           props == ctx.properties
<1>0. /\ ctx \in Handles /\ props \in Seq(Observers) /\ Len(props) \in Nat
      /\ DOMAIN props = 1 .. Len(props) /\ ctx.prop \in [Observers -> Properties]
      /\ ctx.prop[o] \in Properties
  BY DEF IInv, Types, Handles
<1>1. PICK n \in DOMAIN props :
        /\ props[n] = o
        /\ ctx' = [ctx EXCEPT !.prop[o] = p, !.properties = RemoveAt(@, n),
                              !.lowest_changed = 1]
  BY DEF UnobserveProperty
<1>2. /\ UNCHANGED <<dispatch, value, core, client, timeout, cur_event, workload,
                     sent, logged, accepted, got>>
      /\ client \notin {"leaving", "gone"}
  BY DEF UnobserveProperty, InUse, count
<1>3. /\ p \in Properties /\ p.user_value = ctx.prop[o].user_value
      /\ p.memory # "unused" \/ p.memory = ctx.prop[o].memory
      /\ p.twice = ctx.prop[o].twice
      /\ p.updating = ctx.prop[o].updating
      /\ p.updating => p.memory = ctx.prop[o].memory
  BY <1>0 DEF Properties
<1> DEFINE new == RemoveAt(props, n)
<1>4. /\ new \in Seq(Observers) /\ Len(new) \in Nat
      /\ DOMAIN new = 1 .. Len(props) - 1
      /\ \A i \in 1 .. Len(props) - 1 : new[i] = IF i < n THEN props[i] ELSE props[i + 1]
  BY <1>0, Removes
<1>. HIDE DEF p, props
<1>5. /\ ctx' \in Handles /\ ctx'.events = ctx.events
      /\ ctx'.reserved_events = ctx.reserved_events
      /\ ctx'.choked = ctx.choked /\ ctx'.properties = new
      /\ ctx'.lowest_changed = 1
      /\ ctx'.properties_updating = ctx.properties_updating
      /\ ctx'.messages = ctx.messages /\ ctx'.prop[o] = p
      /\ \A x \in Observers : x # o => ctx'.prop[x] = ctx.prop[x]
  <2> DEFINE f == [ctx.prop EXCEPT ![o] = p]
  <2>1. f \in [Observers -> Properties]
    BY <1>0, <1>3
  <2>2. ctx' = [ctx EXCEPT !.prop = f, !.properties = new, !.lowest_changed = 1]
    BY <1>1 DEF props
  <2>3. f[o] = p /\ \A x \in Observers : x # o => f[x] = ctx.prop[x]
    BY <1>0
  <2>. HIDE DEF f, new
  <2>4. /\ ctx' \in Handles /\ ctx'.prop = f /\ ctx'.properties = new
        /\ ctx'.lowest_changed = 1 /\ ctx'.events = ctx.events
        /\ ctx'.reserved_events = ctx.reserved_events /\ ctx'.choked = ctx.choked
        /\ ctx'.properties_updating = ctx.properties_updating
        /\ ctx'.messages = ctx.messages
    BY <1>0, <1>4, <2>1, <2>2 DEF Handles
  <2>. QED BY <2>3, <2>4
<1>. HIDE DEF new
<1>6. \A i, j \in DOMAIN props : props[i] = props[j] => i = j
  BY DEF IInv, Attached, props
<1>7. ASSUME NEW i \in DOMAIN new
      PROVE  /\ new[i] \in Observers /\ new[i] # o
             /\ \E k \in DOMAIN props : new[i] = props[k]
  <2>1. CASE i < n
    <3>1. i \in DOMAIN props /\ new[i] = props[i] /\ i # n
      BY <1>0, <1>1, <1>4, <2>1
    <3>. QED BY <1>0, <1>1, <1>6, <3>1
  <2>2. CASE ~(i < n)
    <3>1. i + 1 \in DOMAIN props /\ new[i] = props[i + 1] /\ i + 1 # n
      BY <1>0, <1>1, <1>4, <2>2
    <3>. QED BY <1>0, <1>1, <1>6, <3>1
  <2>. QED BY <2>1, <2>2
<1>8. ASSUME NEW i \in DOMAIN new, NEW j \in DOMAIN new, new[i] = new[j]
      PROVE  i = j
  <2> DEFINE at(k) == IF k < n THEN k ELSE k + 1
  <2>1. /\ at(i) \in DOMAIN props /\ at(j) \in DOMAIN props
        /\ new[i] = props[at(i)] /\ new[j] = props[at(j)]
    BY <1>0, <1>1, <1>4
  <2>2. at(i) = at(j)
    <3>. HIDE DEF at
    <3>. QED BY <1>6, <1>8, <2>1
  <2>. QED BY <1>0, <1>1, <1>4, <2>2
<1>9. Types' /\ Leaving'
  BY <1>2, <1>5 DEF IInv, Types, Leaving
<1>10. Bounded'
  BY <1>4, <1>5 DEF IInv, Bounded
<1>11. Counted'
  BY <1>2, <1>5 DEF IInv, Counted, Pending
<1>12. ctx.prop[o].memory = "ctx"
  BY <1>1 DEF IInv, Attached, props
<1>13. Attached'
  <2>1. \A x : Updated(x)' <=> Updated(x)
    BY <1>2, UpdatedIs
  <2>2. ASSUME NEW i \in DOMAIN new
        PROVE  ctx'.prop[new[i]].memory = "ctx" /\ ~ctx'.prop[new[i]].dead
    BY <1>5, <1>7 DEF IInv, Attached, props
  <2>3. ASSUME NEW x \in Observers
        PROVE  /\ Updated(x) => ctx'.prop[x].memory # "unused"
               /\ ~ctx'.prop[x].twice =>
                    /\ Updated(x) => ctx'.prop[x].updating /\ ctx'.prop[x].memory = "ctx"
                    /\ \A i, j \in Updates(dispatch, x) : i = j
                    /\ core.pc = "update" /\ core.prop = x => Updates(dispatch, x) = {}
    <3>1. /\ Updated(x) => ctx.prop[x].memory # "unused"
          /\ ~ctx.prop[x].twice =>
               /\ Updated(x) => ctx.prop[x].updating /\ ctx.prop[x].memory = "ctx"
               /\ \A i, j \in Updates(dispatch, x) : i = j
               /\ core.pc = "update" /\ core.prop = x => Updates(dispatch, x) = {}
      BY DEF IInv, Attached
    <3>2. CASE x = o
      BY <1>3, <1>5, <1>12, <3>1, <3>2
    <3>3. CASE x # o
      BY <1>5, <3>1, <3>3
    <3>. QED BY <3>2, <3>3
  <2>. QED BY <1>2, <1>5, <1>8, <2>1, <2>2, <2>3 DEF Attached
<1>14. Ordered'
  BY <1>2, <1>5 DEF IInv, Ordered
<1>15. ChangesKnown'
  <2>1. ASSUME NEW x \in Observers
        PROVE  /\ got.value[x] = ctx'.prop[x].user_value
               /\ ctx'.prop[x].memory = "unused" => got.value[x] = 0
    <3>1. CASE x = o
      BY <1>3, <1>5, <1>12, <3>1 DEF IInv, ChangesKnown
    <3>2. CASE x # o
      BY <1>5, <3>2 DEF IInv, ChangesKnown
    <3>. QED BY <3>1, <3>2
  <2>2. ASSUME NEW i \in DOMAIN new, Retrieved(ctx'.prop[new[i]])
        PROVE  /\ ctx'.prop[new[i]].new_value # ctx'.prop[new[i]].user_value
               /\ core.pc # "notify" /\ client # "gone" =>
                    ctx'.prop[new[i]].new_value = value
    <3>1. PICK k \in DOMAIN props : new[i] = props[k]
      BY <1>7
    <3>2. ctx'.prop[new[i]] = ctx.prop[props[k]]
      BY <1>5, <1>7, <3>1
    <3>. QED BY <2>2, <3>1, <3>2 DEF IInv, ChangesKnown, props
  <2>. QED BY <1>2, <1>5, <2>1, <2>2 DEF ChangesKnown
<1>. QED BY <1>9, <1>10, <1>11, <1>13, <1>14, <1>15 DEF IInv

(* q is p, or p freed with the last event.                                 *)
Freed(q, p) ==
  q = p \/ q = [p EXCEPT !.memory = IF @ = "cur_event" THEN "freed" ELSE @]

(* A round of mpv_wait_event() starts with the handle c: what hung on the  *)
(* last event may have been freed.                                         *)
Begins(c) ==
  /\ c \in Handles /\ SameData(c, [ctx EXCEPT !.prop = c.prop])
  /\ \A o \in Observers : Freed(c.prop[o], ctx.prop[o])

(* Freeing changes what an observer is attached to only.                   *)
LEMMA FreedIs ==
  ASSUME NEW p \in Properties, NEW q, Freed(q, p)
  PROVE  /\ q \in Properties /\ q.format = p.format /\ (q.changed <=> p.changed)
         /\ q.new_value = p.new_value /\ q.user_value = p.user_value
         /\ q.updating = p.updating /\ q.twice = p.twice /\ q.dead = p.dead
         /\ q.memory = p.memory \/ (p.memory = "cur_event" /\ q.memory = "freed")
         /\ Retrieved(q) <=> Retrieved(p)
<1>1. CASE q = p
  BY <1>1
<1>2. CASE q = [p EXCEPT !.memory = IF @ = "cur_event" THEN "freed" ELSE @]
  BY <1>2 DEF Properties, Retrieved
<1>. QED BY <1>1, <1>2 DEF Freed

(* What a round starts with.                                               *)
LEMMA BeginsIs ==
  ASSUME IInv, NEW c, Begins(c)
  PROVE  /\ c \in Handles /\ c.events = ctx.events
         /\ c.reserved_events = ctx.reserved_events
         /\ c.choked = ctx.choked /\ c.properties = ctx.properties
         /\ c.lowest_changed = ctx.lowest_changed
         /\ c.properties_updating = ctx.properties_updating
         /\ c.messages = ctx.messages
         /\ \A o \in Observers : /\ ctx.prop[o] \in Properties /\ c.prop[o] \in Properties
                                 /\ Freed(c.prop[o], ctx.prop[o])
<1>1. ctx \in Handles /\ c \in Handles
  BY DEF IInv, Types, Begins
<1>. QED BY <1>1 DEF Begins, SameData, Handles

(* mpv_wait_event() frees the last event before its first round.           *)
LEMMA WaitEventBegins ==
  ASSUME IInv, NEW b \in BOOLEAN
  PROVE  Begins(FreeEvent([ctx EXCEPT !.called = @ /\ b]))
<1> DEFINE c == [ctx EXCEPT !.called = @ /\ b]
<1>1. ctx \in Handles
  BY DEF IInv, Types
<1>2. c \in Handles /\ SameData(c, ctx) /\ c.prop = ctx.prop
  BY <1>1 DEF Handles, SameData
<1>. HIDE DEF c
<1>3. /\ FreeEvent(c) \in Handles
      /\ SameData(FreeEvent(c), [c EXCEPT !.prop = FreeEvent(c).prop])
      /\ \A o \in Observers :
           FreeEvent(c).prop[o] =
             [c.prop[o] EXCEPT !.memory = IF @ = "cur_event" THEN "freed" ELSE @]
  BY <1>2, FreeEventDoes
<1>4. \A o \in Observers : Freed(FreeEvent(c).prop[o], ctx.prop[o])
  BY <1>2, <1>3 DEF Freed
<1>5. SameData(FreeEvent(c), [ctx EXCEPT !.prop = FreeEvent(c).prop])
  BY <1>1, <1>2, <1>3 DEF SameData, Handles
<1>6. Begins(FreeEvent(c))
  BY <1>3, <1>4, <1>5 DEF Begins
<1>. QED BY <1>6 DEF c

(* What hung on the last event was neither in the list nor to be updated.  *)
LEMMA FreedKeeps ==
  ASSUME IInv, UNCHANGED <<dispatch, value, core>>, client # "gone",
         ctx'.properties = ctx.properties, got'.value = got.value,
         \A o \in Observers : Freed(ctx'.prop[o], ctx.prop[o])
  PROVE  /\ Attached' /\ ChangesKnown'
         /\ Pending("request")' = Pending("request")
         /\ Pending("update_prop")' = Pending("update_prop")
<1>1. ctx.properties \in Seq(Observers) /\ \A o \in Observers : ctx.prop[o] \in Properties
  BY DEF IInv, Types, Handles
<1>2. ASSUME NEW o \in Observers
      PROVE  /\ ctx'.prop[o].new_value = ctx.prop[o].new_value
             /\ ctx'.prop[o].user_value = ctx.prop[o].user_value
             /\ ctx'.prop[o].updating = ctx.prop[o].updating
             /\ ctx'.prop[o].twice = ctx.prop[o].twice
             /\ ctx'.prop[o].dead = ctx.prop[o].dead
             /\ \/ ctx'.prop[o].memory = ctx.prop[o].memory
                \/ ctx.prop[o].memory = "cur_event" /\ ctx'.prop[o].memory = "freed"
             /\ Retrieved(ctx'.prop[o]) <=> Retrieved(ctx.prop[o])
  BY <1>1, FreedIs
<1>3. \A i \in DOMAIN ctx.properties : ctx.properties[i] \in Observers
  BY <1>1
<1>4. Attached'
  <2>1. \A o : Updated(o)' <=> Updated(o)
    BY UpdatedIs
  <2>. QED BY <1>2, <1>3, <2>1 DEF IInv, Attached
<1>5. ChangesKnown'
  BY <1>2, <1>3 DEF IInv, ChangesKnown
<1>6. /\ Pending("request")' = Pending("request")
      /\ Pending("update_prop")' = Pending("update_prop")
  BY DEF Pending
<1>. QED BY <1>4, <1>5, <1>6

(* What EventsFaithful says of a step.                                     *)
Faithful ==
  /\ got'.event # got.event =>
       got'.event = got.event + 1 \/ (got.event < got'.event /\ got.overflow)
  /\ got'.log # got.log =>
       got'.log = got.log + 1 \/ (got.log < got'.log /\ got.log_overflow)
  /\ got'.replies \in {got.replies, got.replies + 1}
  /\ cur_event' # cur_event /\ cur_event'.id = "change" =>
       \/ ctx.prop[cur_event'.prop].format = "none"
       \/ got'.value # got.value

(* A round that returns or goes to wait.                                   *)
RoundOf(c) ==
  /\ Begins(c) /\ client # "gone" /\ client' \in {"idle", "unlocked"}
  /\ UNCHANGED <<value, core, sent, logged, accepted>>

(* What every round leaves, whatever it returns.                           *)
RoundLeaves ==
  /\ ctx' \in Handles /\ dispatch' \in Seq(Calls) /\ cur_event' \in Returned
  /\ got' \in Got
  /\ Bounded' /\ Counted' /\ Attached' /\ Ordered' /\ ChangesKnown'
  /\ Faithful

(* The round tells that events were lost.                                  *)
LEMMA OverflowTold ==
  ASSUME IInv, NEW c, RoundOf(c), Recovers(c), UNCHANGED dispatch,
         Return([c EXCEPT !.choked = FALSE], [id |-> "overflow"])
  PROVE  RoundLeaves
<1>0. /\ c \in Handles /\ c.events = ctx.events
      /\ c.reserved_events = ctx.reserved_events
      /\ c.choked = ctx.choked /\ c.properties = ctx.properties
      /\ c.lowest_changed = ctx.lowest_changed
      /\ c.properties_updating = ctx.properties_updating
      /\ c.messages = ctx.messages
      /\ \A o \in Observers : Freed(c.prop[o], ctx.prop[o])
  BY BeginsIs DEF RoundOf
<1>1. /\ ctx' = [c EXCEPT !.choked = FALSE, !.queued_wakeup = FALSE]
      /\ cur_event' = [id |-> "overflow"] /\ got' = [got EXCEPT !.overflow = TRUE]
  BY <1>0 DEF Return, Deliver, Handles
<1>2. /\ ctx' \in Handles /\ ctx'.events = ctx.events
      /\ ctx'.reserved_events = ctx.reserved_events
      /\ ~ctx'.choked /\ ctx'.properties = ctx.properties
      /\ ctx'.lowest_changed = ctx.lowest_changed
      /\ ctx'.properties_updating = ctx.properties_updating
      /\ ctx'.messages = ctx.messages
      /\ \A o \in Observers : Freed(ctx'.prop[o], ctx.prop[o])
  BY <1>0, <1>1 DEF Handles
<1>3. /\ got \in Got /\ got.event \in Nat /\ sent \in Nat /\ got.overflow \in BOOLEAN
  BY PendingCalls
<1>4. /\ got' \in Got /\ got'.event = got.event /\ got'.overflow = TRUE
      /\ got'.log = got.log /\ got'.log_overflow = got.log_overflow
      /\ got'.replies = got.replies /\ got'.value = got.value
  BY <1>1, <1>3 DEF Got
<1>5. /\ Attached' /\ ChangesKnown'
      /\ Pending("request")' = Pending("request")
      /\ Pending("update_prop")' = Pending("update_prop")
  BY <1>2, <1>4, FreedKeeps DEF RoundOf
<1>6. Bounded' /\ Counted'
  BY <1>2, <1>5 DEF IInv, Bounded, Counted, RoundOf
<1>7. Ordered'
  <2>1. ctx.events = <<>> /\ client' # "gone"
    BY <1>0 DEF Recovers, RoundOf
  <2> DEFINE open == ~ctx.choked /\ client # "gone"
  <2>2. EventOrder(<<>>, got.event, got.overflow, sent, open) /\ open \in BOOLEAN
    BY <2>1 DEF IInv, Ordered
  <2>. HIDE DEF open
  <2>3. EventOrder(<<>>, got.event, TRUE, sent, TRUE)
    BY <1>3, <2>2, EventsLost
  <2>4. EventOrder(<<>>, got.event, TRUE, sent, ~ctx'.choked /\ client' # "gone")
    BY <2>3, EventsOpen
  <2>5. /\ ReplyOrder(ctx.events, dispatch, got.replies, accepted)
        /\ LogOrder(ctx.messages, got.log, got.log_overflow, logged)
        /\ Len(ctx.messages) = LogSize => ctx.messages[LogSize] = 0
    BY DEF IInv, Ordered
  <2>6. EventOrder(ctx'.events, got'.event, got'.overflow, sent',
                   ~ctx'.choked /\ client' # "gone")
    BY <1>2, <1>4, <2>1, <2>4 DEF RoundOf
  <2>7. /\ ReplyOrder(ctx'.events, dispatch', got'.replies, accepted')
        /\ LogOrder(ctx'.messages, got'.log, got'.log_overflow, logged')
    BY <1>2, <1>4, <2>5 DEF RoundOf
  <2>. QED BY <1>2, <2>5, <2>6, <2>7 DEF Ordered
<1>8. cur_event' \in Returned /\ dispatch' \in Seq(Calls)
  BY <1>1 DEF Returned, IInv, Types
<1>9. Faithful
  BY <1>1, <1>4 DEF Faithful
<1>. QED BY <1>2, <1>4, <1>5, <1>6, <1>7, <1>8, <1>9 DEF RoundLeaves

(* The round returns the first event of the queue.                         *)
LEMMA EventReturned ==
  ASSUME IInv, NEW c, RoundOf(c), c.events # <<>>, UNCHANGED dispatch,
         Return([c EXCEPT !.events = Tail(@)], Head(c.events))
  PROVE  RoundLeaves
<1> DEFINE q == ctx.events  e == Head(q)
<1>0. /\ c \in Handles /\ c.events = q
      /\ c.reserved_events = ctx.reserved_events
      /\ c.choked = ctx.choked /\ c.properties = ctx.properties
      /\ c.lowest_changed = ctx.lowest_changed
      /\ c.properties_updating = ctx.properties_updating
      /\ c.messages = ctx.messages
      /\ \A o \in Observers : Freed(c.prop[o], ctx.prop[o])
  BY BeginsIs DEF RoundOf
<1>1. /\ q \in Seq(Events) /\ got \in Got /\ got.event \in Nat /\ sent \in Nat
      /\ got.overflow \in BOOLEAN /\ got.replies \in Nat /\ accepted \in Nat
      /\ dispatch \in Seq(Calls) /\ ctx.reserved_events \in Nat
  BY PendingCalls
<1>2. /\ q # <<>> /\ Tail(q) \in Seq(Events) /\ e = q[1] /\ e \in Events
      /\ 1 \in DOMAIN q /\ Len(Tail(q)) = Len(q) - 1 /\ Len(q) \in Nat
  BY <1>0, <1>1, Tails
<1>3. /\ ctx' = [c EXCEPT !.events = Tail(q), !.queued_wakeup = FALSE]
      /\ cur_event' = e
      /\ Deliver(e)
  BY <1>0 DEF Return, Handles
<1>. HIDE DEF q, e
<1>4. /\ ctx' \in Handles /\ ctx'.events = Tail(q)
      /\ ctx'.reserved_events = ctx.reserved_events
      /\ ctx'.choked = ctx.choked /\ ctx'.properties = ctx.properties
      /\ ctx'.lowest_changed = ctx.lowest_changed
      /\ ctx'.properties_updating = ctx.properties_updating
      /\ ctx'.messages = ctx.messages
      /\ \A o \in Observers : Freed(ctx'.prop[o], ctx.prop[o])
  BY <1>0, <1>2, <1>3 DEF Handles
<1> DEFINE open == ~ctx.choked /\ client # "gone"
<1>5. /\ EventOrder(q, got.event, got.overflow, sent, open) /\ open \in BOOLEAN
      /\ ReplyOrder(q, dispatch, got.replies, accepted)
      /\ LogOrder(ctx.messages, got.log, got.log_overflow, logged)
      /\ Len(ctx.messages) = LogSize => ctx.messages[LogSize] = 0
  BY DEF IInv, Ordered, q
<1>6. (~ctx'.choked /\ client' # "gone") = open
  BY <1>4 DEF RoundOf
<1>. HIDE DEF open
<1>7. /\ got' \in Got /\ got'.log = got.log /\ got'.log_overflow = got.log_overflow
      /\ got'.value = got.value
      /\ EventOrder(Tail(q), got'.event, got'.overflow, sent, open)
      /\ ReplyOrder(Tail(q), dispatch, got'.replies, accepted)
      /\ got'.event # got.event =>
           got'.event = got.event + 1 \/ (got.event < got'.event /\ got.overflow)
      /\ got'.replies \in {got.replies, got.replies + 1}
  <2>1. CASE e.id = "event"
    <3>0. 1 \in EventsIn(q) /\ 1 \notin RepliesIn(q)
      BY <1>2, <2>1 DEF EventsIn, RepliesIn
    <3>1. 1 \in EventsIn(q) /\ 1 \notin RepliesIn(q) /\ q[1].n \in Number
      BY <1>1, <3>0, Numbered
    <3>2. ASSUME NEW free \in BOOLEAN
          PROVE  /\ EventOrder(Tail(q), q[1].n, free, sent, open) /\ got.event < q[1].n
                 /\ q[1].n = got.event + 1 \/ got.overflow
      BY <1>1, <1>2, <1>5, <3>1, EventTold
    <3>3. ReplyOrder(Tail(q), dispatch, got.replies, accepted)
      BY <1>1, <1>2, <1>5, <3>1, ReplySkipped
    <3>4. got' = [got EXCEPT !.event = q[1].n, !.overflow = FALSE]
      BY <1>2, <1>3, <2>1 DEF Deliver
    <3>5. /\ got' \in Got /\ got'.event = q[1].n /\ got'.overflow \in BOOLEAN
          /\ got'.log = got.log /\ got'.log_overflow = got.log_overflow
          /\ got'.value = got.value /\ got'.replies = got.replies
      BY <1>1, <3>1, <3>4 DEF Got, Number
    <3>. QED BY <3>2, <3>3, <3>5
  <2>2. CASE e.id = "reply"
    <3>0. 1 \in RepliesIn(q) /\ 1 \notin EventsIn(q)
      BY <1>2, <2>2 DEF EventsIn, RepliesIn
    <3>1. 1 \in RepliesIn(q) /\ 1 \notin EventsIn(q) /\ q[1].n \in Number
      BY <1>1, <3>0, Numbered
    <3>2. EventOrder(Tail(q), got.event, got.overflow, sent, open)
      BY <1>1, <1>2, <1>5, <3>1, EventSkipped
    <3>3. /\ ReplyOrder(Tail(q), dispatch, q[1].n, accepted)
          /\ q[1].n = got.replies + 1
      BY <1>1, <1>2, <1>5, <3>1, ReplyTold
    <3>4. got' = [got EXCEPT !.replies = q[1].n]
      BY <1>2, <1>3, <2>2 DEF Deliver
    <3>5. /\ got' \in Got /\ got'.event = got.event /\ got'.overflow = got.overflow
          /\ got'.log = got.log /\ got'.log_overflow = got.log_overflow
          /\ got'.value = got.value /\ got'.replies = q[1].n
      BY <1>1, <3>1, <3>4 DEF Got, Number
    <3>. QED BY <3>2, <3>3, <3>5
  <2>3. CASE e.id = "shutdown"
    <3>1. 1 \notin RepliesIn(q) /\ 1 \notin EventsIn(q)
      BY <1>2, <2>3 DEF EventsIn, RepliesIn
    <3>2. EventOrder(Tail(q), got.event, got.overflow, sent, open)
      BY <1>1, <1>2, <1>5, <3>1, EventSkipped
    <3>3. ReplyOrder(Tail(q), dispatch, got.replies, accepted)
      BY <1>1, <1>2, <1>5, <3>1, ReplySkipped
    <3>4. got' = got
      BY <1>3, <2>3 DEF Deliver
    <3>. QED BY <1>1, <3>2, <3>3, <3>4
  <2>. QED BY <1>2, <2>1, <2>2, <2>3 DEF Events
<1>8. /\ Attached' /\ ChangesKnown'
      /\ Pending("request")' = Pending("request")
      /\ Pending("update_prop")' = Pending("update_prop")
  BY <1>4, <1>7, FreedKeeps DEF RoundOf
<1>9. Bounded'
  BY <1>4 DEF IInv, Bounded
<1>10. Counted'
  <2>1. Len(ctx.events) + ctx.reserved_events <= MaxEvents
    BY DEF IInv, Counted
  <2>2. Len(ctx'.events) + ctx'.reserved_events <= MaxEvents
    BY <1>1, <1>2, <1>4, <2>1, ClientAssumption DEF q
  <2>. QED BY <1>4, <1>8, <2>2 DEF IInv, Counted, RoundOf
<1>11. Ordered'
  <2>1. EventOrder(ctx'.events, got'.event, got'.overflow, sent',
                   ~ctx'.choked /\ client' # "gone")
    BY <1>4, <1>6, <1>7 DEF RoundOf
  <2>2. /\ ReplyOrder(ctx'.events, dispatch', got'.replies, accepted')
        /\ LogOrder(ctx'.messages, got'.log, got'.log_overflow, logged')
    BY <1>4, <1>5, <1>7 DEF RoundOf
  <2>. QED BY <1>4, <1>5, <2>1, <2>2 DEF Ordered
<1>12. cur_event' \in Returned /\ dispatch' \in Seq(Calls)
  BY <1>1, <1>2, <1>3 DEF Returned
<1>13. Faithful
  <2>1. cur_event'.id # "change"
    BY <1>2, <1>3 DEF Events
  <2>. QED BY <1>7, <2>1 DEF Faithful
<1>. QED BY <1>4, <1>7, <1>8, <1>9, <1>10, <1>11, <1>12, <1>13 DEF RoundLeaves

(* The updates when others are queued, of different observers.             *)
LEMMA UpdatesConcat ==
  ASSUME NEW d \in Seq(Calls), NEW q \in Seq(Calls), NEW o,
         \A i \in DOMAIN q : q[i].fn = "update_prop",
         \A i, j \in DOMAIN q : q[i].prop = q[j].prop => i = j
  PROVE  /\ \A i \in Updates(d \o q, o) :
              i \in Updates(d, o) \/ (\E k \in DOMAIN q : q[k].prop = o)
         /\ (\A i, j \in Updates(d, o) : i = j)
              /\ (Updates(d, o) = {} \/ \A k \in DOMAIN q : q[k].prop # o)
              => \A i, j \in Updates(d \o q, o) : i = j
<1>1. /\ Len(d) \in Nat /\ Len(q) \in Nat /\ DOMAIN d = 1 .. Len(d)
      /\ DOMAIN q = 1 .. Len(q) /\ DOMAIN (d \o q) = 1 .. Len(d) + Len(q)
      /\ \A i \in 1 .. Len(d) : (d \o q)[i] = d[i]
      /\ \A i \in 1 .. Len(q) : (d \o q)[Len(d) + i] = q[i]
  BY Concats
<1>2. ASSUME NEW i \in Updates(d \o q, o)
      PROVE  \/ i \in Updates(d, o)
             \/ /\ i - Len(d) \in DOMAIN q /\ q[i - Len(d)].prop = o
                /\ i \in Nat
  <2>1. i \in 1 .. Len(d) + Len(q) /\ (d \o q)[i].fn = "update_prop"
        /\ (d \o q)[i].prop = o
    BY <1>1 DEF Updates
  <2>2. CASE i \in 1 .. Len(d)
    BY <1>1, <2>1, <2>2 DEF Updates
  <2>3. CASE i \notin 1 .. Len(d)
    <3>1. i - Len(d) \in 1 .. Len(q) /\ Len(d) + (i - Len(d)) = i
      BY <1>1, <2>1, <2>3
    <3>2. (d \o q)[i] = q[i - Len(d)]
      BY <1>1, <3>1
    <3>. QED BY <1>1, <2>1, <3>1, <3>2
  <2>. QED BY <2>2, <2>3
<1>3. ASSUME \A i, j \in Updates(d, o) : i = j,
             Updates(d, o) = {} \/ \A k \in DOMAIN q : q[k].prop # o,
             NEW i \in Updates(d \o q, o), NEW j \in Updates(d \o q, o)
      PROVE  i = j
  <2>1. CASE Updates(d, o) = {}
    <3>1. i - Len(d) = j - Len(d) /\ i \in Nat /\ j \in Nat
      BY <1>2, <2>1
    <3>. QED BY <1>1, <3>1
  <2>2. CASE \A k \in DOMAIN q : q[k].prop # o
    BY <1>2, <1>3, <2>2
  <2>. QED BY <1>3, <2>1, <2>2
<1>4. \A i \in Updates(d \o q, o) :
        i \in Updates(d, o) \/ (\E k \in DOMAIN q : q[k].prop = o)
  BY <1>2
<1>. QED BY <1>3, <1>4

(* What a round has after gen_property_change_event().                     *)
LEMMA GeneratedIs ==
  ASSUME IInv, NEW c, RoundOf(c), NEW x, x = GenPropertyChange(c, dispatch)
  PROVE  /\ Generated(c, dispatch, x)
         /\ x.ctx \in Handles /\ x.ctx.events = ctx.events
         /\ x.ctx.reserved_events = ctx.reserved_events
         /\ x.ctx.choked = ctx.choked /\ x.ctx.properties = ctx.properties
         /\ x.ctx.lowest_changed \in 1 .. Len(ctx.properties) + 1
         /\ x.ctx.messages = ctx.messages
         /\ x.ctx.prop \in [Observers -> Properties]
<1>0. /\ c \in Handles /\ c.events = ctx.events
      /\ c.reserved_events = ctx.reserved_events
      /\ c.choked = ctx.choked /\ c.properties = ctx.properties
      /\ c.lowest_changed = ctx.lowest_changed
      /\ c.messages = ctx.messages
  BY BeginsIs DEF RoundOf
<1>1. /\ dispatch \in Seq(Calls) /\ Distinct(c.properties)
      /\ c.lowest_changed \in 1 .. Len(c.properties) + 1
  BY <1>0, PendingCalls DEF IInv, Attached, Distinct, Bounded
<1>2. Generated(c, dispatch, x)
  BY <1>0, <1>1, GenPropertyChangeDoes
<1>3. /\ x.ctx \in Handles
      /\ SameData(x.ctx,
           [c EXCEPT !.lowest_changed = x.ctx.lowest_changed,
                     !.properties_updating = x.ctx.properties_updating,
                     !.prop = x.ctx.prop])
      /\ x.ctx.lowest_changed \in 1 .. Len(c.properties) + 1
  BY <1>2 DEF Generated
<1>4. /\ x.ctx.events = c.events /\ x.ctx.reserved_events = c.reserved_events
      /\ x.ctx.choked = c.choked /\ x.ctx.properties = c.properties
      /\ x.ctx.messages = c.messages /\ x.ctx.prop \in [Observers -> Properties]
  BY <1>0, <1>3 DEF SameData, Handles
<1>. QED BY <1>0, <1>2, <1>3, <1>4

(* The values it asked for: each of these observers had no update pending, *)
(* unless it gets "twice".                                                 *)
LEMMA ChangesAsked ==
  ASSUME IInv, NEW c, RoundOf(c), NEW x, Generated(c, dispatch, x),
         dispatch' = x.dispatch, ctx'.prop = x.ctx.prop,
         ctx'.properties = ctx.properties, ctx'.events = ctx.events,
         ctx'.reserved_events = ctx.reserved_events,
         ctx'.properties_updating = x.ctx.properties_updating
  PROVE  /\ dispatch' \in Seq(Calls) /\ Attached' /\ Counted'
         /\ ReplyOrder(ctx.events, dispatch', got.replies, accepted)
<1>0. /\ c \in Handles /\ c.properties = ctx.properties
      /\ c.lowest_changed = ctx.lowest_changed
      /\ c.properties_updating = ctx.properties_updating
      /\ \A o \in Observers : /\ ctx.prop[o] \in Properties /\ c.prop[o] \in Properties
                              /\ Freed(c.prop[o], ctx.prop[o])
  BY BeginsIs DEF RoundOf
<1>1. /\ dispatch \in Seq(Calls) /\ ctx.properties_updating \in Nat
      /\ \A fn : Pending(fn) = Cardinality(CallsOf(dispatch, fn)) /\ Pending(fn) \in Nat
      /\ ctx.properties \in Seq(Observers)
  BY PendingCalls DEF Handles
<1>2. /\ \E q \in Seq(Calls) :
           /\ x.dispatch = dispatch \o q
           /\ x.ctx.properties_updating = c.properties_updating + Len(q)
           /\ \A i \in DOMAIN q :
                /\ q[i].fn = "update_prop" /\ q[i].prop \in ToSet(c.properties)
                /\ x.ctx.prop[q[i].prop] = AskProperty(c.prop[q[i].prop])
           /\ \A i, j \in DOMAIN q : q[i].prop = q[j].prop => i = j
      /\ \A o \in Observers :
           \/ x.ctx.prop[o] = c.prop[o]
           \/ x.ctx.prop[o] = AskProperty(c.prop[o])
           \/ /\ x.ctx.prop[o] = TellProperty(c.prop[o])
              /\ x.event = ChangeOf(c.prop[o], o)
  BY DEF Generated
<1>3. PICK q \in Seq(Calls) :
        /\ dispatch' = dispatch \o q
        /\ ctx'.properties_updating = ctx.properties_updating + Len(q)
        /\ \A i \in DOMAIN q :
             /\ q[i].fn = "update_prop" /\ q[i].prop \in ToSet(ctx.properties)
             /\ ctx'.prop[q[i].prop] = AskProperty(c.prop[q[i].prop])
        /\ \A i, j \in DOMAIN q : q[i].prop = q[j].prop => i = j
  <2>1. ctx'.prop = x.ctx.prop /\ dispatch' = x.dispatch
    OBVIOUS
  <2>2. ctx'.properties_updating = x.ctx.properties_updating
    OBVIOUS
  <2>3. PICK q \in Seq(Calls) :
          /\ x.dispatch = dispatch \o q
          /\ x.ctx.properties_updating = c.properties_updating + Len(q)
          /\ \A i \in DOMAIN q :
               /\ q[i].fn = "update_prop" /\ q[i].prop \in ToSet(c.properties)
               /\ x.ctx.prop[q[i].prop] = AskProperty(c.prop[q[i].prop])
          /\ \A i, j \in DOMAIN q : q[i].prop = q[j].prop => i = j
    BY <1>2
  <2>4. \A i \in DOMAIN q :
          /\ q[i].fn = "update_prop" /\ q[i].prop \in ToSet(ctx.properties)
          /\ ctx'.prop[q[i].prop] = AskProperty(c.prop[q[i].prop])
    BY <1>0, <2>1, <2>3
  <2>5. /\ dispatch' = dispatch \o q
        /\ ctx'.properties_updating = ctx.properties_updating + Len(q)
    BY <1>0, <2>1, <2>2, <2>3
  <2>. QED BY <2>3, <2>4, <2>5
<1>4. /\ dispatch' \in Seq(Calls) /\ Len(q) \in Nat /\ Len(dispatch) \in Nat
      /\ \A i \in 1 .. Len(dispatch) : dispatch'[i] = dispatch[i]
  BY <1>1, <1>3, Concats
<1>5. /\ Cardinality(CallsOf(dispatch', "update_prop")) =
           Cardinality(CallsOf(dispatch, "update_prop")) + Len(q)
      /\ CallsOf(dispatch', "request") = CallsOf(dispatch, "request")
  <2>1. \A i \in DOMAIN q : q[i].fn = "update_prop"
    BY <1>3
  <2>2. /\ Cardinality(CallsOf(dispatch \o q, "update_prop")) =
             Cardinality(CallsOf(dispatch, "update_prop")) + Len(q)
        /\ CallsOf(dispatch \o q, "request") = CallsOf(dispatch, "request")
    BY <1>1, <2>1, UpdatesQueued
  <2>. QED BY <1>3, <2>2
<1>6. Counted'
  <2>1. /\ Pending("request")' = Pending("request")
        /\ Pending("update_prop")' = Pending("update_prop") + Len(q)
    BY <1>1, <1>5 DEF Pending, CallsOf
  <2>2. core' = core
    BY DEF RoundOf
  <2>. QED BY <1>1, <1>3, <1>4, <2>1, <2>2 DEF IInv, Counted
<1>7. ReplyOrder(ctx.events, dispatch', got.replies, accepted)
  <2>1. /\ RequestsIn(dispatch') = RequestsIn(dispatch)
        /\ \A i \in RequestsIn(dispatch) : dispatch'[i] = dispatch[i]
    BY <1>1, <1>4, <1>5 DEF RequestsIn, CallsOf
  <2>2. ReplyOrder(ctx.events, dispatch, got.replies, accepted)
    BY DEF IInv, Ordered
  <2>. QED BY <2>1, <2>2, RequestsOther
<1>8. ASSUME NEW o \in Observers
      PROVE  /\ ctx'.prop[o].dead = ctx.prop[o].dead
             /\ \/ ctx'.prop[o].memory = ctx.prop[o].memory
                \/ ctx.prop[o].memory = "cur_event" /\ ctx'.prop[o].memory = "freed"
             /\ ~ctx'.prop[o].twice => ~ctx.prop[o].twice
             /\ ctx.prop[o].updating => ctx'.prop[o].updating
  <2>1. /\ c.prop[o].dead = ctx.prop[o].dead
        /\ \/ c.prop[o].memory = ctx.prop[o].memory
           \/ ctx.prop[o].memory = "cur_event" /\ c.prop[o].memory = "freed"
        /\ c.prop[o].twice = ctx.prop[o].twice
        /\ c.prop[o].updating = ctx.prop[o].updating
        /\ c.prop[o] \in Properties
    BY <1>0, FreedIs
  <2>2. \/ ctx'.prop[o] = c.prop[o]
        \/ ctx'.prop[o] = AskProperty(c.prop[o])
        \/ ctx'.prop[o] = TellProperty(c.prop[o])
    BY <1>2
  <2>3. CASE ctx'.prop[o] = c.prop[o]
    BY <2>1, <2>3
  <2>4. CASE ctx'.prop[o] = AskProperty(c.prop[o])
    BY <2>1, <2>4, AskPropertyDoes
  <2>5. CASE ctx'.prop[o] = TellProperty(c.prop[o])
    BY <2>1, <2>5, TellPropertyDoes
  <2>. QED BY <2>2, <2>3, <2>4, <2>5
<1>9. ASSUME NEW k \in DOMAIN q
      PROVE  /\ q[k].prop \in Observers /\ ctx'.prop[q[k].prop].updating
             /\ ctx.prop[q[k].prop].memory = "ctx"
             /\ ctx'.prop[q[k].prop].memory = "ctx"
             /\ ~ctx'.prop[q[k].prop].twice => ~Updated(q[k].prop)
  <2> DEFINE o == q[k].prop
  <2>1. PICK i \in DOMAIN ctx.properties : o = ctx.properties[i]
    BY <1>3 DEF ToSet
  <2>2. o \in Observers /\ ctx.prop[o].memory = "ctx"
    BY <1>1, <2>1 DEF IInv, Attached
  <2>3. ctx'.prop[o] = AskProperty(c.prop[o])
    BY <1>3
  <2>. HIDE DEF o
  <2>4. /\ ctx'.prop[o].updating
        /\ ~ctx'.prop[o].twice => ~c.prop[o].twice /\ ~c.prop[o].updating
    BY <1>0, <2>2, <2>3, AskPropertyDoes
  <2>5. /\ c.prop[o].twice = ctx.prop[o].twice
        /\ c.prop[o].updating = ctx.prop[o].updating
    BY <1>0, <2>2, FreedIs
  <2>6. ~ctx'.prop[o].twice => ~Updated(o)
    BY <2>2, <2>4, <2>5 DEF IInv, Attached
  <2>. QED BY <1>8, <2>2, <2>4, <2>6 DEF o
<1>10. Attached'
  <2>1. ASSUME NEW i \in DOMAIN ctx.properties
        PROVE  /\ ctx'.prop[ctx.properties[i]].memory = "ctx"
               /\ ~ctx'.prop[ctx.properties[i]].dead
    <3>1. /\ ctx.properties[i] \in Observers
          /\ ctx.prop[ctx.properties[i]].memory = "ctx"
          /\ ~ctx.prop[ctx.properties[i]].dead
      BY <1>1 DEF IInv, Attached
    <3>. QED BY <1>8, <3>1
  <2>2. ASSUME NEW o
        PROVE  /\ \A i \in Updates(dispatch', o) :
                    i \in Updates(dispatch, o) \/ (\E k \in DOMAIN q : q[k].prop = o)
               /\ (\A i, j \in Updates(dispatch, o) : i = j)
                    /\ (Updates(dispatch, o) = {} \/ \A k \in DOMAIN q : q[k].prop # o)
                    => \A i, j \in Updates(dispatch', o) : i = j
    <3>1. /\ \A i \in DOMAIN q : q[i].fn = "update_prop"
          /\ \A i, j \in DOMAIN q : q[i].prop = q[j].prop => i = j
      BY <1>3
    <3>2. /\ \A i \in Updates(dispatch \o q, o) :
               i \in Updates(dispatch, o) \/ (\E k \in DOMAIN q : q[k].prop = o)
          /\ (\A i, j \in Updates(dispatch, o) : i = j)
               /\ (Updates(dispatch, o) = {} \/ \A k \in DOMAIN q : q[k].prop # o)
               => \A i, j \in Updates(dispatch \o q, o) : i = j
      BY <1>1, <3>1, UpdatesConcat, Zenon
    <3>. QED BY <1>3, <3>2
  <2>3. core' = core
    BY DEF RoundOf
  <2>4. ASSUME NEW o \in Observers
        PROVE  /\ Updated(o)' => ctx'.prop[o].memory # "unused"
               /\ ~ctx'.prop[o].twice =>
                    /\ Updated(o)' => ctx'.prop[o].updating /\ ctx'.prop[o].memory = "ctx"
                    /\ \A i, j \in Updates(dispatch', o) : i = j
                    /\ core'.pc = "update" /\ core'.prop = o => Updates(dispatch', o) = {}
    <3>1. CASE \E k \in DOMAIN q : q[k].prop = o
      <4>1. /\ ctx'.prop[o].updating /\ ctx'.prop[o].memory = "ctx"
            /\ ~ctx'.prop[o].twice => ~Updated(o)
        BY <1>9, <3>1
      <4>2. ~Updated(o) => /\ Updates(dispatch, o) = {}
                           /\ ~(core'.pc = "update" /\ core'.prop = o)
        BY <2>3, UpdatedIs
      <4>. QED BY <2>2, <4>1, <4>2
    <3>2. CASE \A k \in DOMAIN q : q[k].prop # o
      <4>1. Updates(dispatch', o) # {} => Updates(dispatch, o) # {}
        BY <2>2, <3>2
      <4>2. Updated(o)' => Updated(o)
        BY <2>3, <4>1, UpdatedIs
      <4>3. /\ Updated(o) => ctx.prop[o].memory # "unused"
            /\ ~ctx.prop[o].twice =>
                 /\ Updated(o) => ctx.prop[o].updating /\ ctx.prop[o].memory = "ctx"
                 /\ \A i, j \in Updates(dispatch, o) : i = j
                 /\ core.pc = "update" /\ core.prop = o => Updates(dispatch, o) = {}
        BY DEF IInv, Attached
      <4>4. ~ctx.prop[o].twice => \A i, j \in Updates(dispatch', o) : i = j
        BY <2>2, <3>2, <4>3
      <4>. QED BY <1>8, <2>3, <4>1, <4>2, <4>3, <4>4
    <3>. QED BY <3>1, <3>2
  <2>5. \A i, j \in DOMAIN ctx'.properties :
          ctx'.properties[i] = ctx'.properties[j] => i = j
    BY DEF IInv, Attached
  <2>. QED BY <2>1, <2>4, <2>5 DEF Attached
<1>. QED BY <1>4, <1>6, <1>7, <1>10

(* The change it told: the value is new for who asked for it.              *)
LEMMA ChangesTold ==
  ASSUME IInv, NEW c, RoundOf(c), NEW x, Generated(c, dispatch, x),
         ctx'.prop = x.ctx.prop, ctx'.properties = ctx.properties,
         x.event = None => got'.value = got.value,
         x.event # None => got'.value = [got.value EXCEPT ![x.event.prop] = x.event.value]
  PROVE  /\ ChangesKnown'
         /\ x.event # None =>
              /\ x.event.prop \in Observers /\ x.event.value \in Values
              /\ x.event.id = "change" /\ x.event \in Returned
              /\ \/ ctx.prop[x.event.prop].format = "none"
                 \/ got'.value # got.value
<1>0. /\ c \in Handles /\ c.properties = ctx.properties
      /\ \A o \in Observers : /\ ctx.prop[o] \in Properties /\ c.prop[o] \in Properties
                              /\ Freed(c.prop[o], ctx.prop[o])
  BY BeginsIs DEF RoundOf
<1>1. /\ ctx.properties \in Seq(Observers) /\ got.value \in [Observers -> Values]
      /\ core' = core /\ value' = value /\ client # "gone"
  BY DEF IInv, Types, Handles, Got, RoundOf
<1>2. /\ \A o \in Observers :
           \/ x.ctx.prop[o] = c.prop[o]
           \/ x.ctx.prop[o] = AskProperty(c.prop[o])
           \/ /\ x.ctx.prop[o] = TellProperty(c.prop[o])
              /\ x.event = ChangeOf(c.prop[o], o)
      /\ \/ x.event = None
         \/ \E o \in ToSet(c.properties) :
              /\ x.event = ChangeOf(c.prop[o], o) /\ Tells(c.prop[o])
              /\ x.ctx.prop[o] = TellProperty(c.prop[o])
  BY DEF Generated
<1>3. ASSUME NEW o \in Observers
      PROVE  /\ c.prop[o].format = ctx.prop[o].format
             /\ c.prop[o].user_value = ctx.prop[o].user_value
             /\ c.prop[o].new_value = ctx.prop[o].new_value
             /\ c.prop[o].memory = "unused" <=> ctx.prop[o].memory = "unused"
             /\ Retrieved(c.prop[o]) <=> Retrieved(ctx.prop[o])
             /\ ctx.prop[o].format \in {"none", "value"}
  <2>1. /\ c.prop[o].format = ctx.prop[o].format
        /\ c.prop[o].user_value = ctx.prop[o].user_value
        /\ c.prop[o].new_value = ctx.prop[o].new_value
        /\ c.prop[o].memory = ctx.prop[o].memory
             \/ (ctx.prop[o].memory = "cur_event" /\ c.prop[o].memory = "freed")
        /\ Retrieved(c.prop[o]) <=> Retrieved(ctx.prop[o])
    BY <1>0, FreedIs
  <2>2. ctx.prop[o].format \in {"none", "value"}
    BY <1>0 DEF Properties
  <2>. QED BY <2>1, <2>2
<1>4. ASSUME NEW o \in Observers, NEW p \in Observers
      PROVE  /\ ChangeOf(c.prop[o], o) # None
             /\ ChangeOf(c.prop[o], o) = ChangeOf(c.prop[p], p) => o = p
             /\ ChangeOf(c.prop[o], o).prop = o /\ ChangeOf(c.prop[o], o).id = "change"
             /\ ChangeOf(c.prop[o], o).value = c.prop[o].new_value
  <2>1. ChangeOf(c.prop[o], o).id # None.id
    BY DEF ChangeOf, None
  <2>2. ChangeOf(c.prop[o], o).prop = o /\ ChangeOf(c.prop[p], p).prop = p
    BY DEF ChangeOf
  <2>. QED BY <2>1, <2>2 DEF ChangeOf
<1>5. \A i \in DOMAIN ctx.properties : ctx.properties[i] \in Observers
  BY <1>1
<1>6. x.event # None =>
        \E i \in DOMAIN ctx.properties :
          LET o == ctx.properties[i] IN
          /\ x.event = ChangeOf(c.prop[o], o) /\ Tells(c.prop[o])
          /\ x.ctx.prop[o] = TellProperty(c.prop[o])
  BY <1>0, <1>2 DEF ToSet
<1>7. ASSUME NEW o \in Observers
      PROVE  /\ got'.value[o] = ctx'.prop[o].user_value
             /\ ctx'.prop[o].memory = "unused" => got'.value[o] = 0
             /\ Retrieved(ctx'.prop[o]) =>
                  /\ Retrieved(ctx.prop[o])
                  /\ ctx'.prop[o].new_value = ctx.prop[o].new_value
                  /\ ctx'.prop[o].user_value = ctx.prop[o].user_value
  <2>1. /\ got.value[o] = ctx.prop[o].user_value
        /\ ctx.prop[o].memory = "unused" => got.value[o] = 0
    BY DEF IInv, ChangesKnown
  <2>2. CASE x.event = ChangeOf(c.prop[o], o)
    <3>1. x.event # None /\ x.event.prop = o /\ x.event.value = c.prop[o].new_value
      BY <1>4, <2>2
    <3>2. PICK i \in DOMAIN ctx.properties :
            LET q == ctx.properties[i] IN
            /\ x.event = ChangeOf(c.prop[q], q)
            /\ x.ctx.prop[q] = TellProperty(c.prop[q])
      BY <1>6, <3>1
    <3>3. ctx.properties[i] = o
      BY <1>4, <1>5, <2>2, <3>2
    <3>4. ctx'.prop[o] = TellProperty(c.prop[o]) /\ ctx.prop[o].memory = "ctx"
      BY <3>2, <3>3 DEF IInv, Attached
    <3>5. got'.value[o] = c.prop[o].new_value
      BY <1>1, <3>1
    <3>. QED BY <1>0, <1>3, <3>4, <3>5, TellPropertyDoes
  <2>3. CASE x.event # ChangeOf(c.prop[o], o)
    <3>1. got'.value[o] = got.value[o]
      <4>1. CASE x.event = None
        BY <4>1
      <4>2. CASE x.event # None
        <5>1. PICK i \in DOMAIN ctx.properties :
                LET q == ctx.properties[i] IN x.event = ChangeOf(c.prop[q], q)
          BY <1>6, <4>2
        <5>2. x.event.prop = ctx.properties[i]
          BY <1>4, <1>5, <5>1
        <5>3. x.event.prop # o
          BY <2>3, <5>1, <5>2
        <5>. QED BY <1>1, <4>2, <5>3
      <4>. QED BY <4>1, <4>2
    <3>2. ctx'.prop[o] = c.prop[o] \/ ctx'.prop[o] = AskProperty(c.prop[o])
      BY <1>2, <2>3
    <3>3. CASE ctx'.prop[o] = c.prop[o]
      BY <1>3, <2>1, <3>1, <3>3
    <3>4. CASE ctx'.prop[o] = AskProperty(c.prop[o])
      BY <1>0, <1>3, <2>1, <3>1, <3>4, AskPropertyDoes
    <3>. QED BY <3>2, <3>3, <3>4
  <2>. QED BY <2>2, <2>3
<1>8. ChangesKnown'
  <2>1. ASSUME NEW i \in DOMAIN ctx.properties,
               Retrieved(ctx'.prop[ctx.properties[i]])
        PROVE  /\ ctx'.prop[ctx.properties[i]].new_value #
                    ctx'.prop[ctx.properties[i]].user_value
               /\ core'.pc # "notify" /\ client' # "gone" =>
                    ctx'.prop[ctx.properties[i]].new_value = value
    BY <1>1, <1>5, <1>7, <2>1 DEF IInv, ChangesKnown
  <2>. QED BY <1>1, <1>7, <2>1 DEF ChangesKnown
<1>9. ASSUME x.event # None
      PROVE  /\ x.event.prop \in Observers /\ x.event.value \in Values
             /\ x.event.id = "change" /\ x.event \in Returned
             /\ \/ ctx.prop[x.event.prop].format = "none"
                \/ got'.value # got.value
  <2>1. PICK i \in DOMAIN ctx.properties :
          LET q == ctx.properties[i] IN
          x.event = ChangeOf(c.prop[q], q) /\ Tells(c.prop[q])
    BY <1>6, <1>9
  <2> DEFINE o == ctx.properties[i]
  <2>2. o \in Observers
    BY <1>5
  <2>3. x.event = ChangeOf(c.prop[o], o) /\ Tells(c.prop[o])
    BY <2>1
  <2>. HIDE DEF o
  <2>4. /\ x.event.prop = o /\ x.event.id = "change"
        /\ x.event.value = c.prop[o].new_value /\ c.prop[o].new_value \in Values
    BY <1>0, <1>4, <2>2, <2>3 DEF Properties
  <2>5. x.event \in Returned
    BY <2>2, <2>3, <2>4 DEF ChangeOf, Returned
  <2>6. CASE ctx.prop[o].format # "none"
    <3>1. Retrieved(ctx.prop[o])
      BY <1>3, <2>2, <2>3, <2>6 DEF Tells, Asks, Retrieved
    <3>2. ctx.prop[o].new_value # ctx.prop[o].user_value
      BY <3>1 DEF IInv, ChangesKnown, o
    <3>3. got.value[o] = ctx.prop[o].user_value
      BY <2>2 DEF IInv, ChangesKnown
    <3>4. got'.value[o] = c.prop[o].new_value
      BY <1>1, <1>9, <2>2, <2>4
    <3>. QED BY <1>3, <2>2, <2>4, <2>5, <3>2, <3>3, <3>4
  <2>. QED BY <2>2, <2>4, <2>5, <2>6
<1>. QED BY <1>8, <1>9

(* The round returns a change.                                             *)
LEMMA ChangeReturned ==
  ASSUME IInv, NEW c, RoundOf(c), NEW x, x = GenPropertyChange(c, dispatch),
         dispatch' = x.dispatch, x.event # None, Return(x.ctx, x.event)
  PROVE  RoundLeaves
<1>1. /\ Generated(c, dispatch, x)
      /\ x.ctx \in Handles /\ x.ctx.events = ctx.events
      /\ x.ctx.reserved_events = ctx.reserved_events
      /\ x.ctx.choked = ctx.choked /\ x.ctx.properties = ctx.properties
      /\ x.ctx.lowest_changed \in 1 .. Len(ctx.properties) + 1
      /\ x.ctx.messages = ctx.messages
  BY GeneratedIs
<1>2. ctx' = [x.ctx EXCEPT !.queued_wakeup = FALSE] /\ cur_event' = x.event
      /\ Deliver(x.event)
  BY DEF Return
<1>3. /\ ctx' \in Handles /\ ctx'.events = ctx.events
      /\ ctx'.reserved_events = ctx.reserved_events
      /\ ctx'.choked = ctx.choked /\ ctx'.properties = ctx.properties
      /\ ctx'.lowest_changed \in 1 .. Len(ctx.properties) + 1
      /\ ctx'.messages = ctx.messages /\ ctx'.prop = x.ctx.prop
      /\ ctx'.properties_updating = x.ctx.properties_updating
  BY <1>1, <1>2 DEF Handles
<1>4. x.event.id = "change" /\ x.event.prop \in Observers /\ x.event.value \in Values
  <2>1. PICK o \in ToSet(c.properties) : x.event = ChangeOf(c.prop[o], o)
    BY <1>1 DEF Generated
  <2>2. /\ c \in Handles /\ \A p \in Observers : c.prop[p] \in Properties
    BY BeginsIs DEF RoundOf
  <2>3. o \in Observers
    BY <2>2 DEF ToSet, Handles
  <2>. QED BY <2>1, <2>2, <2>3 DEF ChangeOf, Properties
<1>5. got' = [got EXCEPT !.value = [@ EXCEPT ![x.event.prop] = x.event.value]]
  BY <1>2, <1>4 DEF Deliver
<1>6. /\ got' \in Got /\ got'.event = got.event /\ got'.overflow = got.overflow
      /\ got'.log = got.log /\ got'.log_overflow = got.log_overflow
      /\ got'.replies = got.replies
      /\ got'.value = [got.value EXCEPT ![x.event.prop] = x.event.value]
  <2> DEFINE v == [got.value EXCEPT ![x.event.prop] = x.event.value]
  <2>1. got \in Got /\ got.value \in [Observers -> Values]
    BY PendingCalls DEF Got
  <2>2. v \in [Observers -> Values]
    BY <1>4, <2>1
  <2>3. got' = [got EXCEPT !.value = v]
    BY <1>5
  <2>. HIDE DEF v
  <2>4. /\ got' \in Got /\ got'.event = got.event /\ got'.overflow = got.overflow
        /\ got'.log = got.log /\ got'.log_overflow = got.log_overflow
        /\ got'.replies = got.replies /\ got'.value = v
    BY <2>1, <2>2, <2>3 DEF Got
  <2>. QED BY <2>4 DEF v
<1>7. /\ dispatch' \in Seq(Calls) /\ Attached' /\ Counted'
      /\ ReplyOrder(ctx.events, dispatch', got.replies, accepted)
  BY <1>1, <1>3, ChangesAsked
<1>8. /\ ChangesKnown' /\ x.event \in Returned
      /\ \/ ctx.prop[x.event.prop].format = "none"
         \/ got'.value # got.value
  BY <1>1, <1>3, <1>6, ChangesTold
<1>9. Bounded'
  BY <1>3 DEF IInv, Bounded
<1>10. Ordered'
  <2>1. /\ EventOrder(ctx.events, got.event, got.overflow, sent,
                      ~ctx.choked /\ client # "gone")
        /\ LogOrder(ctx.messages, got.log, got.log_overflow, logged)
        /\ Len(ctx.messages) = LogSize => ctx.messages[LogSize] = 0
    BY DEF IInv, Ordered
  <2>2. (~ctx'.choked /\ client' # "gone") = (~ctx.choked /\ client # "gone")
    BY <1>3 DEF RoundOf
  <2>. QED BY <1>3, <1>6, <1>7, <2>1, <2>2 DEF Ordered, RoundOf
<1>11. Faithful
  BY <1>2, <1>6, <1>8 DEF Faithful
<1>. QED BY <1>2, <1>3, <1>6, <1>7, <1>8, <1>9, <1>10, <1>11 DEF RoundLeaves

(* The round returns a log message.                                        *)
LEMMA LogReturned ==
  ASSUME IInv, NEW c, RoundOf(c), NEW x, x = GenPropertyChange(c, dispatch),
         dispatch' = x.dispatch, x.event = None, c.messages # <<>>,
         Return([x.ctx EXCEPT !.messages = Tail(@)],
                [id |-> "log", n |-> Head(c.messages)])
  PROVE  RoundLeaves
<1> DEFINE m == ctx.messages
<1>0. c.messages = m /\ c \in Handles
  BY BeginsIs DEF RoundOf
<1>1. /\ Generated(c, dispatch, x)
      /\ x.ctx \in Handles /\ x.ctx.events = ctx.events
      /\ x.ctx.reserved_events = ctx.reserved_events
      /\ x.ctx.choked = ctx.choked /\ x.ctx.properties = ctx.properties
      /\ x.ctx.lowest_changed \in 1 .. Len(ctx.properties) + 1
      /\ x.ctx.messages = m
  BY GeneratedIs
<1>2. /\ m \in Seq(Nat) /\ m # <<>> /\ got \in Got /\ got.log \in Nat
      /\ got.log_overflow \in BOOLEAN /\ logged \in Nat
  BY <1>0, PendingCalls
<1>3. /\ Tail(m) \in Seq(Nat) /\ Head(m) = m[1] /\ m[1] \in Nat
      /\ Len(Tail(m)) = Len(m) - 1 /\ Len(m) \in Nat
  BY <1>2, Tails
<1>4. /\ ctx' = [x.ctx EXCEPT !.messages = Tail(m), !.queued_wakeup = FALSE]
      /\ cur_event' = [id |-> "log", n |-> m[1]]
      /\ Deliver([id |-> "log", n |-> m[1]])
  BY <1>0, <1>1, <1>3 DEF Return, Handles
<1>. HIDE DEF m
<1>5. /\ ctx' \in Handles /\ ctx'.events = ctx.events
      /\ ctx'.reserved_events = ctx.reserved_events
      /\ ctx'.choked = ctx.choked /\ ctx'.properties = ctx.properties
      /\ ctx'.lowest_changed \in 1 .. Len(ctx.properties) + 1
      /\ ctx'.messages = Tail(m) /\ ctx'.prop = x.ctx.prop
      /\ ctx'.properties_updating = x.ctx.properties_updating
  BY <1>1, <1>3, <1>4 DEF Handles
<1>6. LogOrder(m, got.log, got.log_overflow, logged) /\ Len(m) <= LogSize
  BY DEF IInv, Ordered, Bounded, m
<1>7. /\ got' \in Got /\ got'.event = got.event /\ got'.overflow = got.overflow
      /\ got'.replies = got.replies /\ got'.value = got.value
      /\ LogOrder(Tail(m), got'.log, got'.log_overflow, logged)
      /\ got'.log # got.log =>
           got'.log = got.log + 1 \/ (got.log < got'.log /\ got.log_overflow)
  <2>1. CASE m[1] = 0
    <3>1. got' = [got EXCEPT !.log_overflow = TRUE]
      BY <1>4, <2>1 DEF Deliver
    <3>2. /\ got' \in Got /\ got'.event = got.event /\ got'.overflow = got.overflow
          /\ got'.replies = got.replies /\ got'.value = got.value
          /\ got'.log = got.log /\ got'.log_overflow = TRUE
      BY <1>2, <3>1 DEF Got
    <3>3. LogOrder(Tail(m), got.log, TRUE, logged)
      BY <1>2, <1>6, <2>1, LogLost
    <3>. QED BY <3>2, <3>3
  <2>2. CASE m[1] # 0
    <3>1. got' = [got EXCEPT !.log = m[1], !.log_overflow = FALSE]
      BY <1>4, <2>2 DEF Deliver
    <3>2. /\ got' \in Got /\ got'.event = got.event /\ got'.overflow = got.overflow
          /\ got'.replies = got.replies /\ got'.value = got.value
          /\ got'.log = m[1] /\ got'.log_overflow \in BOOLEAN
      BY <1>2, <1>3, <3>1 DEF Got
    <3>3. ASSUME NEW free \in BOOLEAN
          PROVE  /\ LogOrder(Tail(m), m[1], free, logged) /\ got.log < m[1]
                 /\ m[1] = got.log + 1 \/ got.log_overflow
      BY <1>2, <1>6, <2>2, LogTold
    <3>. QED BY <3>2, <3>3
  <2>. QED BY <2>1, <2>2
<1>8. /\ dispatch' \in Seq(Calls) /\ Attached' /\ Counted'
      /\ ReplyOrder(ctx.events, dispatch', got.replies, accepted)
  BY <1>1, <1>5, ChangesAsked
<1>9. ChangesKnown'
  BY <1>1, <1>5, <1>7, ChangesTold
<1>10. Bounded' /\ Len(ctx'.messages) < LogSize
  BY <1>3, <1>5, <1>6, ClientAssumption DEF Bounded
<1>11. Ordered'
  <2>1. EventOrder(ctx.events, got.event, got.overflow, sent,
                   ~ctx.choked /\ client # "gone")
    BY DEF IInv, Ordered
  <2>2. (~ctx'.choked /\ client' # "gone") = (~ctx.choked /\ client # "gone")
    BY <1>5 DEF RoundOf
  <2>3. Len(ctx'.messages) # LogSize
    BY <1>3, <1>5, <1>10, ClientAssumption
  <2>. QED BY <1>5, <1>7, <1>8, <2>1, <2>2, <2>3 DEF Ordered, RoundOf
<1>12. Faithful /\ cur_event' \in Returned
  BY <1>3, <1>4, <1>7 DEF Faithful, Returned
<1>. QED BY <1>5, <1>7, <1>8, <1>9, <1>10, <1>11, <1>12 DEF RoundLeaves

(* The round returns nothing.                                              *)
LEMMA NothingReturned ==
  ASSUME IInv, NEW c, RoundOf(c), NEW x, x = GenPropertyChange(c, dispatch),
         dispatch' = x.dispatch, x.event = None, ctx' = x.ctx,
         UNCHANGED <<cur_event, got>>
  PROVE  RoundLeaves
<1>1. /\ Generated(c, dispatch, x)
      /\ ctx' \in Handles /\ ctx'.events = ctx.events
      /\ ctx'.reserved_events = ctx.reserved_events
      /\ ctx'.choked = ctx.choked /\ ctx'.properties = ctx.properties
      /\ ctx'.lowest_changed \in 1 .. Len(ctx.properties) + 1
      /\ ctx'.messages = ctx.messages
  BY GeneratedIs
<1>2. /\ dispatch' \in Seq(Calls) /\ Attached' /\ Counted'
      /\ ReplyOrder(ctx.events, dispatch', got.replies, accepted)
  BY <1>1, ChangesAsked
<1>3. ChangesKnown'
  BY <1>1, ChangesTold
<1>4. Bounded'
  BY <1>1 DEF IInv, Bounded
<1>5. Ordered'
  <2>1. /\ EventOrder(ctx.events, got.event, got.overflow, sent,
                      ~ctx.choked /\ client # "gone")
        /\ LogOrder(ctx.messages, got.log, got.log_overflow, logged)
        /\ Len(ctx.messages) = LogSize => ctx.messages[LogSize] = 0
    BY DEF IInv, Ordered
  <2>2. (~ctx'.choked /\ client' # "gone") = (~ctx.choked /\ client # "gone")
    BY <1>1 DEF RoundOf
  <2>. QED BY <1>1, <1>2, <2>1, <2>2 DEF Ordered, RoundOf
<1>6. Faithful
  BY DEF Faithful
<1>7. cur_event' \in Returned /\ got' \in Got
  BY DEF IInv, Types
<1>. QED BY <1>1, <1>2, <1>3, <1>4, <1>5, <1>6, <1>7 DEF RoundLeaves

(* A round of the loop of mpv_wait_event(), the first and the later ones.  *)
LEMMA RoundKeeps ==
  ASSUME IInv, NEW c, Begins(c), NEW t \in {"zero", "some", "infinite"},
         Round(c, t), client \notin {"leaving", "gone"}, timeout # "detach",
         UNCHANGED <<value, core, workload, sent, logged, accepted>>
  PROVE  IInv' /\ Faithful
<1> DEFINE x == GenPropertyChange(c, dispatch)
<1>1. /\ client' \in {"idle", "unlocked"}
      /\ timeout' \in {"zero", "some", "infinite"}
  BY DEF Round, Return
<1>2. RoundOf(c)
  BY <1>1 DEF RoundOf
<1>3. RoundLeaves
  <2>1. CASE Recovers(c)
    BY <1>2, <2>1, OverflowTold DEF Round
  <2>2. CASE ~Recovers(c) /\ c.events # <<>>
    BY <1>2, <2>2, EventReturned DEF Round
  <2>3. CASE ~Recovers(c) /\ c.events = <<>>
    <3>1. /\ dispatch' = x.dispatch
          /\ \/ x.event # None /\ Return(x.ctx, x.event)
             \/ /\ x.event = None /\ c.messages # <<>>
                /\ Return([x.ctx EXCEPT !.messages = Tail(@)],
                          [id |-> "log", n |-> Head(c.messages)])
             \/ x.event = None /\ ctx' = x.ctx /\ UNCHANGED <<cur_event, got>>
      BY <2>3 DEF Round
    <3>2. PICK y : y = x
      OBVIOUS
    <3>. HIDE DEF x
    <3>3. CASE x.event # None /\ Return(x.ctx, x.event)
      BY <1>2, <3>1, <3>2, <3>3, ChangeReturned DEF x
    <3>4. CASE /\ x.event = None /\ c.messages # <<>>
               /\ Return([x.ctx EXCEPT !.messages = Tail(@)],
                         [id |-> "log", n |-> Head(c.messages)])
      BY <1>2, <3>1, <3>2, <3>4, LogReturned DEF x
    <3>5. CASE x.event = None /\ ctx' = x.ctx /\ UNCHANGED <<cur_event, got>>
      BY <1>2, <3>1, <3>2, <3>5, NothingReturned DEF x
    <3>. QED BY <3>1, <3>3, <3>4, <3>5
  <2>. QED BY <2>1, <2>2, <2>3
<1>4. Types'
  BY <1>1, <1>3 DEF IInv, Types, RoundLeaves
<1>5. Leaving'
  BY <1>1 DEF Leaving
<1>. QED BY <1>3, <1>4, <1>5 DEF IInv, RoundLeaves

LEMMA WaitEventKeeps ==
  ASSUME IInv, NEW t \in {"zero", "some", "infinite"}, WaitEvent(t)
  PROVE  IInv' /\ Faithful
<1> DEFINE b == cur_event # None
           c == FreeEvent([ctx EXCEPT !.called = @ /\ b])
<1>1. /\ client = "idle" /\ Round(c, t)
      /\ UNCHANGED <<value, core, workload, sent, logged, accepted>>
  BY DEF WaitEvent, count
<1>2. Begins(c)
  <2>1. b \in BOOLEAN
    OBVIOUS
  <2>. HIDE DEF b
  <2>. QED BY <2>1, WaitEventBegins
<1>3. timeout # "detach"
  BY <1>1 DEF IInv, Leaving
<1>. HIDE DEF c
<1>. QED BY <1>1, <1>2, <1>3, RoundKeeps

LEMMA WaitAgainKeeps ==
  ASSUME IInv, WaitAgain
  PROVE  IInv' /\ Faithful
<1>1. /\ client = "woken" /\ timeout # "detach" /\ Round(ctx, timeout)
      /\ UNCHANGED <<value, core, workload, sent, logged, accepted>>
  BY DEF WaitAgain, count
<1>2. timeout \in {"zero", "some", "infinite"} /\ ctx \in Handles
  BY <1>1 DEF IInv, Types
<1>3. Begins(ctx)
  BY <1>2 DEF Begins, SameData, Freed, Handles
<1>. QED BY <1>1, <1>2, <1>3, RoundKeeps

-----------------------------------------------------------------------------
(* A client that was just created.                                         *)
LEMMA InitKeeps ==
  ASSUME Init
  PROVE  IInv
<1>1. /\ Unused \in Properties /\ Unused.memory = "unused" /\ Unused.user_value = 0
  BY ClientAssumption DEF Unused, Property, Properties
<1> DEFINE prop == [o \in Observers |-> Unused]
<1>2. prop \in [Observers -> Properties] /\ \A o \in Observers : prop[o] = Unused
  BY <1>1
<1>. HIDE DEF prop
<1>3. /\ ctx = [need_wakeup |-> FALSE, called |-> TRUE, queued_wakeup |-> FALSE,
            events |-> <<>>, reserved_events |-> 0, choked |-> FALSE,
            properties |-> <<>>, lowest_changed |-> 1,
            properties_updating |-> 0, messages |-> <<>>, prop |-> prop]
      /\ dispatch = <<>> /\ value \in Values /\ core = [pc |-> "run"]
      /\ client = "idle" /\ timeout = "zero" /\ cur_event = None
      /\ workload \in Workloads /\ sent = 0 /\ logged = 0 /\ accepted = 0
      /\ got = NothingGot
  BY DEF Init, prop
<1>4. ctx \in Handles
  BY <1>2, <1>3 DEF Handles
<1>5. got \in Got /\ \A o \in Observers : got.value[o] = 0
  <2> DEFINE v == [o \in Observers |-> 0]
  <2>1. v \in [Observers -> Values] /\ \A o \in Observers : v[o] = 0
    BY ClientAssumption
  <2>2. got = [event |-> 0, overflow |-> FALSE, log |-> 0, log_overflow |-> FALSE,
               replies |-> 0, value |-> v]
    BY <1>3 DEF NothingGot
  <2>. HIDE DEF v
  <2>. QED BY <2>1, <2>2 DEF Got
<1>6. Types
  <2>1. core \in CoreStates /\ cur_event \in Returned /\ dispatch \in Seq(Calls)
    BY <1>3 DEF CoreStates, Returned, None
  <2>. QED BY <1>3, <1>4, <1>5, <2>1 DEF Types
<1>7. Bounded /\ Leaving
  BY <1>3, ClientAssumption DEF Bounded, Leaving
<1>8. Counted
  <2>1. \A fn : {i \in DOMAIN dispatch : dispatch[i].fn = fn} = {}
    BY <1>3
  <2>2. \A fn : Pending(fn) = 0
    BY <2>1, FS_EmptySet DEF Pending
  <2>. QED BY <1>3, <2>2, ClientAssumption DEF Counted
<1>9. Attached
  BY <1>3 DEF Attached, Updated, Updates
<1>10. Ordered
  <2>1. EventOrder(<<>>, 0, FALSE, 0, TRUE)
    BY DEF EventOrder, EventsIn
  <2>2. ReplyOrder(<<>>, <<>>, 0, 0)
    BY DEF ReplyOrder, RepliesIn, RequestsIn
  <2>3. LogOrder(<<>>, 0, FALSE, 0)
    BY DEF LogOrder
  <2>4. /\ got.event = 0 /\ got.overflow = FALSE /\ got.log = 0 /\ got.replies = 0
        /\ got.log_overflow = FALSE
    BY <1>3 DEF NothingGot
  <2>5. /\ ctx.events = <<>> /\ ctx.messages = <<>> /\ ~ctx.choked
        /\ Len(ctx.messages) # LogSize
    BY <1>3, ClientAssumption
  <2>6. EventOrder(ctx.events, got.event, got.overflow, sent,
                   ~ctx.choked /\ client # "gone")
    BY <1>3, <2>1, <2>4, <2>5, EventsOpen
  <2>. QED BY <1>3, <2>2, <2>3, <2>4, <2>5, <2>6 DEF Ordered
<1>11. ChangesKnown
  <2>1. ctx.properties = <<>> /\ \A o \in Observers : ctx.prop[o].user_value = 0
    BY <1>1, <1>2, <1>3
  <2>. QED BY <1>5, <2>1 DEF ChangesKnown
<1>. QED BY <1>6, <1>7, <1>8, <1>9, <1>10, <1>11 DEF IInv

(* Every step of the specification.                                        *)
LEMMA StepKeeps ==
  ASSUME IInv, [Next]_vars
  PROVE  IInv' /\ Faithful
<1>1. ASSUME got' = got, cur_event' = cur_event PROVE Faithful
  BY <1>1 DEF Faithful
<1>2. CASE Notify
  BY <1>1, <1>2, NotifyKeeps DEF Notify
<1>3. CASE RunRequest
  BY <1>1, <1>3, RunRequestKeeps DEF RunRequest
<1>4. CASE GetProperty
  BY <1>1, <1>4, GetPropertyKeeps DEF GetProperty
<1>5. CASE Update
  BY <1>1, <1>5, UpdateKeeps DEF Update
<1>6. CASE ShutdownClients
  BY <1>1, <1>6, ShutdownClientsKeeps DEF ShutdownClients
<1>7. CASE Shutdown \/ CoreWoken
  BY <1>1, <1>7, CoreGoesOnKeeps DEF Shutdown, CoreWoken
<1>8. ASSUME NEW t \in Timeouts, WaitEvent(t) PROVE IInv' /\ Faithful
  <2>1. t \in {"zero", "some", "infinite"}
    BY DEF Timeouts
  <2>. QED BY <1>8, <2>1, WaitEventKeeps
<1>9. CASE WaitWakeup \/ Woken
  BY <1>1, <1>9, WaitWakeupKeeps DEF WaitWakeup, Woken
<1>10. CASE WaitAgain
  BY <1>10, WaitAgainKeeps
<1>11. CASE ReturnNone
  <2>1. cur_event'.id # "change"
    BY <1>11 DEF ReturnNone, Return, None
  <2>. QED BY <1>11, <2>1, ReturnNoneKeeps DEF Faithful
<1>12. CASE Detach
  BY <1>1, <1>12, DetachKeeps DEF Detach
<1>13. CASE TimedOut
  BY <1>1, <1>13, TimedOutKeeps DEF TimedOut
<1>14. CASE WaitAsyncRequests
  BY <1>1, <1>14, WaitAsyncRequestsKeeps DEF WaitAsyncRequests
<1>15. CASE Request
  BY <1>1, <1>15, RequestKeeps DEF Request
<1>16. CASE Wakeup
  BY <1>1, <1>16, WakeupKeeps DEF Wakeup
<1>17. CASE Broadcast
  BY <1>1, <1>17, BroadcastKeeps DEF Broadcast
<1>18. CASE Log
  BY <1>1, <1>18, LogKeeps DEF Log
<1>19. CASE UNCHANGED vars
  BY <1>1, <1>19, StutterKeeps DEF vars
<1>20. ASSUME NEW o \in Observers, ObserveProperty(o) PROVE IInv' /\ Faithful
  BY <1>1, <1>20, ObservePropertyKeeps DEF ObserveProperty
<1>21. ASSUME NEW o \in Observers, UnobserveProperty(o) PROVE IInv' /\ Faithful
  BY <1>1, <1>21, UnobservePropertyKeeps DEF UnobserveProperty
<1>22. ASSUME NEW v \in Values, Change(v) PROVE IInv' /\ Faithful
  BY <1>1, <1>22, ChangeKeeps DEF Change
<1>. QED BY <1>2, <1>3, <1>4, <1>5, <1>6, <1>7, <1>8, <1>9, <1>10, <1>11,
            <1>12,
            <1>13, <1>14, <1>15, <1>16, <1>17, <1>18, <1>19, <1>20, <1>21, <1>22
         DEF Next, CoreStep, ClientStep, Done

(* The invariant, for rings, logs, values and numbers of observers of any  *)
(* size and however many events, requests and changes there are.           *)
THEOREM Invariance == Spec => []IInv
<1>1. Init => IInv
  BY InitKeeps
<1>2. IInv /\ [Next]_vars => IInv'
  BY StepKeeps
<1>. QED BY <1>1, <1>2, PTL DEF Spec

(* What the invariant says of the requests, and of the memory.             *)
LEMMA IInvReserved == IInv => RepliesReserved
<1>. SUFFICES ASSUME IInv PROVE RepliesReserved
  OBVIOUS
<1>1. /\ ctx \in Handles /\ core \in CoreStates /\ Len(ctx.events) \in Nat
      /\ ctx.reserved_events \in Nat /\ ctx.properties_updating \in Nat
  BY PendingCalls
<1>2. core.pc \in {"run", "notify", "update", "shutdown", "sleep", "exited"}
  BY <1>1 DEF CoreStates
<1>3. /\ Len(ctx.events) <= MaxEvents /\ ctx.reserved_events \in 0 .. MaxEvents
      /\ Len(ctx.events) + ctx.reserved_events <= MaxEvents
  BY <1>1, ClientAssumption DEF IInv, Counted
<1>4. /\ ToSet(ctx.properties) \subseteq Observers
      /\ ctx.need_wakeup \in BOOLEAN /\ ctx.called \in BOOLEAN
      /\ ctx.queued_wakeup \in BOOLEAN /\ ctx.choked \in BOOLEAN
      /\ \A o \in Observers : ctx.prop[o] \in Properties
  BY <1>1 DEF Handles, ToSet
<1>5. \A o \in Observers :
        /\ ctx.prop[o].memory \in {"unused", "ctx", "cur_event", "freed"}
        /\ {ctx.prop[o].new_value, ctx.prop[o].user_value} \subseteq Values
  BY <1>4 DEF Properties
<1>6. TypeOK
  BY <1>1, <1>2, <1>3, <1>4, <1>5 DEF IInv, Types, Bounded, TypeOK
<1>. QED BY <1>3, <1>6 DEF IInv, Counted, RepliesReserved

LEMMA IInvAlive == IInv => MemoryAlive
<1>. SUFFICES ASSUME IInv PROVE MemoryAlive
  OBVIOUS
<1>1. ASSUME client = "gone" PROVE dispatch = <<>> /\ core.pc # "update"
  <2>1. /\ dispatch \in Seq(Calls)
        /\ \A fn : Pending(fn) \in Nat /\ Pending(fn) = Cardinality(CallsOf(dispatch, fn))
    BY PendingCalls
  <2>2. ctx.reserved_events = 0 /\ ctx.properties_updating = 0
    BY <1>1 DEF IInv, Leaving
  <2>3. /\ Pending("request") = 0 /\ Pending("update_prop") = 0 /\ core.pc # "update"
    BY <2>1, <2>2 DEF IInv, Counted
  <2>4. ASSUME dispatch # <<>> PROVE FALSE
    <3>1. 1 \in DOMAIN dispatch /\ dispatch[1] \in Calls
      BY <2>1, <2>4, Tails
    <3>2. PICK fn \in {"request", "update_prop"} : 1 \in CallsOf(dispatch, fn)
      BY <3>1 DEF Calls, CallsOf
    <3>3. IsFiniteSet(CallsOf(dispatch, fn)) /\ Cardinality(CallsOf(dispatch, fn)) = 0
      BY <2>1, <2>3, CallsFinite
    <3>. QED BY <3>2, <3>3, FS_EmptySet
  <2>. QED BY <2>3, <2>4
<1>2. ASSUME NEW o \in Observers, Updated(o), ctx.prop[o].memory = "freed"
      PROVE  ctx.prop[o].twice
  BY <1>2 DEF IInv, Attached
<1>. QED BY <1>1, <1>2 DEF MemoryAlive

-----------------------------------------------------------------------------
(* Every asynchronous request has room for its reply: reserve_reply()      *)
(* counts it before the call is queued, send_event() leaves that room      *)
(* alone, and the assertion and the abort() of client.c:617-620 are not    *)
(* reached. The counters that mpv_detach_destroy() waits for are the calls *)
(* still to be made.                                                       *)
THEOREM RepliesFit == Spec => []RepliesReserved
BY Invariance, IInvReserved, PTL

(* No observer is updated after it was freed, however observing,           *)
(* unobserving, updating and leaving interleave (the talloc_steal() of     *)
(* client.c:368 and :1369), unless its update was queued twice.            *)
THEOREM NothingFreed == Spec => []MemoryAlive
BY Invariance, IInvAlive, PTL

(* The client gets events, replies and log messages in the order they were *)
(* sent, each at most once, and is told of the lost ones before the next   *)
(* (client.h:1290, client.h:109, msg.c:319); replies are never lost, and   *)
(* who asked for the value of a property is told of a change only if it is *)
(* one (client.h:1057).                                                    *)
THEOREM TellsInOrder == Spec => EventsFaithful
<1>1. IInv /\ [Next]_vars => [Faithful]_vars
  BY StepKeeps
<1>2. Spec => [][Faithful]_vars
  BY <1>1, Invariance, PTL DEF Spec
<1>. QED BY <1>2 DEF EventsFaithful, Faithful
=============================================================================
