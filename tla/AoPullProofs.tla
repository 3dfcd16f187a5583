---------------------------- MODULE AoPullProofs ----------------------------
(***************************************************************************)
(* Proofs about AoPull for any number of planes, any ring size and any     *)
(* amount of samples.                                                      *)
(*                                                                         *)
(* The two threads share no lock, so each of them has to be certain that   *)
(* what it computed from one plane holds of all others while the other     *)
(* thread moves on.  The inductive invariant says how far apart the planes *)
(* may be: those a call in progress is done with are ahead by exactly the  *)
(* length of the call (Level), and the others have still room for it       *)
(* (Room), or still hold it (Supply).                                      *)
(***************************************************************************)
EXTENDS AoPull, TLAPS

(* What a call in progress has added to the position of a plane already.   *)
WDone(n) == IF w.pc \in {"plane", "copy"} /\ n > WritePlane(w.i) THEN w.len ELSE 0
RDone(n) == IF r.pc \in {"plane", "copy"} /\ n < ReadPlane(r.i) THEN r.bytes ELSE 0

(* The callback owns the state BUSY; the rings are only cleared in NONE.   *)
Owner ==
  /\ r.pc # "idle" <=> state = "BUSY"
  /\ w.pc = "clear" => state = "NONE"
  /\ w.pc = "idle" /\ w.op \in {"pause", "reset", "drain"} => state = "NONE"

Locals ==
  /\ w.pc \in {"plane", "copy"} => w.i >= 1
  /\ w.pc = "copy" => w.i <= NumPlanes /\ w.part = w.len
  /\ w.pc = "clear" => w.i \in 1 .. NumPlanes
  /\ w.pc = "setstate" => w.op # "none"
  /\ w.pc = "start" => w.op \in {"play", "resume"}
  /\ r.pc \in {"plane", "copy"} => r.i >= 1
  /\ r.pc = "copy" => r.i <= NumPlanes /\ r.part = r.bytes

Bounded ==
  \A n \in Planes : rpos[n] <= wpos[n] /\ wpos[n] <= rpos[n] + Size

(* Planes that mp_ring_reset() has not cleared yet.                        *)
Uncleared(n) == w.pc = "clear" => n >= w.i - 1

Level ==
  /\ \A m, n \in Planes :
       Uncleared(m) /\ Uncleared(n) =>
         /\ wpos[m] - WDone(m) = wpos[n] - WDone(n)
         /\ rpos[m] - RDone(m) = rpos[n] - RDone(n)
  /\ \A n \in Planes : ~Uncleared(n) => wpos[n] = 0 /\ rpos[n] = 0

Room ==
  w.pc \in {"plane", "copy"} =>
    \A n \in Planes : n <= WritePlane(w.i) => wpos[n] + w.len <= rpos[n] + Size

Supply ==
  r.pc \in {"plane", "copy"} =>
    \A n \in Planes : n >= ReadPlane(r.i) => rpos[n] + r.bytes <= wpos[n]

IInv == TypeOK /\ Owner /\ Locals /\ Bounded /\ Level /\ Room /\ Supply
-----------------------------------------------------------------------------
(* The record and ring types that the actions' steps rest on.              *)
Index == 0 .. NumPlanes + 1
Calls == [pc : {"idle", "plane", "copy", "setstate", "start", "finish",
                "clear", "wait"},
          op : {"none", "play", "reset", "pause", "resume", "drain"},
          i : Index, req : Nat, final : BOOLEAN,
          len : Nat, part : Nat, eof : BOOLEAN]
Callbacks == [pc : {"idle", "load", "plane", "copy"}, i : Index,
              full : Nat, buffered : Nat, bytes : Nat, part : Nat,
              data : [Planes -> Seq(Nat)]]

(* The plane counters of both threads run from 0 to NumPlanes + 1.         *)
LEMMA IndexType == {0, 1} \subseteq Index /\ \A i \in 1 .. NumPlanes : i + 1 \in Index
  BY AoPullAssumption DEF Index

(* The values of w and r between two calls have the right type.            *)
LEMMA IdleType == WIdle \in Calls /\ RIdle \in Callbacks
  BY IndexType DEF WIdle, RIdle, Calls, Callbacks

(* Every position falls into the ring.                                     *)
LEMMA CellType == \A pos \in Nat : Cell(pos) \in 0 .. Size - 1
  BY AoPullAssumption DEF Cell

(* What a memcpy takes from a ring are samples, and what it leaves there   *)
(* is a ring.                                                              *)
LEMMA CopyType ==
  ASSUME TypeOK, NEW n \in Planes, NEW len \in Nat
  PROVE  /\ Contents(n, len) \in Seq(Nat)
         /\ Filled(n, len) \in [0 .. Size - 1 -> Nat]
<1>t. /\ rpos[n] \in Nat /\ wpos[n] \in Nat /\ sent \in Nat
      /\ cells[n] \in [0 .. Size - 1 -> Nat]
  BY DEF TypeOK
<1>2. ASSUME NEW k \in 1 .. len
      PROVE  cells[n][Cell(rpos[n] + k - 1)] \in Nat
  <2>1. rpos[n] + k - 1 \in Nat
    BY <1>t
  <2>2. Cell(rpos[n] + k - 1) \in 0 .. Size - 1
    BY <2>1, CellType
  <2>. QED BY <1>t, <2>2
<1>3. ASSUME NEW c \in 0 .. Size - 1
      PROVE  (IF \E k \in 1 .. len : Cell(wpos[n] + k - 1) = c
              THEN sent + (CHOOSE k \in 1 .. len : Cell(wpos[n] + k - 1) = c)
              ELSE cells[n][c]) \in Nat
  <2>. DEFINE P(k) == Cell(wpos[n] + k - 1) = c
  <2>1. CASE \E k \in 1 .. len : P(k)
    <3>1. (CHOOSE k \in 1 .. len : P(k)) \in 1 .. len
      BY <2>1
    <3>2. sent + (CHOOSE k \in 1 .. len : P(k)) \in Nat
      <4>. HIDE DEF P
      <4>. QED BY <1>t, <3>1
    <3>. QED BY <2>1, <3>2
  <2>2. CASE ~\E k \in 1 .. len : P(k)
    <3>1. cells[n][c] \in Nat
      BY <1>t
    <3>. QED BY <2>2, <3>1
  <2>. QED BY <2>1, <2>2
<1>4. Contents(n, len) \in [1 .. len -> Nat]
  BY <1>2 DEF Contents
<1>5. Contents(n, len) \in Seq(Nat)
  BY <1>4
<1>6. Filled(n, len) \in [0 .. Size - 1 -> Nat]
  BY <1>3 DEF Filled
<1>. QED BY <1>5, <1>6

(* What the planes' numbers are while a call copies.                       *)
LEMMA PlaneType ==
  ASSUME NEW i \in 1 .. NumPlanes
  PROVE  /\ WritePlane(i) \in Planes /\ WritePlane(i) = NumPlanes - i
         /\ ReadPlane(i) \in Planes /\ ReadPlane(i) = i - 1
  BY AoPullAssumption DEF WritePlane, ReadPlane, Planes

(* While a thread copies, or is about to, its counter names a plane.       *)
LEMMA CopyingPlane ==
  ASSUME TypeOK, Locals
  PROVE  /\ w.pc = "copy" \/ (w.pc = "plane" /\ w.i <= NumPlanes) =>
              w.i \in 1 .. NumPlanes
         /\ r.pc = "copy" \/ (r.pc = "plane" /\ r.i <= NumPlanes) =>
              r.i \in 1 .. NumPlanes
<1>1. w.i \in 0 .. NumPlanes + 1 /\ r.i \in 0 .. NumPlanes + 1
  BY DEF TypeOK
<1>2. /\ w.pc \in {"plane", "copy"} => w.i >= 1
      /\ w.pc = "copy" => w.i <= NumPlanes
      /\ r.pc \in {"plane", "copy"} => r.i >= 1
      /\ r.pc = "copy" => r.i <= NumPlanes
  BY DEF Locals
<1>. QED BY <1>1, <1>2, AoPullAssumption

(* Initially every variable has its type.                                  *)
LEMMA InitType == Init => TypeOK
<1>. SUFFICES ASSUME Init PROVE TypeOK
  OBVIOUS
<1>1. cells \in [Planes -> [0 .. Size - 1 -> Nat]]
  BY DEF Init
<1>2. w \in Calls /\ r \in Callbacks
  BY IdleType DEF Init
<1>. QED BY <1>1, <1>2, AoPullAssumption DEF Init, TypeOK, Calls, Callbacks, Index

(* Every step keeps the types: one step per action; the differences of     *)
(* positions are natural numbers because of Bounded.                       *)
LEMMA TypePreserved == TypeOK /\ Locals /\ Bounded /\ [Next]_vars => TypeOK'
<1>. SUFFICES ASSUME TypeOK, Locals, Bounded, [Next]_vars PROVE TypeOK'
  OBVIOUS
<1>w. w \in Calls /\ r \in Callbacks
  BY DEF TypeOK, Calls, Callbacks, Index
<1>. DEFINE TypeNext ==
              w' \in Calls /\ r' \in Callbacks
              /\ state' \in {"NONE", "PLAY", "BUSY"}
              /\ draining' \in BOOLEAN /\ underflow' \in Nat
              /\ rpos' \in [Planes -> Nat] /\ wpos' \in [Planes -> Nat]
              /\ cells' \in [Planes -> [0 .. Size - 1 -> Nat]]
              /\ running' \in BOOLEAN /\ woken' \in BOOLEAN
              /\ sent' \in Nat /\ heard' \in Nat
<1>. SUFFICES TypeNext
  BY DEF TypeOK, Calls, Callbacks, Index
<1>s. /\ state \in {"NONE", "PLAY", "BUSY"} /\ underflow \in Nat
      /\ sent \in Nat /\ heard \in Nat
      /\ rpos \in [Planes -> Nat] /\ wpos \in [Planes -> Nat]
      /\ cells \in [Planes -> [0 .. Size - 1 -> Nat]]
      /\ w.len \in Nat /\ w.part \in Nat /\ w.i \in 0 .. NumPlanes + 1
      /\ r.bytes \in Nat /\ r.part \in Nat /\ r.i \in 0 .. NumPlanes + 1
      /\ r.buffered \in Nat /\ r.full \in Nat
  BY DEF TypeOK
<1>b. draining \in BOOLEAN /\ running \in BOOLEAN /\ woken \in BOOLEAN
  BY DEF TypeOK
<1>q. \A samples \in 1 .. MaxChunk : samples \in Nat
  BY AoPullAssumption
<1>1. ASSUME NEW samples \in 1 .. MaxChunk, NEW final \in BOOLEAN,
             Play(samples, final)
      PROVE  TypeNext
  <2>a. NumPlanes - 1 \in Planes
    BY AoPullAssumption DEF Planes
  <2>c. samples \in Nat
    BY <1>q
  <2>d. GetSpace \in Nat
    <3>1. /\ rpos[NumPlanes - 1] \in Nat /\ wpos[NumPlanes - 1] \in Nat /\ Size \in Nat
          /\ wpos[NumPlanes - 1] <= rpos[NumPlanes - 1] + Size
      BY <2>a, <1>s, AoPullAssumption DEF Bounded
    <3>. QED BY <3>1 DEF GetSpace, Available, Buffered
  <2>b. /\ Smaller(GetSpace, samples) \in Nat /\ samples \in Nat
    BY <2>c, <2>d DEF Smaller
  <2>1. w' \in Calls
    BY <1>1, <2>b, IdleType, IndexType DEF Play, Calls
  <2>2. r' \in Callbacks
    BY <1>1, <1>w DEF Play
  <2>3. /\ state' \in {"NONE", "PLAY", "BUSY"} /\ draining' \in BOOLEAN /\ underflow' \in Nat
        /\ running' \in BOOLEAN /\ woken' \in BOOLEAN /\ sent' \in Nat /\ heard' \in Nat
    BY <1>1, <1>s, <1>b DEF Play
  <2>4. /\ rpos' \in [Planes -> Nat] /\ wpos' \in [Planes -> Nat]
        /\ cells' \in [Planes -> [0 .. Size - 1 -> Nat]]
    BY <1>1, <1>s DEF Play, ring
  <2>. QED BY <2>1, <2>2, <2>3, <2>4
<1>2. CASE WriteBegin
  <2>a. w.i \in 1 .. NumPlanes /\ WritePlane(w.i) \in Planes
    <3>1. w.i \in 1 .. NumPlanes
      BY <1>2, CopyingPlane DEF WriteBegin
    <3>. QED BY <3>1, PlaneType
  <2>b. WriteLen(WritePlane(w.i), w.len) \in Nat
    BY <2>a, <1>s, AoPullAssumption DEF Bounded, Smaller, WriteLen, Available, Buffered
  <2>1. w' \in Calls
    BY <1>2, <1>w, <2>b DEF WriteBegin, Calls
  <2>2. r' \in Callbacks
    BY <1>2, <1>w DEF WriteBegin
  <2>3. /\ state' \in {"NONE", "PLAY", "BUSY"} /\ draining' \in BOOLEAN /\ underflow' \in Nat
        /\ running' \in BOOLEAN /\ woken' \in BOOLEAN /\ sent' \in Nat /\ heard' \in Nat
    BY <1>2, <1>s, <1>b DEF WriteBegin
  <2>4. /\ rpos' \in [Planes -> Nat] /\ wpos' \in [Planes -> Nat]
        /\ cells' \in [Planes -> [0 .. Size - 1 -> Nat]]
    BY <1>2, <1>s DEF WriteBegin, ring
  <2>. QED BY <2>1, <2>2, <2>3, <2>4
<1>3. CASE WriteEnd
  <2>a. w.i \in 1 .. NumPlanes /\ WritePlane(w.i) \in Planes
    <3>1. w.i \in 1 .. NumPlanes
      BY <1>3, CopyingPlane DEF WriteEnd
    <3>. QED BY <3>1, PlaneType
  <2>b. Filled(WritePlane(w.i), w.part) \in [0 .. Size - 1 -> Nat]
    BY <2>a, <1>s, CopyType
  <2>1. w' \in Calls
    BY <1>3, <1>w, <2>a, IndexType DEF WriteEnd, Calls
  <2>2. r' \in Callbacks
    BY <1>3, <1>w DEF WriteEnd
  <2>3. /\ state' \in {"NONE", "PLAY", "BUSY"} /\ draining' \in BOOLEAN /\ underflow' \in Nat
        /\ running' \in BOOLEAN /\ woken' \in BOOLEAN /\ sent' \in Nat /\ heard' \in Nat
    BY <1>3, <1>s, <1>b DEF WriteEnd
  <2>4. /\ rpos' \in [Planes -> Nat] /\ wpos' \in [Planes -> Nat]
        /\ cells' \in [Planes -> [0 .. Size - 1 -> Nat]]
    <3>1. /\ rpos' = rpos
          /\ wpos' = [wpos EXCEPT ![WritePlane(w.i)] = wpos[WritePlane(w.i)] + w.part]
          /\ cells' = [cells EXCEPT ![WritePlane(w.i)] = Filled(WritePlane(w.i), w.part)]
      BY <1>3 DEF WriteEnd
    <3>2. wpos[WritePlane(w.i)] + w.part \in Nat
      BY <2>a, <1>s
    <3>. QED BY <3>1, <3>2, <2>b, <1>s
  <2>. QED BY <2>1, <2>2, <2>3, <2>4
<1>4. CASE PlayCheck
  <2>1. w' \in Calls
    BY <1>4, <1>w, IdleType DEF PlayCheck, Calls, ToState
  <2>2. r' \in Callbacks
    BY <1>4, <1>w DEF PlayCheck
  <2>a. \/ draining' = draining /\ underflow' = underflow
        \/ draining' = FALSE /\ underflow' = 0
    BY <1>4 DEF PlayCheck
  <2>3. /\ state' \in {"NONE", "PLAY", "BUSY"} /\ draining' \in BOOLEAN /\ underflow' \in Nat
        /\ running' \in BOOLEAN /\ woken' \in BOOLEAN /\ sent' \in Nat /\ heard' \in Nat
    <3>1. draining' \in BOOLEAN
      BY <2>a, <1>b, Zenon
    <3>2. underflow' \in Nat
      BY <2>a, <1>s
    <3>. QED BY <1>4, <3>1, <3>2, <1>s, <1>b DEF PlayCheck
  <2>4. /\ rpos' \in [Planes -> Nat] /\ wpos' \in [Planes -> Nat]
        /\ cells' \in [Planes -> [0 .. Size - 1 -> Nat]]
    BY <1>4, <1>s DEF PlayCheck, ring
  <2>. QED BY <2>1, <2>2, <2>3, <2>4
<1>5. CASE SetState
  <2>a. w.pc = "setstate" /\ w.op \in {"play", "reset", "pause", "resume", "drain"}
    BY <1>5, <1>w DEF SetState, Locals, Calls
  <2>b. PICK pc \in {"idle", "start", "clear"} : w' = [w EXCEPT !.pc = pc, !.i = 1]
    BY <1>5, <2>a DEF SetState
  <2>1. w' \in Calls
    BY <2>b, <1>w, IndexType DEF Calls
  <2>2. r' \in Callbacks
    BY <1>5, <1>w DEF SetState
  <2>3. /\ state' \in {"NONE", "PLAY", "BUSY"} /\ draining' \in BOOLEAN /\ underflow' \in Nat
        /\ running' \in BOOLEAN /\ woken' \in BOOLEAN /\ sent' \in Nat /\ heard' \in Nat
    BY <1>5, <1>s, <1>b DEF SetState, NewState
  <2>4. /\ rpos' \in [Planes -> Nat] /\ wpos' \in [Planes -> Nat]
        /\ cells' \in [Planes -> [0 .. Size - 1 -> Nat]]
    BY <1>5, <1>s DEF SetState, ring
  <2>. QED BY <2>1, <2>2, <2>3, <2>4
<1>6. CASE Start
  <2>1. w' \in Calls
    BY <1>6, <1>w, IdleType DEF Start, Calls
  <2>2. r' \in Callbacks
    BY <1>6, <1>w DEF Start
  <2>3. /\ state' \in {"NONE", "PLAY", "BUSY"} /\ draining' \in BOOLEAN /\ underflow' \in Nat
        /\ running' \in BOOLEAN /\ woken' \in BOOLEAN /\ sent' \in Nat /\ heard' \in Nat
    BY <1>6, <1>s, <1>b, AoPullAssumption DEF Start, DriverReset
  <2>4. /\ rpos' \in [Planes -> Nat] /\ wpos' \in [Planes -> Nat]
        /\ cells' \in [Planes -> [0 .. Size - 1 -> Nat]]
    BY <1>6, <1>s DEF Start, ring
  <2>. QED BY <2>1, <2>2, <2>3, <2>4
<1>7. CASE PlayFinish
  <2>1. w' \in Calls
    BY <1>7, <1>w, IdleType DEF PlayFinish, Calls
  <2>2. r' \in Callbacks
    BY <1>7, <1>w DEF PlayFinish
  <2>3. /\ state' \in {"NONE", "PLAY", "BUSY"} /\ draining' \in BOOLEAN /\ underflow' \in Nat
        /\ running' \in BOOLEAN /\ woken' \in BOOLEAN /\ sent' \in Nat /\ heard' \in Nat
    BY <1>7, <1>s, <1>b, AoPullAssumption DEF PlayFinish, DriverReset
  <2>4. /\ rpos' \in [Planes -> Nat] /\ wpos' \in [Planes -> Nat]
        /\ cells' \in [Planes -> [0 .. Size - 1 -> Nat]]
    BY <1>7, <1>s DEF PlayFinish, ring
  <2>. QED BY <2>1, <2>2, <2>3, <2>4
<1>8. CASE Clear
  <2>a. w.i \in 1 .. NumPlanes
    BY <1>8 DEF Clear, Locals
  <2>1. w' \in Calls
    BY <1>8, <1>w, <2>a, IdleType, IndexType DEF Clear, Calls
  <2>2. r' \in Callbacks
    BY <1>8, <1>w DEF Clear
  <2>3. /\ state' \in {"NONE", "PLAY", "BUSY"} /\ draining' \in BOOLEAN /\ underflow' \in Nat
        /\ running' \in BOOLEAN /\ woken' \in BOOLEAN /\ sent' \in Nat /\ heard' \in Nat
    BY <1>8, <1>s, <1>b DEF Clear
  <2>4. /\ rpos' \in [Planes -> Nat] /\ wpos' \in [Planes -> Nat]
        /\ cells' \in [Planes -> [0 .. Size - 1 -> Nat]]
    BY <1>8, <1>s DEF Clear, RingReset
  <2>. QED BY <2>1, <2>2, <2>3, <2>4
<1>9. CASE Reset
  <2>1. w' \in Calls
    BY <1>9, <1>w, IdleType DEF Reset, Calls, ToState
  <2>2. r' \in Callbacks
    BY <1>9, <1>w DEF Reset
  <2>3. /\ state' \in {"NONE", "PLAY", "BUSY"} /\ draining' \in BOOLEAN /\ underflow' \in Nat
        /\ running' \in BOOLEAN /\ woken' \in BOOLEAN /\ sent' \in Nat /\ heard' \in Nat
    BY <1>9, <1>s, <1>b, AoPullAssumption DEF Reset, DriverReset
  <2>4. /\ rpos' \in [Planes -> Nat] /\ wpos' \in [Planes -> Nat]
        /\ cells' \in [Planes -> [0 .. Size - 1 -> Nat]]
    BY <1>9, <1>s DEF Reset, ring
  <2>. QED BY <2>1, <2>2, <2>3, <2>4
<1>10. CASE Pause
  <2>1. w' \in Calls
    BY <1>10, <1>w, IdleType DEF Pause, Calls, ToState
  <2>2. r' \in Callbacks
    BY <1>10, <1>w DEF Pause
  <2>3. /\ state' \in {"NONE", "PLAY", "BUSY"} /\ draining' \in BOOLEAN /\ underflow' \in Nat
        /\ running' \in BOOLEAN /\ woken' \in BOOLEAN /\ sent' \in Nat /\ heard' \in Nat
    BY <1>10, <1>s, <1>b, AoPullAssumption DEF Pause, DriverReset
  <2>4. /\ rpos' \in [Planes -> Nat] /\ wpos' \in [Planes -> Nat]
        /\ cells' \in [Planes -> [0 .. Size - 1 -> Nat]]
    BY <1>10, <1>s DEF Pause, ring
  <2>. QED BY <2>1, <2>2, <2>3, <2>4
<1>11. CASE Resume
  <2>1. w' \in Calls
    BY <1>11, <1>w, IdleType DEF Resume, Calls, ToState
  <2>2. r' \in Callbacks
    BY <1>11, <1>w DEF Resume
  <2>3. /\ state' \in {"NONE", "PLAY", "BUSY"} /\ draining' \in BOOLEAN /\ underflow' \in Nat
        /\ running' \in BOOLEAN /\ woken' \in BOOLEAN /\ sent' \in Nat /\ heard' \in Nat
    BY <1>11, <1>s, <1>b, AoPullAssumption DEF Resume, DriverReset
  <2>4. /\ rpos' \in [Planes -> Nat] /\ wpos' \in [Planes -> Nat]
        /\ cells' \in [Planes -> [0 .. Size - 1 -> Nat]]
    BY <1>11, <1>s DEF Resume, ring
  <2>. QED BY <2>1, <2>2, <2>3, <2>4
<1>12. CASE Drain
  <2>1. w' \in Calls
    BY <1>12, <1>w, IdleType DEF Drain, Calls, ToState
  <2>2. r' \in Callbacks
    BY <1>12, <1>w DEF Drain
  <2>3. /\ state' \in {"NONE", "PLAY", "BUSY"} /\ draining' \in BOOLEAN /\ underflow' \in Nat
        /\ running' \in BOOLEAN /\ woken' \in BOOLEAN /\ sent' \in Nat /\ heard' \in Nat
    BY <1>12, <1>s, <1>b, AoPullAssumption DEF Drain, DriverReset
  <2>4. /\ rpos' \in [Planes -> Nat] /\ wpos' \in [Planes -> Nat]
        /\ cells' \in [Planes -> [0 .. Size - 1 -> Nat]]
    BY <1>12, <1>s DEF Drain, ring
  <2>. QED BY <2>1, <2>2, <2>3, <2>4
<1>13. CASE DrainEof
  <2>1. w' \in Calls
    BY <1>13, <1>w, IdleType DEF DrainEof, Calls, ToState
  <2>2. r' \in Callbacks
    BY <1>13, <1>w DEF DrainEof
  <2>3. /\ state' \in {"NONE", "PLAY", "BUSY"} /\ draining' \in BOOLEAN /\ underflow' \in Nat
        /\ running' \in BOOLEAN /\ woken' \in BOOLEAN /\ sent' \in Nat /\ heard' \in Nat
    BY <1>13, <1>s, <1>b, AoPullAssumption DEF DrainEof, DriverReset
  <2>4. /\ rpos' \in [Planes -> Nat] /\ wpos' \in [Planes -> Nat]
        /\ cells' \in [Planes -> [0 .. Size - 1 -> Nat]]
    BY <1>13, <1>s DEF DrainEof, ring
  <2>. QED BY <2>1, <2>2, <2>3, <2>4
<1>14. CASE DrainTimeout
  <2>1. w' \in Calls
    BY <1>14, <1>w, IdleType DEF DrainTimeout, Calls, ToState
  <2>2. r' \in Callbacks
    BY <1>14, <1>w DEF DrainTimeout
  <2>3. /\ state' \in {"NONE", "PLAY", "BUSY"} /\ draining' \in BOOLEAN /\ underflow' \in Nat
        /\ running' \in BOOLEAN /\ woken' \in BOOLEAN /\ sent' \in Nat /\ heard' \in Nat
    BY <1>14, <1>s, <1>b, AoPullAssumption DEF DrainTimeout, DriverReset
  <2>4. /\ rpos' \in [Planes -> Nat] /\ wpos' \in [Planes -> Nat]
        /\ cells' \in [Planes -> [0 .. Size - 1 -> Nat]]
    BY <1>14, <1>s DEF DrainTimeout, ring
  <2>. QED BY <2>1, <2>2, <2>3, <2>4
<1>15. ASSUME NEW samples \in 1 .. MaxChunk, CallbackEnter(samples)
      PROVE  TypeNext
  <2>1. w' \in Calls
    BY <1>15, <1>w DEF CallbackEnter
  <2>2. r' \in Callbacks
    BY <1>15, <1>w, <1>q, IdleType DEF CallbackEnter, Callbacks
  <2>3. /\ state' \in {"NONE", "PLAY", "BUSY"} /\ draining' \in BOOLEAN /\ underflow' \in Nat
        /\ running' \in BOOLEAN /\ woken' \in BOOLEAN /\ sent' \in Nat /\ heard' \in Nat
    BY <1>15, <1>s, <1>b, AoPullAssumption DEF CallbackEnter, DriverReset
  <2>4. /\ rpos' \in [Planes -> Nat] /\ wpos' \in [Planes -> Nat]
        /\ cells' \in [Planes -> [0 .. Size - 1 -> Nat]]
    BY <1>15, <1>s DEF CallbackEnter, ring
  <2>. QED BY <2>1, <2>2, <2>3, <2>4
<1>16. CASE ReadLoad
  <2>a. 0 \in Planes
    BY AoPullAssumption DEF Planes
  <2>b. Buffered(0) \in Nat /\ Smaller(Buffered(0), r.full) \in Nat
    BY <2>a, <1>s DEF Bounded, Smaller, Buffered
  <2>c. r' = [r EXCEPT !.pc = "plane", !.i = 1, !.buffered = Buffered(0),
                       !.bytes = Smaller(Buffered(0), r.full)]
    BY <1>16 DEF ReadLoad
  <2>2. r' \in Callbacks
    BY <2>c, <1>w, <2>b, IndexType DEF Callbacks
  <2>1. w' \in Calls
    BY <1>16, <1>w DEF ReadLoad
  <2>3. /\ state' \in {"NONE", "PLAY", "BUSY"} /\ draining' \in BOOLEAN /\ underflow' \in Nat
        /\ running' \in BOOLEAN /\ woken' \in BOOLEAN /\ sent' \in Nat /\ heard' \in Nat
    BY <1>16, <1>s, <1>b, <2>b DEF ReadLoad, Smaller
  <2>4. /\ rpos' \in [Planes -> Nat] /\ wpos' \in [Planes -> Nat]
        /\ cells' \in [Planes -> [0 .. Size - 1 -> Nat]]
    BY <1>16, <1>s DEF ReadLoad, ring
  <2>. QED BY <2>1, <2>2, <2>3, <2>4
<1>17. CASE ReadBegin
  <2>a. r.i \in 1 .. NumPlanes /\ ReadPlane(r.i) \in Planes
    <3>1. r.i \in 1 .. NumPlanes
      BY <1>17, CopyingPlane DEF ReadBegin
    <3>. QED BY <3>1, PlaneType
  <2>b. ReadLen(ReadPlane(r.i), r.bytes) \in Nat
    BY <2>a, <1>s, AoPullAssumption DEF Bounded, Smaller, ReadLen, Buffered
  <2>2. r' \in Callbacks
    BY <1>17, <1>w, <2>b DEF ReadBegin, Callbacks
  <2>1. w' \in Calls
    BY <1>17, <1>w DEF ReadBegin
  <2>3. /\ state' \in {"NONE", "PLAY", "BUSY"} /\ draining' \in BOOLEAN /\ underflow' \in Nat
        /\ running' \in BOOLEAN /\ woken' \in BOOLEAN /\ sent' \in Nat /\ heard' \in Nat
    BY <1>17, <1>s, <1>b DEF ReadBegin
  <2>4. /\ rpos' \in [Planes -> Nat] /\ wpos' \in [Planes -> Nat]
        /\ cells' \in [Planes -> [0 .. Size - 1 -> Nat]]
    BY <1>17, <1>s DEF ReadBegin, ring
  <2>. QED BY <2>1, <2>2, <2>3, <2>4
<1>18. CASE ReadEnd
  <2>a. r.i \in 1 .. NumPlanes /\ ReadPlane(r.i) \in Planes
    <3>1. r.i \in 1 .. NumPlanes
      BY <1>18, CopyingPlane DEF ReadEnd
    <3>. QED BY <3>1, PlaneType
  <2>b. Contents(ReadPlane(r.i), r.part) \in Seq(Nat)
    BY <2>a, <1>s, CopyType
  <2>c. [r.data EXCEPT ![ReadPlane(r.i)] = Contents(ReadPlane(r.i), r.part)]
          \in [Planes -> Seq(Nat)]
    BY <2>a, <2>b, <1>w DEF Callbacks
  <2>d. Smaller(r.bytes, r.part) \in Nat
    BY <1>s DEF Smaller
  <2>e. r' = [r EXCEPT !.pc = "plane", !.i = r.i + 1, !.part = 0,
                       !.bytes = Smaller(r.bytes, r.part),
                       !.data = [r.data EXCEPT ![ReadPlane(r.i)] =
                                   Contents(ReadPlane(r.i), r.part)]]
    BY <1>18, <1>w DEF ReadEnd, Callbacks
  <2>2. r' \in Callbacks
    <3>. DEFINE d == [r.data EXCEPT ![ReadPlane(r.i)] =
                        Contents(ReadPlane(r.i), r.part)]
                b == Smaller(r.bytes, r.part)
    <3>1. d \in [Planes -> Seq(Nat)] /\ b \in Nat
            /\ r' = [r EXCEPT !.pc = "plane", !.i = r.i + 1, !.part = 0,
                              !.bytes = b, !.data = d]
      BY <2>c, <2>d, <2>e
    <3>. HIDE DEF d, b
    <3>. QED BY <3>1, <2>a, <1>w, IndexType DEF Callbacks
  <2>1. w' \in Calls
    BY <1>18, <1>w DEF ReadEnd
  <2>3. /\ state' \in {"NONE", "PLAY", "BUSY"} /\ draining' \in BOOLEAN /\ underflow' \in Nat
        /\ running' \in BOOLEAN /\ woken' \in BOOLEAN /\ sent' \in Nat /\ heard' \in Nat
    BY <1>18, <1>s, <1>b DEF ReadEnd
  <2>4. /\ rpos' \in [Planes -> Nat] /\ wpos' \in [Planes -> Nat]
        /\ cells' \in [Planes -> [0 .. Size - 1 -> Nat]]
    BY <1>18, <2>a, <1>s DEF ReadEnd, ring
  <2>. QED BY <2>1, <2>2, <2>3, <2>4
<1>19. CASE CallbackLeave
  <2>1. w' \in Calls
    BY <1>19, <1>w DEF CallbackLeave
  <2>2. r' \in Callbacks
    BY <1>19, <1>w, <1>q, IdleType DEF CallbackLeave, Callbacks
  <2>3. /\ state' \in {"NONE", "PLAY", "BUSY"} /\ draining' \in BOOLEAN /\ underflow' \in Nat
        /\ running' \in BOOLEAN /\ woken' \in BOOLEAN /\ sent' \in Nat /\ heard' \in Nat
    BY <1>19, <1>s, <1>b, AoPullAssumption DEF CallbackLeave, DriverReset, NeedWakeup
  <2>4. /\ rpos' \in [Planes -> Nat] /\ wpos' \in [Planes -> Nat]
        /\ cells' \in [Planes -> [0 .. Size - 1 -> Nat]]
    BY <1>19, <1>s DEF CallbackLeave, ring
  <2>. QED BY <2>1, <2>2, <2>3, <2>4
<1>20. CASE UNCHANGED vars
  BY <1>20, <1>w, <1>s, <1>b DEF vars
<1>. QED
  BY <1>1, <1>2, <1>3, <1>4, <1>5, <1>6, <1>7, <1>8, <1>9, <1>10, <1>11, <1>12, <1>13, <1>14, <1>15, <1>16, <1>17, <1>18, <1>19, <1>20 DEF Next, PlayerCall, PlayerStep, Callback
-----------------------------------------------------------------------------
(* The types that the arithmetic below needs, without the records.         *)
Numbers ==
  /\ NumPlanes \in Nat \ {0} /\ Size \in Nat \ {0}
  /\ rpos \in [Planes -> Nat] /\ wpos \in [Planes -> Nat]
  /\ w.i \in 0 .. NumPlanes + 1 /\ w.len \in Nat /\ w.part \in Nat
  /\ r.i \in 0 .. NumPlanes + 1 /\ r.bytes \in Nat /\ r.part \in Nat
  /\ r.buffered \in Nat /\ r.full \in Nat

(* They follow from the type invariant.                                    *)
LEMMA NumbersTyped == TypeOK => Numbers
  BY AoPullAssumption DEF TypeOK, Numbers

(* Planes are numbered from 0 to NumPlanes - 1.                            *)
LEMMA PlanesAreInts == \A n \in Planes : n \in Nat /\ n <= NumPlanes - 1
  BY AoPullAssumption DEF Planes

(* Initially all positions are equal and no call is in progress.           *)
LEMMA InitHolds == Init => IInv
<1>. SUFFICES ASSUME Init PROVE IInv
  OBVIOUS
<1>1. TypeOK
  BY InitType
<1>2. /\ w.pc = "idle" /\ w.op = "none" /\ r.pc = "idle" /\ state = "NONE"
      /\ \A n \in Planes : wpos[n] = 0 /\ rpos[n] = 0
  BY DEF Init, WIdle, RIdle
<1>3. Owner /\ Locals /\ Room /\ Supply
  BY <1>2 DEF Owner, Locals, Room, Supply
<1>4. Bounded /\ Level
  BY <1>2, AoPullAssumption DEF Bounded, Level, Uncleared, WDone, RDone
<1>. QED BY <1>1, <1>3, <1>4 DEF IInv

(* Steps that leave the positions alone, between calls or in parts of a    *)
(* call that do not depend on them, keep what is known about the planes.   *)
Elsewhere(pc) == pc \notin {"plane", "copy", "clear"}

(* Such a step preserves the four conjuncts about positions.               *)
LEMMA QuietStep ==
  ASSUME Bounded, Level, Room, Supply,
         wpos' = wpos, rpos' = rpos,
         w' = w \/ (Elsewhere(w.pc) /\ Elsewhere(w'.pc)),
         r' = r \/ (Elsewhere(r.pc) /\ Elsewhere(r'.pc))
  PROVE  Bounded' /\ Level' /\ Room' /\ Supply'
<1>1. Bounded'
  BY DEF Bounded
<1>2. /\ \A n \in Planes : WDone(n)' = WDone(n) /\ RDone(n)' = RDone(n)
      /\ \A n \in Planes : Uncleared(n)' <=> Uncleared(n)
  BY DEF WDone, RDone, Uncleared, WritePlane, ReadPlane, Elsewhere
<1>3. Level'
  BY <1>2 DEF Level
<1>4. Room' /\ Supply'
  BY DEF Room, Supply, WritePlane, ReadPlane, Elsewhere
<1>. QED BY <1>1, <1>3, <1>4

(* BUSY belongs to the callback, and a call clears the rings or has        *)
(* silenced the device only after it took the state away.                  *)
LEMMA OwnerPreserved == TypeOK /\ Owner /\ Locals /\ [Next]_vars => Owner'
<1>. SUFFICES ASSUME TypeOK, Owner, Locals, [Next]_vars PROVE Owner'
  OBVIOUS
<1>w. w \in Calls /\ r \in Callbacks /\ state \in {"NONE", "PLAY", "BUSY"}
  BY DEF TypeOK, Calls, Callbacks, Index
<1>1. ASSUME NEW samples \in 1 .. MaxChunk, NEW final \in BOOLEAN,
             Play(samples, final)
      PROVE  Owner'
  BY <1>1, <1>w DEF Play, WIdle, Owner, Calls, Callbacks
<1>2. CASE WriteBegin
  BY <1>2, <1>w DEF WriteBegin, Owner, Calls, Callbacks
<1>3. CASE WriteEnd
  BY <1>3, <1>w DEF WriteEnd, Owner, Calls, Callbacks
<1>4. CASE PlayCheck
  BY <1>4, <1>w DEF PlayCheck, ToState, Owner, Calls, Callbacks
<1>5. CASE SetState
  BY <1>5, <1>w DEF SetState, Owner, NewState, Locals, Calls, Callbacks
<1>6. CASE Start
  BY <1>6, <1>w DEF Start, WIdle, Owner, Locals, Calls, Callbacks
<1>7. CASE PlayFinish
  BY <1>7, <1>w DEF PlayFinish, WIdle, Owner, Calls, Callbacks
<1>8. CASE Clear
  BY <1>8, <1>w DEF Clear, WIdle, Owner, Calls, Callbacks
<1>9. CASE Reset
  BY <1>9, <1>w DEF Reset, ToState, WIdle, Owner, Calls, Callbacks
<1>10. CASE Pause
  BY <1>10, <1>w DEF Pause, ToState, WIdle, Owner, Calls, Callbacks
<1>11. CASE Resume
  BY <1>11, <1>w DEF Resume, ToState, WIdle, Owner, Calls, Callbacks
<1>12. CASE Drain
  BY <1>12, <1>w DEF Drain, ToState, WIdle, Owner, Calls, Callbacks
<1>13. CASE DrainEof
  BY <1>13, <1>w DEF DrainEof, ToState, Owner, Calls, Callbacks
<1>14. CASE DrainTimeout
  BY <1>14, <1>w DEF DrainTimeout, ToState, Owner, Calls, Callbacks
<1>15. ASSUME NEW samples \in 1 .. MaxChunk, CallbackEnter(samples)
      PROVE  Owner'
  BY <1>15, <1>w DEF CallbackEnter, RIdle, Owner, Calls, Callbacks
<1>16. CASE ReadLoad
  BY <1>16, <1>w DEF ReadLoad, Owner, Calls, Callbacks
<1>17. CASE ReadBegin
  BY <1>17, <1>w DEF ReadBegin, Owner, Calls, Callbacks
<1>18. CASE ReadEnd
  BY <1>18, <1>w DEF ReadEnd, Owner, Calls, Callbacks
<1>19. CASE CallbackLeave
  BY <1>19, <1>w DEF CallbackLeave, RIdle, Owner, Calls, Callbacks
<1>20. CASE UNCHANGED vars
  BY <1>20, <1>w DEF vars, Owner, Calls, Callbacks
<1>. QED
  BY <1>1, <1>2, <1>3, <1>4, <1>5, <1>6, <1>7, <1>8, <1>9, <1>10, <1>11,
     <1>12, <1>13, <1>14, <1>15, <1>16, <1>17, <1>18, <1>19, <1>20
  DEF Next, PlayerCall, PlayerStep, Callback

(* What the calls know about their own locals: a copy has the length that  *)
(* was computed from another plane.                                        *)
LEMMA LocalsPreserved == IInv /\ [Next]_vars => Locals'
<1>. SUFFICES ASSUME IInv, [Next]_vars PROVE Locals'
  OBVIOUS
<1>w. w \in Calls /\ r \in Callbacks
  BY DEF IInv, TypeOK, Calls, Callbacks, Index
<1>n. Numbers /\ Locals
  BY NumbersTyped DEF IInv
<1>1. ASSUME NEW samples \in 1 .. MaxChunk, NEW final \in BOOLEAN,
             Play(samples, final)
      PROVE  Locals'
  BY <1>1, <1>w, <1>n DEF Play, WIdle, Locals, Numbers, Calls, Callbacks
<1>2. CASE WriteBegin
  <2>1. w.i \in 1 .. NumPlanes /\ WritePlane(w.i) \in Planes
    <3>1. w.i \in 1 .. NumPlanes
      BY <1>2, CopyingPlane DEF WriteBegin, IInv
    <3>. QED BY <3>1, PlaneType
  <2>2. wpos[WritePlane(w.i)] + w.len <= rpos[WritePlane(w.i)] + Size
    BY <1>2, <2>1, PlanesAreInts DEF WriteBegin, IInv, Room
  <2>3. WriteLen(WritePlane(w.i), w.len) = w.len
    <3>1. /\ wpos[WritePlane(w.i)] \in Nat /\ rpos[WritePlane(w.i)] \in Nat
          /\ w.len \in Nat /\ Size \in Nat
      BY <2>1, <1>n DEF Numbers
    <3>. QED BY <2>2, <3>1 DEF WriteLen, Smaller, Available, Buffered
  <2>. QED BY <1>2, <2>1, <2>3, <1>w, <1>n DEF WriteBegin, Locals, Calls
<1>3. CASE WriteEnd
  <2>1. w.pc = "copy" /\ w'.pc = "plane" /\ w'.i = w.i + 1 /\ r' = r
    BY <1>3, <1>w DEF WriteEnd, Calls
  <2>2. w'.i >= 1
    BY <2>1, <1>n DEF Numbers
  <2>. QED BY <2>1, <2>2, <1>n DEF Locals
<1>4. CASE PlayCheck
  BY <1>4, <1>w, <1>n DEF PlayCheck, ToState, Locals, Numbers, Calls, Callbacks
<1>5. CASE SetState
  BY <1>5, <1>w, <1>n DEF SetState, Locals, Numbers, Calls, Callbacks
<1>6. CASE Start
  BY <1>6, <1>w, <1>n DEF Start, WIdle, Locals, Numbers, Calls, Callbacks
<1>7. CASE PlayFinish
  BY <1>7, <1>w, <1>n DEF PlayFinish, WIdle, Locals, Numbers, Calls, Callbacks
<1>8. CASE Clear
  <2>1. /\ w.pc = "clear" /\ w.i \in 1 .. NumPlanes /\ r' = r
        /\ r.pc \in {"plane", "copy"} => r.i >= 1
        /\ r.pc = "copy" => r.i <= NumPlanes /\ r.part = r.bytes
    BY <1>8, <1>n DEF Clear, Locals
  <2>2. \/ w'.pc = "clear" /\ w'.i \in 1 .. NumPlanes
        \/ w'.pc = "idle"
    BY <1>8, <2>1, <1>w, <1>n DEF Clear, WIdle, Calls, Numbers
  <2>. QED BY <2>1, <2>2 DEF Locals
<1>9. CASE Reset
  <2>1. w'.pc = "setstate" /\ w'.op = "reset" /\ r' = r
    BY <1>9 DEF Reset, ToState, WIdle
  <2>. QED BY <2>1, <1>n DEF Locals
<1>10. CASE Pause
  <2>1. w'.pc = "setstate" /\ w'.op = "pause" /\ r' = r
    BY <1>10 DEF Pause, ToState, WIdle
  <2>. QED BY <2>1, <1>n DEF Locals
<1>11. CASE Resume
  <2>1. w'.pc = "setstate" /\ w'.op = "resume" /\ r' = r
    BY <1>11 DEF Resume, ToState, WIdle
  <2>. QED BY <2>1, <1>n DEF Locals
<1>12. CASE Drain
  <2>1. /\ w'.pc = "wait" \/ (w'.pc = "setstate" /\ w'.op = "drain")
        /\ r' = r
    BY <1>12 DEF Drain, ToState, WIdle
  <2>. QED BY <2>1, <1>n DEF Locals
<1>13. CASE DrainEof
  BY <1>13, <1>w, <1>n DEF DrainEof, ToState, Locals, Numbers, Calls, Callbacks
<1>14. CASE DrainTimeout
  BY <1>14, <1>w, <1>n DEF DrainTimeout, ToState, Locals, Numbers, Calls, Callbacks
<1>15. ASSUME NEW samples \in 1 .. MaxChunk, CallbackEnter(samples)
      PROVE  Locals'
  BY <1>15, <1>w, <1>n DEF CallbackEnter, RIdle, Locals, Numbers, Calls, Callbacks
<1>16. CASE ReadLoad
  BY <1>16, <1>w, <1>n DEF ReadLoad, Locals, Numbers, Calls, Callbacks
<1>17. CASE ReadBegin
  <2>1. r.i \in 1 .. NumPlanes /\ ReadPlane(r.i) \in Planes
    BY <1>17, <1>n DEF ReadBegin, Locals, Numbers, ReadPlane, Planes
  <2>2. rpos[ReadPlane(r.i)] + r.bytes <= wpos[ReadPlane(r.i)]
    BY <1>17, <2>1, PlanesAreInts DEF ReadBegin, IInv, Supply
  <2>3. ReadLen(ReadPlane(r.i), r.bytes) = r.bytes
    BY <2>1, <2>2, <1>n DEF Numbers, ReadLen, Smaller, Buffered
  <2>. QED BY <1>17, <2>1, <2>3, <1>w, <1>n DEF ReadBegin, Locals, Callbacks
<1>18. CASE ReadEnd
  BY <1>18, <1>w, <1>n DEF ReadEnd, Locals, Numbers, Calls, Callbacks
<1>19. CASE CallbackLeave
  BY <1>19, <1>w, <1>n DEF CallbackLeave, RIdle, Locals, Numbers, Calls, Callbacks
<1>20. CASE UNCHANGED vars
  BY <1>20, <1>w, <1>n DEF vars, Locals, Numbers, Calls, Callbacks
<1>. QED
  BY <1>1, <1>2, <1>3, <1>4, <1>5, <1>6, <1>7, <1>8, <1>9, <1>10, <1>11,
     <1>12, <1>13, <1>14, <1>15, <1>16, <1>17, <1>18, <1>19, <1>20
  DEF Next, PlayerCall, PlayerStep, Callback

(* How the planes stand to each other: the writer is ahead on the planes   *)
(* with the higher numbers, the reader on those with the lower ones.       *)
LEMMA PlaneOrder ==
  ASSUME Numbers, Level, w.pc # "clear", NEW m \in Planes, NEW n \in Planes,
         m <= n
  PROVE  /\ wpos[m] <= wpos[n]
         /\ rpos[n] <= rpos[m]
<1>1. /\ wpos[m] - WDone(m) = wpos[n] - WDone(n)
      /\ rpos[m] - RDone(m) = rpos[n] - RDone(n)
  BY DEF Level, Uncleared
<1>2. m \in Nat /\ n \in Nat
  BY PlanesAreInts
<1>3. w.i \in Nat /\ r.i \in Nat /\ NumPlanes \in Nat
  BY DEF Numbers
<1>4. WDone(m) \in Nat /\ WDone(n) \in Nat /\ WDone(m) <= WDone(n)
  BY <1>2, <1>3 DEF WDone, WritePlane, Numbers
<1>5. RDone(m) \in Nat /\ RDone(n) \in Nat /\ RDone(n) <= RDone(m)
  BY <1>2, <1>3 DEF RDone, ReadPlane, Numbers
<1>. QED BY <1>1, <1>4, <1>5 DEF Numbers

(* The positions keep to the capacity, the planes to each other, and what  *)
(* a call in progress relies on stays true while the other one moves on.   *)
LEMMA PositionsPreserved ==
  IInv /\ [Next]_vars => Bounded' /\ Level' /\ Room' /\ Supply'
<1>. SUFFICES ASSUME IInv, [Next]_vars
              PROVE  Bounded' /\ Level' /\ Room' /\ Supply'
  OBVIOUS
<1>w. w \in Calls /\ r \in Callbacks
  BY DEF IInv, TypeOK, Calls, Callbacks, Index
<1>n. Numbers /\ Owner /\ Locals /\ Bounded /\ Level /\ Room /\ Supply
  BY NumbersTyped DEF IInv
<1>p. \A n \in Planes : n \in Nat /\ n <= NumPlanes - 1
  BY PlanesAreInts
<1>1. ASSUME NEW samples \in 1 .. MaxChunk, NEW final \in BOOLEAN,
             Play(samples, final)
      PROVE  Bounded' /\ Level' /\ Room' /\ Supply'
  <2>1. /\ w.pc = "idle" /\ w'.pc = "plane" /\ w'.i = 1
        /\ w'.len = Smaller(GetSpace, samples)
        /\ wpos' = wpos /\ rpos' = rpos /\ r' = r
    BY <1>1 DEF Play, WIdle, ring
  <2>2. NumPlanes - 1 \in Planes /\ samples \in Nat
    BY AoPullAssumption DEF Planes
  <2>3. /\ w'.len \in Nat
        /\ wpos[NumPlanes - 1] + w'.len <= rpos[NumPlanes - 1] + Size
    BY <2>1, <2>2, <1>n DEF Bounded, Smaller, GetSpace, Available, Buffered, Numbers
  <2>4. \A n \in Planes : WDone(n)' = WDone(n) /\ RDone(n)' = RDone(n)
    BY <2>1, <1>p, <1>n DEF WDone, RDone, WritePlane, ReadPlane, Numbers
  <2>5. Level'
    BY <2>1, <2>4, <1>n DEF Level, Uncleared
  <2>6. Room'
    <3>. SUFFICES ASSUME NEW n \in Planes
                  PROVE  wpos[n] + w'.len <= rpos[n] + Size
      BY <2>1 DEF Room
    <3>1. wpos[n] <= wpos[NumPlanes - 1] /\ rpos[NumPlanes - 1] <= rpos[n]
      BY <2>1, <2>2, <1>n, <1>p, PlaneOrder
    <3>. QED BY <3>1, <2>2, <2>3, <1>n DEF Numbers
  <2>7. Bounded' /\ Supply'
    BY <2>1, <1>n DEF Bounded, Supply, ReadPlane
  <2>. QED BY <2>5, <2>6, <2>7
<1>2. CASE WriteBegin
  <2>1. /\ w.pc = "plane" /\ w'.pc = "copy" /\ w'.i = w.i /\ w'.len = w.len
        /\ wpos' = wpos /\ rpos' = rpos /\ r' = r
    BY <1>2, <1>w DEF WriteBegin, Calls, ring
  <2>2. \A n \in Planes : WDone(n)' = WDone(n) /\ RDone(n)' = RDone(n)
    BY <2>1 DEF WDone, RDone, WritePlane, ReadPlane
  <2>3. Level'
    BY <2>1, <2>2, <1>n DEF Level, Uncleared
  <2>. QED BY <2>1, <2>3, <1>n DEF Bounded, Room, Supply, WritePlane, ReadPlane
<1>3. CASE WriteEnd
  <2>. DEFINE q == WritePlane(w.i)
  <2>1. /\ w.pc = "copy" /\ w'.pc = "plane" /\ w'.i = w.i + 1 /\ w'.len = w.len
        /\ w.part = w.len /\ rpos' = rpos /\ r' = r
        /\ wpos' = [wpos EXCEPT ![q] = @ + w.len]
    BY <1>3, <1>w, <1>n DEF WriteEnd, Locals, Calls
  <2>2. w.i \in 1 .. NumPlanes /\ q \in Planes /\ q = NumPlanes - w.i
    <3>1. w.i \in 1 .. NumPlanes
      BY <2>1, CopyingPlane DEF IInv
    <3>. QED BY <3>1, PlaneType
  <2>3. WritePlane(w'.i) = q - 1
    BY <2>1, <2>2, <1>n DEF WritePlane, Numbers
  <2>4. wpos'[q] = wpos[q] + w.len /\ \A n \in Planes \ {q} : wpos'[n] = wpos[n]
    BY <2>1, <2>2, <1>n DEF Numbers
  <2>5. wpos[q] + w.len <= rpos[q] + Size
    BY <2>1, <2>2, <1>n, <1>p DEF Room
  <2>6. ASSUME NEW n \in Planes
        PROVE  /\ wpos'[n] - WDone(n)' = wpos[n] - WDone(n)
               /\ RDone(n)' = RDone(n) /\ wpos'[n] >= wpos[n]
    <3>1. RDone(n)' = RDone(n)
      BY <2>1 DEF RDone, ReadPlane
    <3>2. CASE n = q
      BY <3>1, <3>2, <2>1, <2>2, <2>3, <2>4, <1>n, <1>p DEF WDone, Numbers
    <3>3. CASE n # q
      <4>1. (n > q - 1) <=> (n > q)
        BY <3>3, <2>2, <1>p
      <4>2. WDone(n)' = WDone(n)
        BY <4>1, <2>1, <2>3 DEF WDone
      <4>. QED BY <3>1, <3>3, <4>2, <2>4, <1>n DEF Numbers
    <3>. QED BY <3>2, <3>3
  <2>7. Level'
    BY <2>1, <2>6, <1>n DEF Level, Uncleared
  <2>8. Bounded'
    <3>. SUFFICES ASSUME NEW n \in Planes
                  PROVE  rpos[n] <= wpos'[n] /\ wpos'[n] <= rpos[n] + Size
      BY <2>1 DEF Bounded
    <3>1. CASE n = q
      BY <3>1, <2>4, <2>5, <1>n DEF Bounded, Numbers
    <3>2. CASE n # q
      BY <3>2, <2>4, <1>n DEF Bounded
    <3>. QED BY <3>1, <3>2
  <2>9. Room'
    <3>. SUFFICES ASSUME NEW n \in Planes, n <= q - 1
                  PROVE  wpos'[n] + w.len <= rpos[n] + Size
      BY <2>1, <2>3 DEF Room
    <3>1. n # q /\ n <= q
      BY <2>2, <1>p
    <3>. QED BY <3>1, <2>1, <2>4, <1>n DEF Room
  <2>10. Supply'
    <3>. SUFFICES ASSUME r.pc \in {"plane", "copy"}, NEW n \in Planes,
                         n >= ReadPlane(r.i)
                  PROVE  rpos[n] + r.bytes <= wpos'[n]
      BY <2>1 DEF Supply, ReadPlane
    <3>1. rpos[n] + r.bytes <= wpos[n] /\ wpos'[n] >= wpos[n]
      BY <2>6, <1>n DEF Supply
    <3>2. wpos'[n] \in Nat
      BY <2>4, <1>n DEF Numbers
    <3>. QED BY <3>1, <3>2, <1>n DEF Numbers
  <2>. QED BY <2>7, <2>8, <2>9, <2>10
<1>4. CASE PlayCheck
  <2>1. /\ w.pc = "plane" /\ w.i = NumPlanes + 1
        /\ w'.pc \in {"finish", "setstate"}
        /\ wpos' = wpos /\ rpos' = rpos /\ r' = r
    <3>1. w.pc = "plane" /\ w.i > NumPlanes /\ r' = r
      BY <1>4 DEF PlayCheck
    <3>2. w'.pc \in {"finish", "setstate"} /\ wpos' = wpos /\ rpos' = rpos
      BY <1>4, <1>w DEF PlayCheck, ToState, Calls, ring
    <3>. QED BY <3>1, <3>2, <1>n DEF Numbers
  <2>2. \A n \in Planes : /\ WDone(n) = w.len /\ WDone(n)' = 0
                          /\ RDone(n)' = RDone(n)
    BY <2>1, <1>p, <1>n DEF WDone, RDone, WritePlane, ReadPlane, Numbers
  <2>3. Level'
    <3>. SUFFICES ASSUME NEW m \in Planes, NEW n \in Planes
                  PROVE  /\ wpos[m] - 0 = wpos[n] - 0
                         /\ rpos[m] - RDone(m) = rpos[n] - RDone(n)
      BY <2>1, <2>2 DEF Level, Uncleared
    <3>1. /\ wpos[m] - w.len = wpos[n] - w.len
          /\ rpos[m] - RDone(m) = rpos[n] - RDone(n)
      BY <2>1, <2>2, <1>n DEF Level, Uncleared
    <3>. QED BY <3>1, <1>n DEF Numbers
  <2>. QED BY <2>1, <2>3, <1>n DEF Bounded, Room, Supply, ReadPlane
<1>5. CASE SetState
  <2>1. /\ w.pc = "setstate" /\ w'.pc \in {"idle", "start", "clear"} /\ w'.i = 1
        /\ wpos' = wpos /\ rpos' = rpos /\ r' = r
    BY <1>5, <1>w, <1>n DEF SetState, Locals, Calls, ring
  <2>2. \A n \in Planes : /\ WDone(n)' = WDone(n) /\ RDone(n)' = RDone(n)
                          /\ Uncleared(n) /\ Uncleared(n)'
    BY <2>1, <1>p DEF WDone, RDone, ReadPlane, Uncleared
  <2>3. Level'
    BY <2>1, <2>2, <1>n DEF Level
  <2>. QED BY <2>1, <2>3, <1>n DEF Bounded, Room, Supply, ReadPlane
<1>6. CASE Clear
  <2>. DEFINE q == w.i - 1
  <2>1. /\ w.pc = "clear" /\ r.pc = "idle" /\ r' = r
        /\ wpos' = [wpos EXCEPT ![q] = 0] /\ rpos' = [rpos EXCEPT ![q] = 0]
    BY <1>6, <1>n DEF Clear, Owner, RingReset
  <2>2. w.i \in 1 .. NumPlanes /\ q \in Planes
    <3>1. w.i \in 1 .. NumPlanes
      BY <2>1, <1>n DEF Locals
    <3>. QED BY <3>1, AoPullAssumption DEF Planes
  <2>3. \/ w.i < NumPlanes /\ w'.pc = "clear" /\ w'.i = w.i + 1
        \/ w.i = NumPlanes /\ w'.pc = "idle"
    BY <1>6, <1>w, <2>1 DEF Clear, WIdle, Calls
  <2>4. /\ wpos'[q] = 0 /\ rpos'[q] = 0
        /\ \A n \in Planes \ {q} : wpos'[n] = wpos[n] /\ rpos'[n] = rpos[n]
    BY <2>1, <2>2, <1>n DEF Numbers
  <2>5. \A n \in Planes : /\ WDone(n) = 0 /\ WDone(n)' = 0
                          /\ RDone(n) = 0 /\ RDone(n)' = 0
    BY <2>1, <2>3 DEF WDone, RDone
  <2>6. \A n \in Planes : n <= q => wpos'[n] = 0 /\ rpos'[n] = 0
    <3>. SUFFICES ASSUME NEW n \in Planes, n <= q
                  PROVE  wpos'[n] = 0 /\ rpos'[n] = 0
      OBVIOUS
    <3>1. CASE n = q
      BY <3>1, <2>4
    <3>2. CASE n # q
      <4>1. ~Uncleared(n)
        BY <3>2, <2>1, <2>2, <1>p DEF Uncleared
      <4>. QED BY <4>1, <3>2, <2>4, <1>n DEF Level
    <3>. QED BY <3>1, <3>2
  <2>7. \A m, n \in Planes :
          m > q /\ n > q => wpos'[m] = wpos'[n] /\ rpos'[m] = rpos'[n]
    <3>. SUFFICES ASSUME NEW m \in Planes, NEW n \in Planes, m > q, n > q
                  PROVE  wpos'[m] = wpos'[n] /\ rpos'[m] = rpos'[n]
      OBVIOUS
    <3>1. Uncleared(m) /\ Uncleared(n) /\ m # q /\ n # q
      BY <2>2, <1>p DEF Uncleared
    <3>2. wpos[m] - 0 = wpos[n] - 0 /\ rpos[m] - 0 = rpos[n] - 0
      BY <3>1, <2>5, <1>n DEF Level
    <3>. QED BY <3>1, <3>2, <2>4, <1>n DEF Numbers
  <2>8. Level'
    <3>1. CASE w.i < NumPlanes
      <4>1. \A n \in Planes : Uncleared(n)' <=> n > q
        BY <3>1, <2>2, <2>3, <1>p DEF Uncleared
      <4>2. \A n \in Planes : ~(n > q) => n <= q
        BY <2>2, <1>p
      <4>. QED BY <4>1, <4>2, <2>5, <2>6, <2>7 DEF Level
    <3>2. CASE w.i = NumPlanes
      <4>1. \A n \in Planes : n <= q
        BY <3>2, <1>p, <2>2
      <4>2. w'.pc # "clear"
        BY <3>2, <2>3, <1>n DEF Numbers
      <4>. QED BY <4>1, <4>2, <2>5, <2>6 DEF Level, Uncleared
    <3>. QED BY <3>1, <3>2, <2>2, <1>n DEF Numbers
  <2>9. Bounded'
    <3>. SUFFICES ASSUME NEW n \in Planes
                  PROVE  rpos'[n] <= wpos'[n] /\ wpos'[n] <= rpos'[n] + Size
      BY DEF Bounded
    <3>1. CASE n = q
      BY <3>1, <2>4, <1>n DEF Numbers
    <3>2. CASE n # q
      BY <3>2, <2>4, <1>n DEF Bounded
    <3>. QED BY <3>1, <3>2
  <2>10. Room' /\ Supply'
    BY <2>1, <2>3 DEF Room, Supply
  <2>. QED BY <2>8, <2>9, <2>10
<1>7. CASE ReadLoad
  <2>1. /\ r.pc = "load" /\ r'.pc = "plane" /\ r'.i = 1
        /\ r'.bytes = Smaller(Buffered(0), r.full)
        /\ wpos' = wpos /\ rpos' = rpos /\ w' = w /\ w.pc # "clear"
    BY <1>7, <1>w, <1>n DEF ReadLoad, Callbacks, ring, Owner
  <2>2. 0 \in Planes
    BY AoPullAssumption DEF Planes
  <2>3. r'.bytes \in Nat /\ rpos[0] + r'.bytes <= wpos[0]
    BY <2>1, <2>2, <1>n DEF Bounded, Smaller, Buffered, Numbers
  <2>4. \A n \in Planes : WDone(n)' = WDone(n) /\ RDone(n)' = RDone(n)
    BY <2>1, <1>p, <1>n DEF WDone, RDone, WritePlane, ReadPlane
  <2>5. Level'
    BY <2>1, <2>4, <1>n DEF Level, Uncleared
  <2>6. Supply'
    <3>. SUFFICES ASSUME NEW n \in Planes
                  PROVE  rpos[n] + r'.bytes <= wpos[n]
      BY <2>1 DEF Supply
    <3>1. wpos[0] <= wpos[n] /\ rpos[n] <= rpos[0]
      BY <2>1, <2>2, <1>n, <1>p, PlaneOrder
    <3>. QED BY <3>1, <2>2, <2>3, <1>n DEF Numbers
  <2>7. Bounded' /\ Room'
    BY <2>1, <1>n DEF Bounded, Room, WritePlane
  <2>. QED BY <2>5, <2>6, <2>7
<1>8. CASE ReadBegin
  <2>1. /\ r.pc = "plane" /\ r'.pc = "copy" /\ r'.i = r.i /\ r'.bytes = r.bytes
        /\ wpos' = wpos /\ rpos' = rpos /\ w' = w
    BY <1>8, <1>w DEF ReadBegin, Callbacks, ring
  <2>2. \A n \in Planes : WDone(n)' = WDone(n) /\ RDone(n)' = RDone(n)
    BY <2>1 DEF WDone, RDone, WritePlane, ReadPlane
  <2>3. Level'
    BY <2>1, <2>2, <1>n DEF Level, Uncleared
  <2>. QED BY <2>1, <2>3, <1>n DEF Bounded, Room, Supply, WritePlane, ReadPlane
<1>9. CASE ReadEnd
  <2>. DEFINE q == ReadPlane(r.i)
  <2>1. /\ r.pc = "copy" /\ r'.pc = "plane" /\ r'.i = r.i + 1
        /\ r.part = r.bytes /\ wpos' = wpos /\ w' = w
        /\ r'.bytes = Smaller(r.bytes, r.part)
        /\ rpos' = [rpos EXCEPT ![q] = @ + r.part]
    BY <1>9, <1>w, <1>n DEF ReadEnd, Locals, Callbacks
  <2>2. r.i \in 1 .. NumPlanes /\ q \in Planes /\ q = r.i - 1
    <3>1. r.i \in 1 .. NumPlanes
      BY <2>1, CopyingPlane DEF IInv
    <3>. QED BY <3>1, PlaneType
  <2>3. r'.bytes = r.bytes /\ ReadPlane(r'.i) = q + 1
    BY <2>1, <2>2, <1>n DEF ReadPlane, Numbers, Smaller
  <2>4. rpos'[q] = rpos[q] + r.bytes /\ \A n \in Planes \ {q} : rpos'[n] = rpos[n]
    BY <2>1, <2>2, <1>n DEF Numbers
  <2>5. rpos[q] + r.bytes <= wpos[q]
    BY <2>1, <2>2, <1>n, <1>p DEF Supply
  <2>6. ASSUME NEW n \in Planes
        PROVE  /\ rpos'[n] - RDone(n)' = rpos[n] - RDone(n)
               /\ WDone(n)' = WDone(n) /\ rpos'[n] >= rpos[n]
    <3>1. WDone(n)' = WDone(n)
      BY <2>1 DEF WDone, WritePlane
    <3>2. CASE n = q
      BY <3>1, <3>2, <2>1, <2>2, <2>3, <2>4, <1>n, <1>p DEF RDone, Numbers
    <3>3. CASE n # q
      <4>1. (n < q + 1) <=> (n < q)
        BY <3>3, <2>2, <1>p
      <4>2. RDone(n)' = RDone(n)
        BY <4>1, <2>1, <2>3 DEF RDone
      <4>. QED BY <3>1, <3>3, <4>2, <2>4, <1>n DEF Numbers
    <3>. QED BY <3>2, <3>3
  <2>7. Level'
    <3>1. \A n \in Planes : Uncleared(n)
      BY <2>1, <1>n DEF Uncleared, Owner
    <3>. QED BY <3>1, <2>1, <2>6, <1>n DEF Level, Uncleared
  <2>8. Bounded'
    <3>. SUFFICES ASSUME NEW n \in Planes
                  PROVE  rpos'[n] <= wpos[n] /\ wpos[n] <= rpos'[n] + Size
      BY <2>1 DEF Bounded
    <3>1. CASE n = q
      BY <3>1, <2>4, <2>5, <1>n DEF Bounded, Numbers
    <3>2. CASE n # q
      BY <3>2, <2>4, <1>n DEF Bounded
    <3>. QED BY <3>1, <3>2
  <2>9. Supply'
    <3>. SUFFICES ASSUME NEW n \in Planes, n >= q + 1
                  PROVE  rpos'[n] + r.bytes <= wpos[n]
      BY <2>1, <2>3 DEF Supply
    <3>1. n # q /\ n >= q
      BY <2>2, <1>p
    <3>. QED BY <3>1, <2>1, <2>4, <1>n DEF Supply
  <2>10. Room'
    <3>. SUFFICES ASSUME w.pc \in {"plane", "copy"}, NEW n \in Planes,
                         n <= WritePlane(w.i)
                  PROVE  wpos[n] + w.len <= rpos'[n] + Size
      BY <2>1 DEF Room, WritePlane
    <3>1. wpos[n] + w.len <= rpos[n] + Size /\ rpos'[n] >= rpos[n]
      BY <2>6, <1>n DEF Room
    <3>2. rpos'[n] \in Nat
      BY <2>4, <1>n DEF Numbers
    <3>. QED BY <3>1, <3>2, <1>n DEF Numbers
  <2>. QED BY <2>7, <2>8, <2>9, <2>10
<1>10. CASE CallbackLeave
  <2>1. /\ r.pc = "plane" /\ r.i = NumPlanes + 1 /\ r'.pc = "idle"
        /\ wpos' = wpos /\ rpos' = rpos /\ w' = w /\ w.pc # "clear"
    BY <1>10, <1>w, <1>n DEF CallbackLeave, RIdle, Callbacks, ring, Numbers, Owner
  <2>2. \A n \in Planes : /\ RDone(n) = r.bytes /\ RDone(n)' = 0
                          /\ WDone(n)' = WDone(n)
    BY <2>1, <1>p, <1>n DEF WDone, RDone, WritePlane, ReadPlane, Numbers
  <2>3. Level'
    <3>. SUFFICES ASSUME NEW m \in Planes, NEW n \in Planes
                  PROVE  /\ wpos[m] - WDone(m) = wpos[n] - WDone(n)
                         /\ rpos[m] - 0 = rpos[n] - 0
      BY <2>1, <2>2 DEF Level, Uncleared
    <3>1. /\ wpos[m] - WDone(m) = wpos[n] - WDone(n)
          /\ rpos[m] - r.bytes = rpos[n] - r.bytes
      BY <2>1, <2>2, <1>n DEF Level, Uncleared
    <3>. QED BY <3>1, <1>n DEF Numbers
  <2>. QED BY <2>1, <2>3, <1>n DEF Bounded, Room, Supply, WritePlane
<1>11. CASE Start
  BY <1>11, <1>w, <1>n, QuietStep DEF Start, WIdle, Calls, ring, Elsewhere
<1>12. CASE PlayFinish
  BY <1>12, <1>n, QuietStep DEF PlayFinish, WIdle, ring, Elsewhere
<1>13. CASE Reset
  BY <1>13, <1>n, QuietStep DEF Reset, ToState, WIdle, ring, Elsewhere
<1>14. CASE Pause
  BY <1>14, <1>n, QuietStep DEF Pause, ToState, WIdle, ring, Elsewhere
<1>15. CASE Resume
  BY <1>15, <1>n, QuietStep DEF Resume, ToState, WIdle, ring, Elsewhere
<1>16. CASE Drain
  BY <1>16, <1>n, QuietStep DEF Drain, ToState, WIdle, ring, Elsewhere
<1>17. CASE DrainEof
  BY <1>17, <1>w, <1>n, QuietStep DEF DrainEof, ToState, Calls, ring, Elsewhere
<1>18. CASE DrainTimeout
  BY <1>18, <1>w, <1>n, QuietStep DEF DrainTimeout, ToState, Calls, ring, Elsewhere
<1>19. ASSUME NEW samples \in 1 .. MaxChunk, CallbackEnter(samples)
       PROVE  Bounded' /\ Level' /\ Room' /\ Supply'
  BY <1>19, <1>n, QuietStep DEF CallbackEnter, RIdle, ring, Elsewhere
<1>20. CASE UNCHANGED vars
  BY <1>20, <1>n, QuietStep DEF vars, ring
<1>. QED
  BY <1>1, <1>2, <1>3, <1>4, <1>5, <1>6, <1>7, <1>8, <1>9, <1>10, <1>11,
     <1>12, <1>13, <1>14, <1>15, <1>16, <1>17, <1>18, <1>19, <1>20
  DEF Next, PlayerCall, PlayerStep, Callback
-----------------------------------------------------------------------------
(* The invariant holds in every reachable state: the buffer is never       *)
(* overrun or underrun on any plane, and the planes never drift apart by   *)
(* more than the call in progress.                                         *)
THEOREM Invariant == Spec => []IInv
<1>1. IInv /\ [Next]_vars => IInv'
  BY TypePreserved, OwnerPreserved, LocalsPreserved, PositionsPreserved DEF IInv
<1>. QED BY InitHolds, <1>1, PTL DEF Spec

(* Every variable keeps its type.                                          *)
THEOREM TypeCorrect == Spec => []TypeOK
<1>1. IInv => TypeOK
  BY DEF IInv
<1>. QED BY Invariant, <1>1, PTL

(* The assertion of pull.c:107: a write to a plane is never short of what  *)
(* play() computed from the last plane.                                    *)
THEOREM WritesComplete == Spec => []WriteNeverShort
<1>1. IInv => WriteNeverShort
  BY DEF IInv, Locals, WriteNeverShort
<1>. QED BY Invariant, <1>1, PTL

(* A callback reads the same number of samples from every plane.           *)
THEOREM ReadsComplete == Spec => []ReadNeverShort
<1>1. IInv => ReadNeverShort
  BY DEF IInv, Locals, ReadNeverShort
<1>. QED BY Invariant, <1>1, PTL

(* The assertion of pull.c:170: while a callback runs the state is BUSY    *)
(* and the rings are not being cleared.                                    *)
THEOREM CallbackOwnsRings == Spec => []ResetExclusive
<1>1. IInv => ResetExclusive
  BY DEF IInv, Owner, ResetExclusive
<1>. QED BY Invariant, <1>1, PTL

(* pause(), reset() and drain() return only when no callback can take      *)
(* samples any more.                                                       *)
THEOREM StopsAreFinal == Spec => []PausedIsSilent
<1>1. IInv => PausedIsSilent
  BY DEF IInv, Owner, PausedIsSilent
<1>. QED BY Invariant, <1>1, PTL
-----------------------------------------------------------------------------
(* Two positions that are less than a ring apart are different cells.      *)
LEMMA CellsDiffer ==
  ASSUME NEW a \in Nat, NEW b \in Nat, b < a, a - b < Size
  PROVE  Cell(a) # Cell(b)
<1>. SUFFICES ASSUME a % Size = b % Size PROVE FALSE
  BY DEF Cell
<1>s. Size \in Nat \ {0}
  BY AoPullAssumption
<1>. DEFINE p == a \div Size
            q == b \div Size
<1>1. a = (Size * p) + (a % Size) /\ b = (Size * q) + (b % Size)
  BY <1>s
<1>2. p \in Int /\ q \in Int /\ a % Size \in Int /\ b % Size \in Int
  BY <1>s
<1>3. a - b = (Size * p) - (Size * q)
  BY <1>1, <1>2, <1>s
<1>4. (Size * p) - (Size * q) = Size * (p - q)
  BY <1>2, <1>s
<1>5. p - q > 0
  <2>. HIDE DEF p, q
  <2>. QED BY <1>2, <1>3, <1>4, <1>s
<1>6. Size * (p - q) >= Size
  <2>. HIDE DEF p, q
  <2>. QED BY <1>2, <1>5, <1>s
<1>. QED BY <1>3, <1>4, <1>6, <1>s

(* The cells a call copies into and the cells a callback copies from at    *)
(* the same time are disjoint: what Room and Supply keep apart in          *)
(* positions is apart in the ring.                                         *)
LEMMA CopiesDisjoint == IInv => NoCellRace
<1>. SUFFICES ASSUME IInv, w.pc = "copy", r.pc = "copy",
                     WritePlane(w.i) = ReadPlane(r.i)
              PROVE  Span(wpos[ReadPlane(r.i)], w.part)
                       \cap Span(rpos[ReadPlane(r.i)], r.part) = {}
  BY DEF NoCellRace
<1>. DEFINE n == ReadPlane(r.i)
<1>n. Numbers /\ Locals /\ Bounded /\ Room /\ Supply
  BY NumbersTyped DEF IInv
<1>1. n \in Planes /\ w.part = w.len /\ r.part = r.bytes
  <2>1. r.i \in 1 .. NumPlanes
    BY CopyingPlane DEF IInv
  <2>. QED BY <2>1, PlaneType, <1>n DEF Locals
<1>2. wpos[n] + w.part <= rpos[n] + Size /\ rpos[n] + r.part <= wpos[n]
  BY <1>1, <1>n, PlanesAreInts DEF Room, Supply
<1>3. wpos[n] \in Nat /\ rpos[n] \in Nat /\ w.part \in Nat /\ r.part \in Nat
      /\ Size \in Nat
  BY <1>1, <1>n DEF Numbers
<1>4. ASSUME NEW k \in 0 .. w.part - 1, NEW j \in 0 .. r.part - 1
      PROVE  Cell(wpos[n] + k) # Cell(rpos[n] + j)
  <2>. DEFINE a == wpos[n] + k
              b == rpos[n] + j
  <2>1. a \in Nat /\ b \in Nat /\ b < a /\ a - b < Size
    <3>. HIDE DEF n
    <3>. QED BY <1>2, <1>3
  <2>. HIDE DEF a, b
  <2>2. Cell(a) # Cell(b)
    BY <2>1, CellsDiffer
  <2>. QED BY <2>2 DEF a, b
<1>. QED BY <1>4 DEF Span

(* The copies of the two threads need no lock: they never touch the same   *)
(* cell of a ring at the same time.                                        *)
THEOREM CopiesNeverRace == Spec => []NoCellRace
  BY Invariant, CopiesDisjoint, PTL
-----------------------------------------------------------------------------
(* What is in the rings.  A plane holds the samples that come after those  *)
(* it gave to the device, in order, and they reach up to what the player   *)
(* has handed over: planes the call in progress is done with are ahead.    *)
Base(n) == heard + RDone(n)
Written(n) == IF w.i <= NumPlanes THEN WDone(n) ELSE 0

Account ==
  \A n \in Planes : Uncleared(n) => Base(n) + Buffered(n) = sent + Written(n)

Held ==
  \A n \in Planes : \A k \in 1 .. Buffered(n) :
    cells[n][Cell(rpos[n] + k - 1)] = Base(n) + k

Delivered ==
  r.pc \in {"plane", "copy"} =>
    \A n \in Planes :
      n < ReadPlane(r.i) => r.data[n] = [k \in 1 .. r.bytes |-> heard + k]

(* A drain() that saw plane 0 empty: set_state() makes sure that the other *)
(* planes are empty, too, before the rings are cleared.                    *)
Ended ==
  w.eof => \/ w.pc = "setstate" /\ w.op = "drain" /\ Buffered(0) = 0
           \/ w.pc = "clear" /\ heard = sent

DataInv == Account /\ Held /\ Delivered /\ Ended
-----------------------------------------------------------------------------
(* Initially nothing was sent.                                             *)
LEMMA InitData == Init => DataInv
<1>. SUFFICES ASSUME Init PROVE DataInv
  OBVIOUS
<1>1. /\ w.pc = "idle" /\ r.pc = "idle" /\ w.eof = FALSE /\ sent = 0 /\ heard = 0
      /\ \A n \in Planes : wpos[n] = 0 /\ rpos[n] = 0
  BY DEF Init, WIdle, RIdle
<1>2. \A n \in Planes : Base(n) = 0 /\ Written(n) = 0 /\ Buffered(n) = 0
  BY <1>1 DEF Base, Written, WDone, RDone, Buffered
<1>. QED BY <1>1, <1>2 DEF DataInv, Account, Held, Delivered, Ended

(* What a memcpy into the ring leaves there: the new samples behind the    *)
(* old ones, and every position that is less than a ring behind its end as *)
(* it was.                                                                 *)
LEMMA FilledCells ==
  ASSUME TypeOK, NEW n \in Planes, NEW len \in Nat, len <= Size
  PROVE  /\ \A j \in 1 .. len : Filled(n, len)[Cell(wpos[n] + j - 1)] = sent + j
         /\ \A pos \in Nat : pos < wpos[n] /\ wpos[n] + len <= pos + Size
              => Filled(n, len)[Cell(pos)] = cells[n][Cell(pos)]
<1>t. wpos[n] \in Nat /\ sent \in Nat /\ Size \in Nat
  BY AoPullAssumption DEF TypeOK
<1>1. ASSUME NEW j \in 1 .. len
      PROVE  Filled(n, len)[Cell(wpos[n] + j - 1)] = sent + j
  <2>. DEFINE c == Cell(wpos[n] + j - 1)
              P(k) == Cell(wpos[n] + k - 1) = c
  <2>1. c \in 0 .. Size - 1
    BY <1>t, CellType
  <2>2. ASSUME NEW k \in 1 .. len, P(k) PROVE k = j
    <3>. DEFINE a == wpos[n] + k - 1
                b == wpos[n] + j - 1
    <3>1. a \in Nat /\ b \in Nat /\ a - b < Size /\ b - a < Size
      BY <1>t
    <3>2. Cell(a) = Cell(b)
      BY <2>2
    <3>3. ~(b < a) /\ ~(a < b)
      <4>. HIDE DEF a, b
      <4>. QED BY <3>1, <3>2, CellsDiffer
    <3>. QED BY <3>1, <3>3, <1>t
  <2>3. P(j)
    OBVIOUS
  <2>4. (CHOOSE k \in 1 .. len : P(k)) = j
    <3>. HIDE DEF P
    <3>. QED BY <2>2, <2>3
  <2>5. Filled(n, len)[c] = sent + (CHOOSE k \in 1 .. len : P(k))
    <3>1. \E k \in 1 .. len : Cell(wpos[n] + k - 1) = c
      BY <2>3
    <3>. HIDE DEF c
    <3>. QED BY <2>1, <3>1 DEF Filled
  <2>. QED BY <2>4, <2>5
<1>2. ASSUME NEW pos \in Nat, pos < wpos[n], wpos[n] + len <= pos + Size
      PROVE  Filled(n, len)[Cell(pos)] = cells[n][Cell(pos)]
  <2>1. Cell(pos) \in 0 .. Size - 1
    BY CellType
  <2>2. ASSUME NEW k \in 1 .. len
        PROVE  Cell(wpos[n] + k - 1) # Cell(pos)
    <3>. DEFINE a == wpos[n] + k - 1
    <3>1. a \in Nat /\ pos < a /\ a - pos < Size
      BY <1>2, <1>t
    <3>. HIDE DEF a
    <3>2. Cell(a) # Cell(pos)
      BY <3>1, CellsDiffer
    <3>. QED BY <3>2 DEF a
  <2>. QED BY <2>1, <2>2 DEF Filled
<1>. QED BY <1>1, <1>2

(* Steps that move no position and count no sample keep the contents.      *)
LEMMA RingKept ==
  ASSUME Account, Held, cells' = cells, wpos' = wpos, rpos' = rpos,
         \A n \in Planes : /\ Base(n)' = Base(n)
                           /\ Uncleared(n)' => Uncleared(n)
                           /\ sent' + Written(n)' = sent + Written(n)
  PROVE  Account' /\ Held'
<1>1. \A n \in Planes : Buffered(n)' = Buffered(n)
  BY DEF Buffered
<1>2. Account'
  BY <1>1 DEF Account
<1>3. ASSUME NEW n \in Planes, NEW k \in 1 .. Buffered(n)'
      PROVE  cells'[n][Cell(rpos'[n] + k - 1)] = Base(n)' + k
  BY <1>1, <1>3 DEF Held
<1>4. Held'
  BY <1>3 DEF Held, Cell
<1>. QED BY <1>2, <1>4

(* The same for steps between the parts of a call that copy or clear.      *)
LEMMA RingIdle ==
  ASSUME Account, Held, cells' = cells, wpos' = wpos, rpos' = rpos,
         sent' = sent, heard' = heard,
         w' = w \/ (Elsewhere(w.pc) /\ Elsewhere(w'.pc)),
         r' = r \/ (Elsewhere(r.pc) /\ Elsewhere(r'.pc))
  PROVE  Account' /\ Held'
<1>1. \A n \in Planes : /\ WDone(n)' = WDone(n) /\ RDone(n)' = RDone(n)
                        /\ Uncleared(n)' <=> Uncleared(n)
  BY DEF WDone, RDone, Uncleared, WritePlane, ReadPlane, Elsewhere
<1>2. \A n \in Planes : Written(n)' = Written(n)
  <2>1. CASE w' = w
    BY <2>1, <1>1 DEF Written
  <2>2. CASE Elsewhere(w.pc) /\ Elsewhere(w'.pc)
    BY <2>2 DEF Written, WDone, Elsewhere
  <2>. QED BY <2>1, <2>2
<1>3. \A n \in Planes : Base(n)' = Base(n)
  BY <1>1 DEF Base
<1>. QED BY <1>1, <1>2, <1>3, RingKept
(* The arithmetic types of what is counted.                                *)
LEMMA CountsTyped ==
  ASSUME TypeOK, Bounded
  PROVE  /\ sent \in Nat /\ heard \in Nat
         /\ \A n \in Planes : /\ Buffered(n) \in Nat /\ Base(n) \in Nat
                              /\ Written(n) \in Nat /\ RDone(n) \in Nat
                              /\ WDone(n) \in Nat
<1>1. sent \in Nat /\ heard \in Nat /\ Numbers
  BY NumbersTyped DEF TypeOK
<1>2. \A n \in Planes : RDone(n) \in Nat /\ WDone(n) \in Nat
  BY <1>1 DEF RDone, WDone, Numbers
<1>3. \A n \in Planes : Buffered(n) \in Nat
  BY <1>1 DEF Buffered, Bounded, Numbers
<1>. QED BY <1>1, <1>2, <1>3 DEF Base, Written

(* The player has copied its samples into one more plane.                  *)
LEMMA WriteEndHeld ==
  ASSUME IInv, DataInv, WriteEnd
  PROVE  Account' /\ Held'
<1>w. w \in Calls /\ r \in Callbacks
  BY DEF IInv, TypeOK, Calls, Callbacks, Index
<1>n. Numbers /\ Owner /\ Locals /\ Bounded /\ Room /\ TypeOK /\ Account /\ Held
  BY NumbersTyped DEF IInv, DataInv
<1>p. \A n \in Planes : n \in Nat /\ n <= NumPlanes - 1
  BY PlanesAreInts
<1>c. /\ sent \in Nat /\ heard \in Nat
      /\ \A n \in Planes : /\ Buffered(n) \in Nat /\ Base(n) \in Nat
                           /\ Written(n) \in Nat
  BY <1>n, CountsTyped
<1>0. w.pc = "copy" /\ w.i \in 1 .. NumPlanes
  BY <1>n, CopyingPlane DEF WriteEnd
<1>q. PICK q \in Planes : q = WritePlane(w.i) /\ q = NumPlanes - w.i
  BY <1>0, PlaneType
<1>1. /\ w.pc = "copy" /\ w'.pc = "plane" /\ w'.i = w.i + 1 /\ w'.len = w.len
      /\ w.part = w.len /\ rpos' = rpos /\ r' = r /\ heard' = heard
      /\ wpos' = [wpos EXCEPT ![q] = @ + w.len]
      /\ cells' = [cells EXCEPT ![q] = Filled(q, w.len)]
      /\ sent' = IF w.i = NumPlanes THEN sent + w.len ELSE sent
  BY <1>w, <1>n, <1>q DEF WriteEnd, Locals, Calls
<1>2. w.i \in 1 .. NumPlanes /\ q \in Planes /\ q = NumPlanes - w.i /\ q = WritePlane(w.i)
  BY <1>0, <1>q
<1>3. WritePlane(w'.i) = q - 1
  BY <1>1, <1>2, <1>n DEF WritePlane, Numbers
<1>4. /\ wpos'[q] = wpos[q] + w.len /\ cells'[q] = Filled(q, w.len)
      /\ \A n \in Planes \ {q} : wpos'[n] = wpos[n] /\ cells'[n] = cells[n]
  <2>1. q \in DOMAIN wpos /\ q \in DOMAIN cells /\ DOMAIN wpos = Planes
        /\ DOMAIN cells = Planes
    BY <1>2, <1>n DEF TypeOK
  <2>. QED BY <2>1, <1>1
<1>5. /\ wpos[q] + w.len <= rpos[q] + Size /\ rpos[q] <= wpos[q]
      /\ wpos[q] \in Nat /\ rpos[q] \in Nat /\ w.len \in Nat /\ Size \in Nat
  BY <1>1, <1>2, <1>n, <1>p DEF Room, Bounded, Numbers
<1>6. \A n \in Planes : Base(n)' = Base(n)
  BY <1>1 DEF Base, RDone, ReadPlane
<1>7. ASSUME NEW n \in Planes
      PROVE  sent' + Written(n)' =
               sent + Written(n) + (IF n = q THEN w.len ELSE 0)
  <2>1. /\ Written(n) = IF n > q THEN w.len ELSE 0
        /\ Written(n)' = IF w.i = NumPlanes THEN 0
                        ELSE IF n > q - 1 THEN w.len ELSE 0
    <3>1. Written(n) = IF n > q THEN w.len ELSE 0
      BY <1>1, <1>2 DEF Written, WDone
    <3>2. (w'.i <= NumPlanes) <=> (w.i # NumPlanes)
      BY <1>1, <1>2, <1>n DEF Numbers
    <3>3. Written(n)' = IF w.i = NumPlanes THEN 0
                        ELSE IF n > q - 1 THEN w.len ELSE 0
      BY <3>2, <1>1, <1>3 DEF Written, WDone
    <3>. QED BY <3>1, <3>3
  <2>2. n \in Nat /\ q \in Nat /\ (w.i = NumPlanes => q = 0)
    BY <1>p, <1>2, <1>n DEF Numbers
  <2>3. CASE w.i = NumPlanes
    BY <2>1, <2>2, <2>3, <1>1, <1>5, <1>c
  <2>4. CASE w.i # NumPlanes
    BY <2>1, <2>2, <2>4, <1>1, <1>5, <1>c
  <2>. QED BY <2>3, <2>4
<1>8. /\ Buffered(q)' = Buffered(q) + w.len
      /\ \A n \in Planes \ {q} : Buffered(n)' = Buffered(n)
  BY <1>1, <1>4, <1>5 DEF Buffered
<1>9. Account'
  <2>. SUFFICES ASSUME NEW n \in Planes
                PROVE  Base(n)' + Buffered(n)' = sent' + Written(n)'
    BY DEF Account
  <2>1. Base(n) + Buffered(n) = sent + Written(n)
    BY <1>1, <1>n DEF Account, Uncleared
  <2>2. Base(n)' = Base(n)
    BY <1>6
  <2>3. Buffered(n)' = Buffered(n) + (IF n = q THEN w.len ELSE 0)
    BY <1>8, <1>c
  <2>. QED BY <2>1, <2>2, <2>3, <1>5, <1>7, <1>c
<1>10. Base(q) + Buffered(q) = sent
  <2>1. Written(q) = 0
    BY <1>1, <1>2 DEF Written, WDone
  <2>. QED BY <2>1, <1>1, <1>2, <1>n, <1>c DEF Account, Uncleared
<1>11. /\ \A j \in 1 .. w.len : Filled(q, w.len)[Cell(wpos[q] + j - 1)] = sent + j
       /\ \A pos \in Nat : pos < wpos[q] /\ wpos[q] + w.len <= pos + Size
            => Filled(q, w.len)[Cell(pos)] = cells[q][Cell(pos)]
  <2>1. w.len <= Size
    BY <1>5
  <2>. QED BY <2>1, <1>2, <1>5, <1>n, FilledCells
<1>12. ASSUME NEW k \in 1 .. Buffered(q)'
       PROVE  cells'[q][Cell(rpos[q] + k - 1)] = Base(q) + k
  <2>1. k \in Nat /\ k >= 1 /\ k <= Buffered(q) + w.len /\ Buffered(q) \in Nat
        /\ Base(q) \in Nat
    BY <1>8, <1>c, <1>2, <1>5
  <2>2. Buffered(q) = wpos[q] - rpos[q]
    BY DEF Buffered
  <2>3. CASE k <= Buffered(q)
    <3>. DEFINE pos == rpos[q] + k - 1
    <3>1. pos \in Nat /\ pos < wpos[q] /\ wpos[q] + w.len <= pos + Size
      BY <2>1, <2>2, <2>3, <1>5
    <3>2. cells[q][Cell(pos)] = Base(q) + k
      BY <2>1, <2>3, <1>2, <1>n DEF Held
    <3>. HIDE DEF pos
    <3>3. cells'[q][Cell(pos)] = Base(q) + k
      BY <3>1, <3>2, <1>4, <1>11
    <3>. QED BY <3>3 DEF pos
  <2>4. CASE k > Buffered(q)
    <3>. DEFINE j == k - Buffered(q)
    <3>1. j \in 1 .. w.len /\ rpos[q] + k - 1 = wpos[q] + j - 1
          /\ sent + j = Base(q) + k
      BY <2>1, <2>2, <2>4, <1>5, <1>10, <1>c
    <3>. HIDE DEF j
    <3>. QED BY <3>1, <1>4, <1>11
  <2>. QED BY <2>1, <2>3, <2>4
<1>13. Held'
  <2>. SUFFICES ASSUME NEW n \in Planes, NEW k \in 1 .. Buffered(n)'
                PROVE  cells'[n][Cell(rpos[n] + k - 1)] = Base(n) + k
    BY <1>1, <1>6 DEF Held, Cell
  <2>1. CASE n = q
    BY <2>1, <1>12
  <2>2. CASE n # q
    <3>1. cells'[n] = cells[n] /\ Buffered(n)' = Buffered(n)
      BY <2>2, <1>4, <1>8
    <3>. QED BY <3>1, <1>n DEF Held
  <2>. QED BY <2>1, <2>2
<1>. QED BY <1>9, <1>13

(* A callback has taken its samples from one more plane.                   *)
LEMMA ReadEndHeld ==
  ASSUME IInv, DataInv, ReadEnd
  PROVE  Account' /\ Held' /\ Delivered'
<1>w. w \in Calls /\ r \in Callbacks
  BY DEF IInv, TypeOK, Calls, Callbacks, Index
<1>n. /\ Numbers /\ Owner /\ Locals /\ Bounded /\ Supply /\ TypeOK
      /\ Account /\ Held /\ Delivered
  BY NumbersTyped DEF IInv, DataInv
<1>p. \A n \in Planes : n \in Nat /\ n <= NumPlanes - 1
  BY PlanesAreInts
<1>c. /\ sent \in Nat /\ heard \in Nat
      /\ \A n \in Planes : /\ Buffered(n) \in Nat /\ Base(n) \in Nat
                           /\ Written(n) \in Nat
  BY <1>n, CountsTyped
<1>0. r.pc = "copy" /\ r.i \in 1 .. NumPlanes
  BY <1>n, CopyingPlane DEF ReadEnd
<1>q. PICK q \in Planes : q = ReadPlane(r.i) /\ q = r.i - 1
  BY <1>0, PlaneType
<1>1. /\ r.pc = "copy" /\ r'.pc = "plane" /\ r'.i = r.i + 1
      /\ r.part = r.bytes /\ wpos' = wpos /\ w' = w /\ cells' = cells
      /\ sent' = sent /\ heard' = heard
      /\ r'.bytes = Smaller(r.bytes, r.part)
      /\ rpos' = [rpos EXCEPT ![q] = @ + r.part]
      /\ r'.data = [r.data EXCEPT ![q] = Contents(q, r.part)]
  BY <1>w, <1>n, <1>q DEF ReadEnd, Locals, Callbacks
<1>2. r.i \in 1 .. NumPlanes /\ q \in Planes /\ q = r.i - 1 /\ q = ReadPlane(r.i)
  BY <1>0, <1>q
<1>3. r'.bytes = r.bytes /\ ReadPlane(r'.i) = q + 1
  BY <1>1, <1>2, <1>n DEF ReadPlane, Numbers, Smaller
<1>4. /\ rpos'[q] = rpos[q] + r.bytes /\ r'.data[q] = Contents(q, r.bytes)
      /\ \A n \in Planes \ {q} : rpos'[n] = rpos[n] /\ r'.data[n] = r.data[n]
  <2>1. /\ q \in DOMAIN rpos /\ q \in DOMAIN r.data /\ DOMAIN rpos = Planes
        /\ DOMAIN r.data = Planes
    BY <1>2, <1>n, <1>w DEF TypeOK, Callbacks
  <2>. QED BY <2>1, <1>1
<1>5. /\ rpos[q] + r.bytes <= wpos[q]
      /\ wpos[q] \in Nat /\ rpos[q] \in Nat /\ r.bytes \in Nat
  BY <1>1, <1>2, <1>n, <1>p DEF Supply, Numbers
<1>6. /\ Buffered(q)' = Buffered(q) - r.bytes /\ r.bytes <= Buffered(q)
      /\ \A n \in Planes \ {q} : Buffered(n)' = Buffered(n)
  BY <1>1, <1>4, <1>5 DEF Buffered
<1>7. /\ Base(q) = heard /\ Base(q)' = heard + r.bytes
      /\ \A n \in Planes \ {q} : Base(n)' = Base(n)
  <2>1. RDone(q) = 0 /\ RDone(q)' = r.bytes
    BY <1>1, <1>2, <1>3, <1>p DEF RDone
  <2>2. ASSUME NEW n \in Planes \ {q} PROVE RDone(n)' = RDone(n)
    <3>1. (n < q + 1) <=> (n < q)
      BY <1>2, <1>p
    <3>. QED BY <3>1, <1>1, <1>2, <1>3 DEF RDone
  <2>. QED BY <2>1, <2>2, <1>1, <1>c DEF Base
<1>8. \A n \in Planes : Written(n)' = Written(n)
  BY <1>1 DEF Written, WDone, WritePlane
<1>9. Account'
  <2>. SUFFICES ASSUME NEW n \in Planes
                PROVE  Base(n)' + Buffered(n)' = sent' + Written(n)'
    BY DEF Account
  <2>1. Base(n) + Buffered(n) = sent + Written(n)
    BY <1>1, <1>n DEF Account, Uncleared, Owner
  <2>2. Base(n)' + Buffered(n)' = Base(n) + Buffered(n)
    <3>1. CASE n = q
      BY <3>1, <1>2, <1>5, <1>6, <1>7, <1>c
    <3>2. CASE n # q
      BY <3>2, <1>6, <1>7
    <3>. QED BY <3>1, <3>2
  <2>. QED BY <2>1, <2>2, <1>1, <1>8
<1>10. Held'
  <2>. SUFFICES ASSUME NEW n \in Planes, NEW k \in 1 .. Buffered(n)'
                PROVE  cells[n][Cell(rpos'[n] + k - 1)] = Base(n)' + k
    BY <1>1 DEF Held, Cell
  <2>1. CASE n = q
    <3>. DEFINE j == r.bytes + k
    <3>1. /\ j \in 1 .. Buffered(q)
          /\ rpos'[q] + k - 1 = rpos[q] + j - 1
          /\ Base(q)' + k = Base(q) + j
      <4>1. k \in 1 .. Buffered(q) - r.bytes /\ Buffered(q) \in Nat
        BY <2>1, <1>6, <1>c
      <4>. QED BY <4>1, <1>4, <1>5, <1>6, <1>7, <1>c
    <3>. HIDE DEF j
    <3>2. cells[q][Cell(rpos[q] + j - 1)] = Base(q) + j
      BY <3>1, <1>2, <1>n DEF Held
    <3>. QED BY <2>1, <3>1, <3>2
  <2>2. CASE n # q
    <3>1. Buffered(n)' = Buffered(n) /\ Base(n)' = Base(n) /\ rpos'[n] = rpos[n]
      BY <2>2, <1>4, <1>6, <1>7
    <3>. QED BY <3>1, <1>n DEF Held
  <2>. QED BY <2>1, <2>2
<1>11. Delivered'
  <2>. SUFFICES ASSUME NEW n \in Planes, n < q + 1
                PROVE  r'.data[n] = [k \in 1 .. r.bytes |-> heard + k]
    BY <1>1, <1>3 DEF Delivered
  <2>1. CASE n = q
    <3>1. ASSUME NEW k \in 1 .. r.bytes
          PROVE  cells[q][Cell(rpos[q] + k - 1)] = heard + k
      <4>1. k \in 1 .. Buffered(q)
        BY <1>2, <1>5, <1>6, <1>c
      <4>. QED BY <4>1, <1>2, <1>7, <1>n DEF Held
    <3>2. Contents(q, r.bytes) = [k \in 1 .. r.bytes |-> heard + k]
      BY <3>1 DEF Contents
    <3>. QED BY <2>1, <3>2, <1>4
  <2>2. CASE n # q
    <3>1. n < q /\ r'.data[n] = r.data[n]
      BY <2>2, <1>2, <1>4, <1>p
    <3>. QED BY <3>1, <1>1, <1>2, <1>n DEF Delivered
  <2>. QED BY <2>1, <2>2
<1>. QED BY <1>9, <1>10, <1>11
(* The rings' contents stay accounted for and in order.                    *)
LEMMA RingPreserved == IInv /\ DataInv /\ [Next]_vars => Account' /\ Held'
<1>. SUFFICES ASSUME IInv, DataInv, [Next]_vars PROVE Account' /\ Held'
  OBVIOUS
<1>w. w \in Calls /\ r \in Callbacks
  BY DEF IInv, TypeOK, Calls, Callbacks, Index
<1>n. Numbers /\ Owner /\ Locals /\ Level /\ TypeOK /\ Bounded /\ Account /\ Held
  BY NumbersTyped DEF IInv, DataInv
<1>p. \A n \in Planes : n \in Nat /\ n <= NumPlanes - 1
  BY PlanesAreInts
<1>1. ASSUME NEW samples \in 1 .. MaxChunk, NEW final \in BOOLEAN,
             Play(samples, final)
      PROVE  Account' /\ Held'
  <2>1. /\ w.pc = "idle" /\ w'.pc = "plane" /\ w'.i = 1 /\ r' = r
        /\ wpos' = wpos /\ rpos' = rpos /\ cells' = cells
        /\ sent' = sent /\ heard' = heard
    BY <1>1 DEF Play, WIdle, ring
  <2>2. \A n \in Planes : Written(n) = 0 /\ Written(n)' = 0 /\ Base(n)' = Base(n)
    BY <2>1, <1>p, <1>n DEF Written, WDone, WritePlane, Base, RDone, ReadPlane, Numbers
  <2>. QED BY <2>1, <2>2, <1>n, RingKept DEF Uncleared
<1>2. CASE WriteBegin
  <2>1. /\ w.pc = "plane" /\ w'.pc = "copy" /\ w'.i = w.i /\ w'.len = w.len
        /\ wpos' = wpos /\ rpos' = rpos /\ cells' = cells /\ r' = r
        /\ sent' = sent /\ heard' = heard
    BY <1>2, <1>w DEF WriteBegin, Calls, ring
  <2>2. \A n \in Planes : Written(n)' = Written(n) /\ Base(n)' = Base(n)
    BY <2>1 DEF Written, WDone, WritePlane, Base, RDone, ReadPlane
  <2>. QED BY <2>1, <2>2, <1>n, RingKept DEF Uncleared
<1>3. CASE WriteEnd
  BY <1>3, WriteEndHeld
<1>4. CASE PlayCheck
  <2>1. /\ w.pc = "plane" /\ ~(w.i <= NumPlanes)
        /\ w'.pc \in {"finish", "setstate"} /\ r' = r
        /\ wpos' = wpos /\ rpos' = rpos /\ cells' = cells
        /\ sent' = sent /\ heard' = heard
    <3>1. w.pc = "plane" /\ w.i > NumPlanes /\ r' = r
          /\ sent' = sent /\ heard' = heard
      BY <1>4 DEF PlayCheck
    <3>2. w'.pc \in {"finish", "setstate"}
          /\ wpos' = wpos /\ rpos' = rpos /\ cells' = cells
      BY <1>4, <1>w DEF PlayCheck, ToState, Calls, ring
    <3>. QED BY <3>1, <3>2, <1>n DEF Numbers
  <2>2. \A n \in Planes : Written(n) = 0 /\ Written(n)' = 0 /\ Base(n)' = Base(n)
    BY <2>1 DEF Written, WDone, Base, RDone, ReadPlane
  <2>. QED BY <2>1, <2>2, <1>n, RingKept DEF Uncleared
<1>5. CASE SetState
  <2>1. /\ w.pc = "setstate" /\ w'.pc \in {"idle", "start", "clear"} /\ w'.i = 1
        /\ wpos' = wpos /\ rpos' = rpos /\ cells' = cells /\ r' = r
        /\ sent' = sent /\ heard' = heard
    BY <1>5, <1>w, <1>n DEF SetState, Locals, Calls, ring
  <2>2. \A n \in Planes : /\ Written(n) = 0 /\ Written(n)' = 0
                          /\ Base(n)' = Base(n) /\ Uncleared(n)
    BY <2>1 DEF Written, WDone, Base, RDone, ReadPlane, Uncleared
  <2>. QED BY <2>1, <2>2, <1>n, RingKept
<1>6. CASE Clear
  <2>0. w.pc = "clear" /\ w.i \in 1 .. NumPlanes
    BY <1>6, <1>n DEF Clear, Locals
  <2>q. PICK q \in Planes : q = w.i - 1
    BY <2>0, AoPullAssumption DEF Planes
  <2>1. /\ r.pc = "idle" /\ r' = r /\ sent' = sent /\ cells' = cells
        /\ wpos' = [wpos EXCEPT ![q] = 0] /\ rpos' = [rpos EXCEPT ![q] = 0]
    BY <1>6, <2>0, <2>q, <1>n DEF Clear, Owner, RingReset
  <2>2. \/ w.i < NumPlanes /\ w'.pc = "clear" /\ w'.i = w.i + 1 /\ heard' = heard
        \/ w.i = NumPlanes /\ w'.pc = "idle" /\ heard' = sent
    BY <1>6, <1>w, <2>0 DEF Clear, WIdle, Calls
  <2>3. /\ wpos'[q] = 0 /\ rpos'[q] = 0
        /\ \A n \in Planes \ {q} : wpos'[n] = wpos[n] /\ rpos'[n] = rpos[n]
    BY <2>1, <1>n DEF Numbers
  <2>4. \A n \in Planes : /\ Written(n) = 0 /\ Written(n)' = 0
                          /\ Base(n) = heard + 0 /\ Base(n)' = heard' + 0
    BY <2>0, <2>1, <2>2 DEF Written, WDone, Base, RDone
  <2>5. \A n \in Planes : n <= q => Buffered(n)' = 0
    <3>. SUFFICES ASSUME NEW n \in Planes, n <= q
                  PROVE  wpos'[n] = 0 /\ rpos'[n] = 0
      BY DEF Buffered
    <3>1. CASE n = q
      BY <3>1, <2>3
    <3>2. CASE n # q
      <4>1. ~Uncleared(n)
        BY <3>2, <2>0, <2>q, <1>p DEF Uncleared
      <4>. QED BY <4>1, <3>2, <2>3, <1>n DEF Level
    <3>. QED BY <3>1, <3>2
  <2>6. \A n \in Planes : ~(n <= q) => /\ w.i < NumPlanes /\ Uncleared(n)
                                       /\ Buffered(n)' = Buffered(n)
                                       /\ rpos'[n] = rpos[n]
    <3>. SUFFICES ASSUME NEW n \in Planes, ~(n <= q)
                  PROVE  /\ w.i < NumPlanes /\ Uncleared(n)
                         /\ Buffered(n)' = Buffered(n) /\ rpos'[n] = rpos[n]
      OBVIOUS
    <3>1. n # q /\ n \in Nat /\ n > q /\ n <= NumPlanes - 1
      BY <1>p, <2>0, <2>q
    <3>2. w.i < NumPlanes /\ n >= w.i - 1
      BY <3>1, <2>0, <2>q, <1>n DEF Numbers
    <3>. QED BY <3>1, <3>2, <2>3 DEF Uncleared, Buffered
  <2>7. Account'
    <3>. SUFFICES ASSUME NEW n \in Planes, Uncleared(n)'
                  PROVE  Base(n)' + Buffered(n)' = sent' + Written(n)'
      BY DEF Account
    <3>1. CASE n <= q
      <4>1. w.i = NumPlanes
        <5>1. CASE w.i < NumPlanes
          <6>1. n >= w.i + 1 - 1
            BY <5>1, <2>0, <2>2, <1>n DEF Uncleared, Numbers
          <6>. QED BY <6>1, <3>1, <2>0, <2>q, <1>p
        <5>. QED BY <5>1, <2>0, <1>n DEF Numbers
      <4>2. heard' = sent
        BY <4>1, <2>2, <1>n DEF Numbers
      <4>3. sent \in Nat
        BY <1>n DEF TypeOK
      <4>. QED BY <3>1, <4>2, <4>3, <2>1, <2>4, <2>5
    <3>2. CASE ~(n <= q)
      <4>1. w.i < NumPlanes /\ heard' = heard
        BY <3>2, <2>2, <2>6, <1>n DEF Numbers
      <4>. QED BY <3>2, <4>1, <2>1, <2>4, <2>6, <1>n DEF Account
    <3>. QED BY <3>1, <3>2
  <2>8. Held'
    <3>. SUFFICES ASSUME NEW n \in Planes, NEW k \in 1 .. Buffered(n)'
                  PROVE  cells[n][Cell(rpos'[n] + k - 1)] = Base(n)' + k
      BY <2>1 DEF Held, Cell
    <3>1. ~(n <= q)
      BY <2>5
    <3>2. heard' = heard
      BY <3>1, <2>2, <2>6, <1>n DEF Numbers
    <3>. QED BY <3>1, <3>2, <2>4, <2>6, <1>n DEF Held
  <2>. QED BY <2>7, <2>8
<1>7. CASE ReadLoad
  <2>1. /\ r.pc = "load" /\ r'.pc = "plane" /\ r'.i = 1 /\ w' = w
        /\ wpos' = wpos /\ rpos' = rpos /\ cells' = cells
        /\ sent' = sent /\ heard' = heard
    BY <1>7, <1>w DEF ReadLoad, Callbacks, ring
  <2>2. \A n \in Planes : Written(n)' = Written(n) /\ Base(n)' = Base(n)
    BY <2>1, <1>p DEF Written, WDone, WritePlane, Base, RDone, ReadPlane
  <2>. QED BY <2>1, <2>2, <1>n, RingKept DEF Uncleared
<1>8. CASE ReadBegin
  <2>1. /\ r.pc = "plane" /\ r'.pc = "copy" /\ r'.i = r.i /\ r'.bytes = r.bytes
        /\ wpos' = wpos /\ rpos' = rpos /\ cells' = cells /\ w' = w
        /\ sent' = sent /\ heard' = heard
    BY <1>8, <1>w DEF ReadBegin, Callbacks, ring
  <2>2. \A n \in Planes : Written(n)' = Written(n) /\ Base(n)' = Base(n)
    BY <2>1 DEF Written, WDone, WritePlane, Base, RDone, ReadPlane
  <2>. QED BY <2>1, <2>2, <1>n, RingKept DEF Uncleared
<1>9. CASE ReadEnd
  BY <1>9, ReadEndHeld
<1>10. CASE CallbackLeave
  <2>1. /\ r.pc = "plane" /\ r.i = NumPlanes + 1 /\ r'.pc = "idle"
        /\ wpos' = wpos /\ rpos' = rpos /\ cells' = cells /\ w' = w
        /\ sent' = sent /\ heard' = heard + r.bytes
    BY <1>10, <1>w, <1>n DEF CallbackLeave, RIdle, Callbacks, ring, Numbers
  <2>2. \A n \in Planes : RDone(n) = r.bytes /\ RDone(n)' = 0
    BY <2>1, <1>p, <1>n DEF RDone, ReadPlane, Numbers
  <2>3. heard \in Nat /\ r.bytes \in Nat
    BY <1>n DEF TypeOK, Numbers
  <2>4. \A n \in Planes : Base(n)' = Base(n)
    BY <2>1, <2>2, <2>3 DEF Base
  <2>5. \A n \in Planes : Written(n)' = Written(n)
    BY <2>1 DEF Written, WDone, WritePlane
  <2>. QED BY <2>1, <2>4, <2>5, <1>n, RingKept DEF Uncleared
<1>11. CASE Start
  BY <1>11, <1>w, <1>n, RingIdle DEF Start, WIdle, Calls, ring, Elsewhere
<1>12. CASE PlayFinish
  BY <1>12, <1>n, RingIdle DEF PlayFinish, WIdle, ring, Elsewhere
<1>13. CASE Reset
  BY <1>13, <1>n, RingIdle DEF Reset, ToState, WIdle, ring, Elsewhere
<1>14. CASE Pause
  BY <1>14, <1>n, RingIdle DEF Pause, ToState, WIdle, ring, Elsewhere
<1>15. CASE Resume
  BY <1>15, <1>n, RingIdle DEF Resume, ToState, WIdle, ring, Elsewhere
<1>16. CASE Drain
  BY <1>16, <1>n, RingIdle DEF Drain, ToState, WIdle, ring, Elsewhere
<1>17. CASE DrainEof
  BY <1>17, <1>w, <1>n, RingIdle DEF DrainEof, ToState, Calls, ring, Elsewhere
<1>18. CASE DrainTimeout
  BY <1>18, <1>w, <1>n, RingIdle DEF DrainTimeout, ToState, Calls, ring, Elsewhere
<1>19. ASSUME NEW samples \in 1 .. MaxChunk, CallbackEnter(samples)
       PROVE  Account' /\ Held'
  BY <1>19, <1>n, RingIdle DEF CallbackEnter, RIdle, ring, Elsewhere
<1>20. CASE UNCHANGED vars
  BY <1>20, <1>n, RingIdle DEF vars, ring
<1>. QED
  BY <1>1, <1>2, <1>3, <1>4, <1>5, <1>6, <1>7, <1>8, <1>9, <1>10, <1>11,
     <1>12, <1>13, <1>14, <1>15, <1>16, <1>17, <1>18, <1>19, <1>20
  DEF Next, PlayerCall, PlayerStep, Callback
(* What a callback has taken stays what comes next, because nothing else   *)
(* counts samples as heard while it runs.                                  *)
LEMMA DeliveredPreserved == IInv /\ DataInv /\ [Next]_vars => Delivered'
<1>. SUFFICES ASSUME IInv, DataInv, [Next]_vars PROVE Delivered'
  OBVIOUS
<1>w. w \in Calls /\ r \in Callbacks
  BY DEF IInv, TypeOK, Calls, Callbacks, Index
<1>n. Owner /\ Delivered
  BY DEF IInv, DataInv
<1>p. \A n \in Planes : n \in Nat /\ n <= NumPlanes - 1
  BY PlanesAreInts
<1>1. ASSUME r' = r, heard' = heard
      PROVE  Delivered'
  BY <1>1, <1>n DEF Delivered, ReadPlane
<1>2. CASE Clear
  <2>1. w.pc = "clear" /\ r' = r
    BY <1>2 DEF Clear
  <2>2. r.pc = "idle"
    BY <2>1, <1>w, <1>n DEF Owner, Callbacks
  <2>. QED BY <2>1, <2>2 DEF Delivered
<1>3. ASSUME NEW samples \in 1 .. MaxChunk, CallbackEnter(samples)
      PROVE  Delivered'
  <2>1. r'.pc = "load"
    BY <1>3 DEF CallbackEnter, RIdle
  <2>. QED BY <2>1 DEF Delivered
<1>4. CASE ReadLoad
  <2>1. r'.i = 1
    BY <1>4, <1>w DEF ReadLoad, Callbacks
  <2>. QED BY <2>1, <1>p DEF Delivered, ReadPlane
<1>5. CASE ReadBegin
  <2>1. /\ r.pc = "plane" /\ r'.i = r.i /\ r'.bytes = r.bytes
        /\ r'.data = r.data /\ heard' = heard
    BY <1>5, <1>w DEF ReadBegin, Callbacks
  <2>. QED BY <2>1, <1>n DEF Delivered, ReadPlane
<1>6. CASE ReadEnd
  BY <1>6, ReadEndHeld
<1>7. CASE CallbackLeave
  <2>1. r'.pc = "idle"
    BY <1>7 DEF CallbackLeave, RIdle
  <2>. QED BY <2>1 DEF Delivered
<1>8. CASE \/ \E samples \in 1 .. MaxChunk, final \in BOOLEAN : Play(samples, final)
           \/ WriteBegin \/ WriteEnd \/ PlayCheck \/ SetState \/ Start \/ PlayFinish
           \/ Reset \/ Pause \/ Resume \/ Drain \/ DrainEof \/ DrainTimeout
           \/ UNCHANGED vars
  <2>1. r' = r /\ heard' = heard
    BY <1>8 DEF Play, WriteBegin, WriteEnd, PlayCheck, SetState, Start, PlayFinish,
         Reset, Pause, Resume, Drain, DrainEof, DrainTimeout, vars
  <2>. QED BY <2>1, <1>1
<1>. QED
  BY <1>2, <1>3, <1>4, <1>5, <1>6, <1>7, <1>8
  DEF Next, PlayerCall, PlayerStep, Callback

(* Plane 0 stays empty while drain() waits for a callback to give the      *)
(* state back, and once it has the state nothing is left on any plane.     *)
LEMMA EndedPreserved == IInv /\ DataInv /\ [Next]_vars => Ended'
<1>. SUFFICES ASSUME IInv, DataInv, [Next]_vars PROVE Ended'
  OBVIOUS
<1>w. w \in Calls /\ r \in Callbacks
  BY DEF IInv, TypeOK, Calls, Callbacks, Index
<1>n. Numbers /\ Owner /\ Locals /\ Bounded /\ Supply /\ TypeOK /\ Account /\ Ended
  BY NumbersTyped DEF IInv, DataInv
<1>z. 0 \in Planes
  BY AoPullAssumption DEF Planes
<1>1. ASSUME w' = w, wpos' = wpos, rpos' = rpos, sent' = sent, heard' = heard
      PROVE  Ended'
  BY <1>1, <1>n DEF Ended, Buffered
<1>2. CASE w'.eof = FALSE
  BY <1>2 DEF Ended
<1>3. CASE SetState
  <2>1. /\ w.pc = "setstate" /\ w'.eof = w.eof /\ sent' = sent /\ heard' = heard
        /\ state # "BUSY" /\ (w.op = "drain" => w'.pc = "clear")
    BY <1>3, <1>w DEF SetState, Calls
  <2>2. CASE w.eof
    <3>1. w.op = "drain" /\ Buffered(0) = 0 /\ Uncleared(0)
      BY <2>1, <2>2, <1>n DEF Ended, Uncleared
    <3>2. RDone(0) = 0 /\ Written(0) = 0
      BY <2>1, <1>n, <1>w DEF RDone, Written, WDone, Owner, Callbacks
    <3>3. heard = sent
      BY <3>1, <3>2, <1>z, <1>n DEF Account, Base, TypeOK
    <3>. QED BY <2>1, <3>1, <3>3 DEF Ended
  <2>3. CASE ~w.eof
    BY <2>1, <2>3 DEF Ended
  <2>. QED BY <2>2, <2>3
<1>4. CASE Clear
  <2>1. /\ w.pc = "clear" /\ sent' = sent
        /\ \/ w'.eof = w.eof /\ w'.pc = "clear" /\ heard' = heard
           \/ w'.eof = FALSE
    BY <1>4, <1>w DEF Clear, WIdle, Calls
  <2>. QED BY <2>1, <1>n DEF Ended
<1>5. CASE DrainEof
  <2>1. /\ w'.pc = "setstate" /\ w'.op = "drain" /\ Buffered(0) = 0
        /\ wpos' = wpos /\ rpos' = rpos
    BY <1>5, <1>w DEF DrainEof, ToState, GetEof, Calls, ring
  <2>. QED BY <2>1 DEF Ended, Buffered
<1>6. CASE ReadEnd
  <2>1. w' = w /\ wpos' = wpos /\ sent' = sent /\ heard' = heard /\ r.pc = "copy"
        /\ r.i \in 1 .. NumPlanes /\ r.part = r.bytes
        /\ rpos' = [rpos EXCEPT ![ReadPlane(r.i)] = @ + r.part]
    BY <1>6, <1>n, CopyingPlane DEF ReadEnd, Locals
  <2>2. PICK q \in Planes : q = ReadPlane(r.i)
    BY <2>1, PlaneType
  <2>3. rpos[q] + r.bytes <= wpos[q]
    BY <2>1, <2>2, <1>n, PlanesAreInts DEF Supply
  <2>4. Buffered(0) = 0 => Buffered(0)' = 0
    <3>1. /\ rpos'[0] = rpos[0] + (IF q = 0 THEN r.bytes ELSE 0)
          /\ rpos[0] \in Nat /\ wpos[0] \in Nat /\ r.bytes \in Nat
      BY <2>1, <2>2, <1>z, <1>n DEF Numbers
    <3>. QED BY <3>1, <2>1, <2>3 DEF Buffered
  <2>. QED BY <2>1, <2>4, <1>n DEF Ended
<1>7. CASE CallbackLeave
  <2>1. /\ w' = w /\ wpos' = wpos /\ rpos' = rpos /\ sent' = sent
        /\ r.pc = "plane"
    BY <1>7 DEF CallbackLeave, ring
  <2>2. w.pc # "clear"
    BY <2>1, <1>n DEF Owner
  <2>. QED BY <2>1, <2>2, <1>n DEF Ended, Buffered
<1>8. CASE WriteBegin \/ WriteEnd \/ PlayCheck \/ PlayFinish \/ Start \/ DrainTimeout
  <2>1. w.pc \in {"plane", "copy", "finish", "start", "wait"}
    BY <1>8 DEF WriteBegin, WriteEnd, PlayCheck, PlayFinish, Start, DrainTimeout
  <2>2. w.eof = FALSE
    BY <2>1, <1>n, <1>w DEF Ended, Calls
  <2>3. w'.eof = FALSE
    BY <1>8, <2>2, <1>w DEF WriteBegin, WriteEnd, PlayCheck, PlayFinish, Start,
         DrainTimeout, ToState, WIdle, Calls
  <2>. QED BY <2>3, <1>2
<1>9. CASE \/ \E samples \in 1 .. MaxChunk, final \in BOOLEAN : Play(samples, final)
           \/ Reset \/ Pause \/ Resume \/ Drain
  <2>1. w'.eof = FALSE
    BY <1>9 DEF Play, Reset, Pause, Resume, Drain, ToState, WIdle
  <2>. QED BY <2>1, <1>2
<1>10. CASE \/ \E samples \in 1 .. MaxChunk : CallbackEnter(samples)
            \/ ReadLoad \/ ReadBegin \/ UNCHANGED vars
  <2>1. /\ w' = w /\ wpos' = wpos /\ rpos' = rpos /\ sent' = sent /\ heard' = heard
    BY <1>10 DEF CallbackEnter, ReadLoad, ReadBegin, vars, ring
  <2>. QED BY <2>1, <1>1
<1>. QED
  BY <1>3, <1>4, <1>5, <1>6, <1>7, <1>8, <1>9, <1>10
  DEF Next, PlayerCall, PlayerStep, Callback

(* The positions and the contents together are inductive.                  *)
THEOREM ContentsInvariant == Spec => [](IInv /\ DataInv)
<1>1. IInv /\ DataInv /\ [Next]_vars => DataInv'
  BY RingPreserved, DeliveredPreserved, EndedPreserved DEF DataInv
<1>. QED BY Invariant, InitData, <1>1, PTL DEF Spec

(* Every plane of what a callback delivers holds the samples that come     *)
(* next, none twice, none skipped and none that the player had not         *)
(* finished; a drain() that ends at eof has discarded nothing.             *)
THEOREM SamplesInOrder == Spec => []FramesInOrder
<1>1. IInv /\ DataInv => FramesInOrder
  <2>. SUFFICES ASSUME IInv, DataInv PROVE FramesInOrder
    OBVIOUS
  <2>1. ASSUME r.pc = "plane", r.i > NumPlanes, NEW n \in Planes
        PROVE  r.data[n] = [k \in 1 .. r.bytes |-> heard + k]
    <3>1. n < ReadPlane(r.i)
      BY <2>1, PlanesAreInts, NumbersTyped DEF ReadPlane, Numbers, IInv
    <3>. QED BY <2>1, <3>1 DEF DataInv, Delivered
  <2>2. w.pc = "clear" /\ w.eof => heard = sent
    BY DEF DataInv, Ended
  <2>. QED BY <2>1, <2>2 DEF FramesInOrder
<1>. QED BY ContentsInvariant, <1>1, PTL
=============================================================================
