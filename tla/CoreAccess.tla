----------------------------- MODULE CoreAccess -----------------------------
(***************************************************************************)
(* What misc/dispatch.c promises to its users, without queue, frames or    *)
(* condition variable: one thread at a time owns the target's state, the   *)
(* state changes hands only through nobody, and a synchronous call is      *)
(* served once, by a thread that owns the state at its start and at its    *)
(* end, before it returns.  Dispatch implements it.                        *)
(***************************************************************************)
CONSTANTS Threads, Clients, NoThread

VARIABLES owner,   \* the thread that owns the state, or NoThread
          call     \* the synchronous call of each client

absVars == <<owner, call>>

Init ==
  /\ owner \in Threads
  /\ call = [c \in Clients |-> "none"]

Submit(c) ==
  /\ call[c] = "none"
  /\ call' = [call EXCEPT ![c] = "queued"]
  /\ UNCHANGED owner

Return(c) ==
  /\ call[c] = "done"
  /\ call' = [call EXCEPT ![c] = "none"]
  /\ UNCHANGED owner

(* Thread t takes the state, gives it up, or stays its owner; on the way   *)
(* it may finish a call it served (it must have been the owner) and then   *)
(* start another one (it must be the owner from then on).                  *)
Finished(F) == [c \in Clients |-> IF c \in F THEN "done" ELSE call[c]]

Serve(t) ==
  /\ owner \in {t, NoThread} /\ owner' \in {t, NoThread}
  /\ \E F, S \in {{}} \cup {{c} : c \in Clients} :
       /\ \A c \in F : call[c] = "running"
       /\ \A c \in S : call[c] = "queued"
       /\ F # {} => owner = t
       /\ S # {} => owner' = t
       /\ call' = [c \in Clients |-> IF c \in S THEN "running"
                                                ELSE Finished(F)[c]]

Next ==
  \/ \E c \in Clients : Submit(c) \/ Return(c)
  \/ \E t \in Threads : Serve(t)

Spec == Init /\ [][Next]_absVars
=============================================================================
