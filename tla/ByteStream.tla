----------------------------- MODULE ByteStream -----------------------------
(***************************************************************************)
(* What stream/cache.c promises to whoever reads through it: it is a file. *)
(* A read returns the bytes at the position, at least one unless the end   *)
(* is reached, the stream failed or playback was cancelled; only seeks and *)
(* controls move the position elsewhere.  A byte of the file is its own    *)
(* offset.                                                                 *)
(***************************************************************************)
EXTENDS Naturals, Sequences

CONSTANTS FileSize, MaxRead

VARIABLES pos,        \* the position of the stream
          got,        \* what the last read returned
          failed,     \* the underlying stream has failed
          cancelled

vars == <<pos, got, failed, cancelled>>

Init == pos = 0 /\ got = <<>> /\ failed = FALSE /\ cancelled = FALSE

Read ==
  \E n \in 1..MaxRead :
    /\ pos + n <= FileSize
    /\ got' = [i \in 1..n |-> pos + i - 1]
    /\ pos' = pos + n
    /\ UNCHANGED <<failed, cancelled>>

ReadEnd ==
  /\ pos >= FileSize \/ failed \/ cancelled
  /\ got' = <<>>
  /\ UNCHANGED <<pos, failed, cancelled>>

(* A call that has to wait first forgets what the previous one returned.   *)
Begin == got' = <<FileSize>> /\ UNCHANGED <<pos, failed, cancelled>>

(* A seek, or a control that moves the stream (to another title, time).    *)
Move ==
  /\ pos' \in 0..FileSize
  /\ got' = <<FileSize>>
  /\ UNCHANGED <<failed, cancelled>>

Fail   == failed' = TRUE /\ UNCHANGED <<pos, got, cancelled>>
Cancel == cancelled' = TRUE /\ UNCHANGED <<pos, got, failed>>

Next == Read \/ ReadEnd \/ Begin \/ Move \/ Fail \/ Cancel

Spec == Init /\ [][Next]_vars
=============================================================================
