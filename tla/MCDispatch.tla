----------------------------- MODULE MCDispatch -----------------------------
(* Dispatch with its proofs' assumptions and definitions, for TLC.  The    *)
(* sets of threads and callbacks are model values given by the .cfg files. *)
EXTENDS DispatchProofs
=============================================================================
