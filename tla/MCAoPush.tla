------------------------------ MODULE MCAoPush ------------------------------
(* AoPush for TLC: all constants are numbers given by the .cfg files.      *)
EXTENDS AoPush
=============================================================================
