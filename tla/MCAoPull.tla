------------------------------ MODULE MCAoPull ------------------------------
(* AoPull for TLC: every constant is a number or a Boolean of the .cfg.    *)
EXTENDS AoPull
=============================================================================
