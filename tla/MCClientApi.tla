----------------------------- MODULE MCClientApi -----------------------------
(* ClientApi for TLC.                                                      *)
EXTENDS ClientApi

CONSTANTS o1, o2
MCFormat == (o1 :> "value") @@ (o2 :> "none")
=============================================================================
