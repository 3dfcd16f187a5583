-------------------------------- MODULE MCVo --------------------------------
(* Vo for TLC: a frame that is late, one for now, and one that is early.   *)
EXTENDS Vo

MCTimings == {<<-1, 0>>, <<0, 1>>, <<1, -1>>}
=============================================================================
