---------------------------- MODULE MCDemuxCache ----------------------------
EXTENDS DemuxCache

(* One audio packet every second; video with a keyframe every other second *)
(* and one packet in between.                                              *)
P(s, t, kf) == [stream |-> s, time |-> t * Second, keyframe |-> kf]
AVFile(seconds) ==
  [i \in 1 .. 2 * seconds |->
     LET t == (i - 1) \div 2 IN
     IF i % 2 = 1 THEN P(1, t, t % 2 = 0) ELSE P(2, t, TRUE)]

(* The same with few subtitles among it.                                   *)
Subtitled ==
  <<P(1, 0, TRUE), P(2, 0, TRUE), P(3, 1, TRUE), P(1, 1, FALSE), P(2, 1, TRUE),
    P(1, 2, TRUE), P(2, 2, TRUE), P(3, 3, TRUE), P(1, 3, FALSE), P(2, 3, TRUE),
    P(1, 4, TRUE), P(2, 4, TRUE)>>

AVSub    == <<"video", "audio", "sub">>
AV       == <<"video", "audio">>
AVFile6  == AVFile(6)
Setup(cache, fw, bw) ==
  [seekable_cache |-> cache, max_bytes |-> fw, max_bytes_bw |-> bw]
Large     == {Setup(TRUE, 100, 100)}
Small     == {Setup(TRUE, 6, 3), Setup(FALSE, 100, 0)}
VerySmall == {Setup(TRUE, 6, 1)}
Back        == {{}}
BackForward == {{}, {"FORWARD"}}
=============================================================================
