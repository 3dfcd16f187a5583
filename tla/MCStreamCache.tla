--------------------------- MODULE MCStreamCache ----------------------------
(* StreamCache for TLC: the streams.                                       *)
EXTENDS StreamCache

Stream(seekable, sized, limit, fails, control) ==
  [seekable |-> seekable, sized |-> sized, seek_limit |-> limit,
   fails |-> {fails}, control |-> control]

MCSetups == {Stream(TRUE, TRUE, 1, "reads", "readahead"),
             Stream(TRUE, TRUE, 1, "moves", "resize"),
             Stream(TRUE, FALSE, 0, "moves", "resize"),
             Stream(TRUE, FALSE, 1, "moves", "move"),
             Stream(FALSE, TRUE, 0, "reads", "move")}
=============================================================================
