--------------------------- MODULE MCLogStreamer ---------------------------
(* Instances of LogStreamer: two pods with short logs of equal or different lengths. *)
EXTENDS LogStreamer, TLC

CONSTANTS p1, p2

\* One that follows, one for every way not to, with and without a tail and a
\* filter, and two that do not parse.
Arguments ==
    {[follow |-> "1", tail |-> 1, filter |-> None],
     [follow |-> "", tail |-> 1, filter |-> None],
     [follow |-> "0", tail |-> None, filter |-> {1}],
     [follow |-> "1", tail |-> Bad, filter |-> None],
     [follow |-> "false", tail |-> None, filter |-> Bad]}

ShortLogs == {p1 :> 1 @@ p2 :> 1, p1 :> 2 @@ p2 :> 0}
=============================================================================
