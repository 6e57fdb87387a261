--------------------------- MODULE StreamReaderMC ---------------------------
EXTENDS StreamReader, TLC

(* Texts that need no pad, one pad and three, and none at all.             *)
Kinds ==
  [op : {"JOIN"}, len : {0, 1, 8}] \cup [op : {"MESS"}, len : {7}]
    \cup [op : {"QUIT", "BAD"}, len : {0}]

Short == [op : {"JOIN"}, len : {0, 1}] \cup [op : {"QUIT", "BAD"}, len : {0}]

Upto3 == UNION {[1..n -> Kinds] : n \in 1..2} \cup [1..3 -> Short]

(* What is left of each behind its header is more than the slack.          *)
TwoMESS == [1..2 -> [op : {"MESS"}, len : {8}]]
=============================================================================
