---------------------------- MODULE PduFormatMC -----------------------------
EXTENDS PduFormat

UpTo(n, S) == UNION {[1..k -> S] : k \in 0..n}

(* Every list of up to three short names, empty ones among them, and lists *)
(* of as many members as the table holds, or as a signed char counts, or   *)
(* one more or fewer, with names of one length.                            *)
SomeRosters ==
  {ends \in UpTo(3, 1..15) : \A k \in DOMAIN ends : Gap(ends, k) \in 1..5}
    \cup {[k \in 1..n |-> k * (len + 1)] : n \in {126, 127, 128, 129, 254, 255}, len \in {0, 1, 127}}

(* Lists of up to two names, of lengths on both sides of what a char holds.*)
SomeServerLists == UpTo(2, {0, 1, 3, 4, 5, 126, 127, 128, 156, 255})
=============================================================================
