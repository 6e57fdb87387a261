-------------------------------- MODULE Fifo --------------------------------
(***************************************************************************)
(* What msgqueue.c promises its callers: a first-in first-out queue.       *)
(* `out' is the pointer the caller passes to get an element back.          *)
(***************************************************************************)
EXTENDS Sequences

CONSTANTS Data, NoData

VARIABLES queue, out

Init == queue = <<>> /\ out = NoData

Put == \E d \in Data : queue' = Append(queue, d) /\ UNCHANGED out

Look == queue # <<>> /\ out' = Head(queue) /\ UNCHANGED queue

Get == queue # <<>> /\ out' = Head(queue) /\ queue' = Tail(queue)

(* The queue is being destroyed, an element at a time.                     *)
Drop == queue # <<>> /\ queue' = Tail(queue) /\ UNCHANGED out

Next == Put \/ Look \/ Get \/ Drop

Spec == Init /\ [][Next]_<<queue, out>>
=============================================================================
