------------------------------ MODULE MsgQueue ------------------------------
(***************************************************************************)
(* The linked queue of msgqueue.c, on a heap of nodes.  A node that has    *)
(* been freed keeps its contents until malloc() hands it out again, and a  *)
(* pointer to it stays what it was: nothing but the algorithm keeps a      *)
(* freed node from being used.  The callers hold a lock around each call   *)
(* (messageQueue_LOCK in chat_server.c), so a call is one action; only     *)
(* msgQueue_destroy, a loop, takes one action per node.                    *)
(*                                                                         *)
(* A definition named X_Something is a faulty X; no action uses one.       *)
(***************************************************************************)
EXTENDS Integers, Sequences

CONSTANTS
  Node,    (* the memory malloc() has for nodes: bounds the queue *)
  Null,
  Data, NoData

ASSUME QueueAssumption == Null \notin Node /\ NoData \notin Data

VARIABLES
  length, front, rear,   (* the msg_Queue struct                       *)
  next, data,            (* the fields of every node                   *)
  allocated,             (* the nodes malloc()ed and not freed         *)
  destroying,            (* msgQueue_destroy is in its loop            *)
  out,                   (* the caller's *data                         *)
  call,                  (* history: the last call                     *)
  chain                  (* history: the nodes added and not yet taken *)

struct == <<length, front, rear>>
node == <<next, data>>
vars == <<struct, node, allocated, destroying, out, call, chain>>

-----------------------------------------------------------------------------
(* Decides by a NULL rear pointer, which a pop never sets.                 *)
msgQueue_add_ByRear(d) ==
  /\ ~destroying
  /\ \E itm \in Node \ allocated :
       /\ allocated' = allocated \cup {itm}
       /\ data' = [data EXCEPT ![itm] = d]
       /\ \/ /\ rear = Null
             /\ next' = [next EXCEPT ![itm] = Null]
             /\ front' = itm
          \/ /\ rear # Null
             /\ next' = [[next EXCEPT ![itm] = Null] EXCEPT ![rear] = itm]
             /\ UNCHANGED front
       /\ rear' = itm
       /\ chain' = Append(chain, itm)
  /\ length' = length + 1
  /\ call' = "add"
  /\ UNCHANGED <<destroying, out>>

msgQueue_add(d) ==
  /\ ~destroying
  /\ \E itm \in Node \ allocated :
       /\ allocated' = allocated \cup {itm}
       /\ data' = [data EXCEPT ![itm] = d]
       /\ \/ /\ length = 0
             /\ next' = [next EXCEPT ![itm] = Null]
             /\ front' = itm
          \/ /\ length # 0
             /\ next' = [[next EXCEPT ![itm] = Null] EXCEPT ![rear] = itm]
             /\ UNCHANGED front
       /\ rear' = itm
       /\ chain' = Append(chain, itm)
  /\ length' = length + 1
  /\ call' = "add"
  /\ UNCHANGED <<destroying, out>>

msgQueue_peek_AtRear ==
  /\ ~destroying
  /\ \/ length = 0 /\ UNCHANGED out
     \/ length # 0 /\ out' = data[rear]
  /\ call' = "peek"
  /\ UNCHANGED <<struct, node, allocated, destroying, chain>>

(* An empty queue leaves the caller's pointer alone: the code assigns NULL *)
(* to its own parameter.                                                   *)
msgQueue_peek ==
  /\ ~destroying
  /\ \/ length = 0 /\ UNCHANGED out
     \/ length # 0 /\ out' = data[front]
  /\ call' = "peek"
  /\ UNCHANGED <<struct, node, allocated, destroying, chain>>

(* The length is counted down before it is looked at.                     *)
msgQueue_pop_CountsFirst ==
  /\ ~destroying
  /\ \/ /\ length = 0
        /\ length' = length - 1
        /\ UNCHANGED <<front, rear, allocated, out, chain>>
     \/ /\ length # 0
        /\ out' = data[front]
        /\ front' = next[front]
        /\ length' = length - 1
        /\ allocated' = allocated \ {front}
        /\ chain' = Tail(chain)
        /\ UNCHANGED rear
  /\ call' = "pop"
  /\ UNCHANGED <<node, destroying>>

msgQueue_pop ==
  /\ ~destroying
  /\ \/ /\ length = 0
        /\ UNCHANGED <<struct, allocated, out, chain>>
     \/ /\ length # 0
        /\ out' = data[front]
        /\ front' = next[front]
        /\ length' = length - 1
        /\ allocated' = allocated \ {front}
        /\ chain' = Tail(chain)
        /\ UNCHANGED rear
  /\ call' = "pop"
  /\ UNCHANGED <<node, destroying>>

msgQueue_destroy ==
  /\ ~destroying
  /\ destroying' = TRUE
  /\ call' = "destroy"
  /\ UNCHANGED <<struct, node, allocated, out, chain>>

FreeFront ==
  /\ destroying /\ front # Null
  /\ front' = next[front]
  /\ allocated' = allocated \ {front}
  /\ chain' = Tail(chain)
  /\ UNCHANGED <<length, rear, node, destroying, out, call>>

EndDestroy ==
  /\ destroying /\ front = Null
  /\ length' = 0
  /\ destroying' = FALSE
  /\ UNCHANGED <<front, rear, node, allocated, out, call, chain>>

(* msgQueue_new.                                                           *)
Init ==
  /\ length = 0 /\ front = Null /\ rear = Null
  /\ next \in [Node -> {Null}] /\ data \in [Node -> {NoData}]
  /\ allocated = {}
  /\ destroying = FALSE
  /\ out = NoData
  /\ call = "new"
  /\ chain = <<>>

Next ==
  \/ \E d \in Data : msgQueue_add(d)
  \/ msgQueue_peek \/ msgQueue_pop
  \/ msgQueue_destroy \/ FreeFront \/ EndDestroy

Spec == Init /\ [][Next]_vars

-----------------------------------------------------------------------------
TypeOK ==
  /\ length \in Nat
  /\ front \in Node \cup {Null} /\ rear \in Node \cup {Null}
  /\ next \in [Node -> Node \cup {Null}]
  /\ data \in [Node -> Data \cup {NoData}]
  /\ allocated \subseteq Node
  /\ destroying \in BOOLEAN
  /\ out \in Data \cup {NoData}
  /\ call \in {"new", "add", "peek", "pop", "destroy"}
  /\ chain \in Seq(Node)

Positions == 1..Len(chain)

NoNodeTwice == \A i, j \in Positions : chain[i] = chain[j] => i = j

NothingLeaked == allocated = {chain[i] : i \in Positions}

FrontIsFirst == front = IF chain = <<>> THEN Null ELSE chain[1]

LinksFollow ==
  \A i \in Positions : next[chain[i]] = IF i = Len(chain) THEN Null ELSE chain[i + 1]

RearIsLast == chain # <<>> => rear = chain[Len(chain)]

LengthCounts == ~destroying => length = Len(chain)

DataFilled == \A i \in Positions : data[chain[i]] \in Data

(* The list the pointers make is the chain of the nodes that were added    *)
(* and not taken: from the front to the rear, ending in NULL, no node      *)
(* twice.  So pop and destroy follow no stale pointer (a pop that empties  *)
(* the queue leaves `rear' dangling), and nothing is leaked.               *)
Linked ==
  /\ NoNodeTwice /\ NothingLeaked /\ FrontIsFirst /\ LinksFollow
  /\ RearIsLast /\ LengthCounts /\ DataFilled

Contents == [i \in Positions |-> data[chain[i]]]

F == INSTANCE Fifo WITH queue <- Contents

(* To its callers the list is a first-in first-out queue: what pop and     *)
(* peek hand out is the oldest element, once, whatever nodes are reused.   *)
IsFifo == F!Spec
=============================================================================
