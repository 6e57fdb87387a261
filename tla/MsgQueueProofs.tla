--------------------------- MODULE MsgQueueProofs ---------------------------
(***************************************************************************)
(* The linked queue of msgqueue.c is a first-in first-out queue, for any   *)
(* supply of nodes and any data.                                           *)
(***************************************************************************)
EXTENDS MsgQueue, SequenceTheorems, TLAPS

USE DEF Positions

QueueInv == TypeOK /\ Linked

LEMMA QueueInit == Init => QueueInv
<1> SUFFICES ASSUME Init PROVE QueueInv
  OBVIOUS
<1>1. chain \in Seq(Node) /\ Len(chain) = 0 /\ 1..Len(chain) = {}
  BY DEF Init
<1>2. TypeOK
  BY <1>1 DEF Init, TypeOK
<1>3. Linked
  BY <1>1 DEF Init, Linked, NoNodeTwice, NothingLeaked, FrontIsFirst, LinksFollow,
     RearIsLast, LengthCounts, DataFilled
<1>4. QED
  BY <1>2, <1>3 DEF QueueInv

LEMMA EmptyIff ==
  ASSUME NEW S, NEW s \in Seq(S)
  PROVE  s = <<>> <=> Len(s) = 0
<1>1. Len(s) = 0 => s = <<>>
  BY EmptySeq
<1>2. QED
  BY <1>1, EmptySeq

LEMMA ContentsSeq ==
  ASSUME TypeOK, DataFilled
  PROVE  /\ Contents \in Seq(Data) /\ Len(Contents) = Len(chain)
         /\ \A i \in 1..Len(chain) : Contents[i] = data[chain[i]]
BY DEF TypeOK, DataFilled, Contents

(* What the queue looks like when it is not empty.                         *)
LEMMA NonEmpty ==
  ASSUME QueueInv, chain # <<>>
  PROVE  /\ Len(chain) \in Nat \ {0}
         /\ front = chain[1] /\ front \in Node /\ front \in allocated
         /\ Contents # <<>> /\ Head(Contents) = data[front]
         /\ data[front] \in Data
<1>1. chain \in Seq(Node) /\ Len(chain) \in Nat \ {0}
  BY EmptySeq DEF QueueInv, TypeOK
<1>2. 1 \in 1..Len(chain) /\ chain[1] \in Node
  BY <1>1, ElementOfSeq
<1>3. front = chain[1] /\ front \in allocated
  BY <1>2 DEF QueueInv, Linked, FrontIsFirst, NothingLeaked
<1>4. Contents # <<>> /\ Head(Contents) = data[front]
  BY <1>1, <1>2, <1>3, ContentsSeq DEF QueueInv, Linked
<1>5. data[front] \in Data
  BY <1>2, <1>3 DEF QueueInv, Linked, DataFilled
<1>6. QED
  BY <1>1, <1>2, <1>3, <1>4, <1>5

(* The front node is taken off the list and freed: msgQueue_pop, and each  *)
(* turn of the loop of msgQueue_destroy.                                   *)
LEMMA TakeFront ==
  ASSUME QueueInv, chain # <<>>,
         front' = next[front], allocated' = allocated \ {front},
         chain' = Tail(chain), UNCHANGED <<rear, next, data>>,
         ~destroying' => length' = Len(chain) - 1
  PROVE  /\ Linked'
         /\ front' \in Node \cup {Null} /\ chain' \in Seq(Node)
         /\ Contents' = Tail(Contents)
<1>1. Len(chain) \in Nat \ {0} /\ front = chain[1] /\ front \in Node
  BY NonEmpty
<1>2. /\ chain' \in Seq(Node) /\ Len(chain') = Len(chain) - 1
      /\ \A i \in 1..(Len(chain) - 1) : chain'[i] = chain[i + 1]
  BY <1>1, HeadTailProperties DEF QueueInv, TypeOK
<1>3. chain' = <<>> <=> Len(chain) = 1
  <2>1. chain' = <<>> <=> Len(chain') = 0
    BY <1>2, EmptyIff
  <2>2. QED
    BY <1>1, <1>2, <2>1
<1>4. \A i \in 1..Len(chain) : chain[i] \in Node
  BY ElementOfSeq DEF QueueInv, TypeOK
<1>5. NoNodeTwice
  BY DEF QueueInv, Linked
<1>6. NoNodeTwice'
  BY <1>1, <1>2, <1>5 DEF NoNodeTwice
<1>7. NothingLeaked'
  <2>1. allocated' = {chain[i] : i \in 1..Len(chain)} \ {chain[1]}
    BY <1>1 DEF QueueInv, Linked, NothingLeaked
  <2>2. \A i \in 1..Len(chain) : chain[i] # chain[1] =>
          i - 1 \in 1..Len(chain') /\ chain[i] = chain'[i - 1]
    BY <1>1, <1>2
  <2>3. \A i \in 1..Len(chain') :
          i + 1 \in 1..Len(chain) /\ chain'[i] = chain[i + 1] /\ chain[i + 1] # chain[1]
    BY <1>1, <1>2, <1>5 DEF NoNodeTwice
  <2>4. ASSUME NEW x \in allocated' PROVE \E i \in 1..Len(chain') : x = chain'[i]
    <3>1. PICK i \in 1..Len(chain) : x = chain[i] /\ chain[i] # chain[1]
      BY <2>1, <2>4
    <3>2. i - 1 \in 1..Len(chain') /\ chain[i] = chain'[i - 1]
      BY <2>2, <3>1
    <3>3. QED
      BY <3>1, <3>2
  <2>5. ASSUME NEW i \in 1..Len(chain') PROVE chain'[i] \in allocated'
    BY <2>1, <2>3, <2>5
  <2>6. QED
    BY <2>4, <2>5 DEF NothingLeaked
<1>8. LinksFollow
  BY DEF QueueInv, Linked
<1>9. FrontIsFirst'
  <2>1. next[chain[1]] = IF 1 = Len(chain) THEN Null ELSE chain[2]
    <3>1. 1 \in 1..Len(chain) /\ 1 + 1 = 2
      BY <1>1
    <3>2. next[chain[1]] = IF 1 = Len(chain) THEN Null ELSE chain[1 + 1]
      BY <3>1, <1>8 DEF LinksFollow
    <3>3. QED
      BY <3>1, <3>2
  <2>2. QED
    BY <1>1, <1>2, <1>3, <2>1 DEF FrontIsFirst
<1>10. LinksFollow'
  <2> SUFFICES ASSUME NEW i \in 1..(Len(chain) - 1)
               PROVE  next[chain'[i]] =
                        IF i = Len(chain) - 1 THEN Null ELSE chain'[i + 1]
    BY <1>2 DEF LinksFollow
  <2>1. i + 1 \in 1..Len(chain) /\ chain'[i] = chain[i + 1]
    BY <1>1, <1>2
  <2>2. next[chain[i + 1]] = IF i + 1 = Len(chain) THEN Null ELSE chain[i + 1 + 1]
    BY <2>1, <1>8 DEF LinksFollow
  <2>3. i # Len(chain) - 1 => chain'[i + 1] = chain[i + 1 + 1]
    <3>1. i # Len(chain) - 1 => i + 1 \in 1..(Len(chain) - 1)
      BY <1>1
    <3>2. QED
      BY <3>1, <1>2
  <2>4. QED
    BY <1>1, <2>1, <2>2, <2>3
<1>11. RearIsLast'
  BY <1>1, <1>2, <1>3 DEF QueueInv, Linked, RearIsLast
<1>12. LengthCounts'
  BY <1>2 DEF LengthCounts
<1>13. DataFilled /\ DataFilled'
  BY <1>1, <1>2 DEF QueueInv, Linked, DataFilled
<1>14. front' \in Node \cup {Null}
  BY <1>1 DEF QueueInv, TypeOK
<1>15. Contents' = Tail(Contents)
  <2>1. /\ Contents \in Seq(Data) /\ Len(Contents) = Len(chain) /\ Contents # <<>>
        /\ \A i \in 1..Len(chain) : Contents[i] = data[chain[i]]
    BY <1>13, ContentsSeq, NonEmpty DEF QueueInv
  <2>2. /\ Tail(Contents) \in Seq(Data) /\ Len(Tail(Contents)) = Len(chain) - 1
        /\ \A i \in 1..(Len(chain) - 1) : Tail(Contents)[i] = Contents[i + 1]
    BY <2>1, <1>1, HeadTailProperties
  <2>3. /\ Contents' \in Seq(Data) /\ Len(Contents') = Len(chain) - 1
        /\ \A i \in 1..(Len(chain) - 1) : Contents'[i] = data[chain[i + 1]]
    BY <1>1, <1>2, <1>13 DEF Contents, DataFilled
  <2>4. \A i \in 1..(Len(chain) - 1) : Contents'[i] = Tail(Contents)[i]
    BY <2>1, <2>2, <2>3, <1>1
  <2>5. QED
    BY <2>2, <2>3, <2>4, SeqEqual
<1>16. QED
  BY <1>2, <1>6, <1>7, <1>9, <1>10, <1>11, <1>12, <1>13, <1>14, <1>15 DEF Linked

(* A node is malloc()ed and put at the rear.                               *)
LEMMA PutAtRear ==
  ASSUME QueueInv, ~destroying, NEW d \in Data, msgQueue_add(d)
  PROVE  QueueInv' /\ Contents' = Append(Contents, d)
<1> USE DEF QueueInv
<1>1. PICK itm \in Node \ allocated :
        /\ allocated' = allocated \cup {itm}
        /\ data' = [data EXCEPT ![itm] = d]
        /\ \/ /\ length = 0
              /\ next' = [next EXCEPT ![itm] = Null]
              /\ front' = itm
           \/ /\ length # 0
              /\ next' = [[next EXCEPT ![itm] = Null] EXCEPT ![rear] = itm]
              /\ UNCHANGED front
        /\ rear' = itm
        /\ chain' = Append(chain, itm)
  BY DEF msgQueue_add
<1>2. /\ length' = length + 1 /\ call' = "add" /\ UNCHANGED <<destroying, out>>
  BY DEF msgQueue_add
<1>3. /\ chain \in Seq(Node) /\ Len(chain) \in Nat
      /\ \A i \in 1..Len(chain) : chain[i] \in allocated
      /\ length = Len(chain)
  BY ElementOfSeq DEF TypeOK, Linked, NothingLeaked, LengthCounts
<1>4. /\ chain' \in Seq(Node) /\ chain' # <<>> /\ Len(chain') = Len(chain) + 1
      /\ \A i \in 1..Len(chain) : chain'[i] = chain[i]
      /\ chain'[Len(chain) + 1] = itm
  BY <1>1, <1>3, AppendProperties
<1>5. \A i \in 1..Len(chain) : chain[i] # itm
  BY <1>1, <1>3
<1>6. NoNodeTwice'
  BY <1>3, <1>4, <1>5 DEF Linked, NoNodeTwice
<1>7. NothingLeaked'
  <2>1. allocated' = {chain[i] : i \in 1..Len(chain)} \cup {itm}
    BY <1>1 DEF Linked, NothingLeaked
  <2>2. ASSUME NEW x \in allocated' PROVE \E i \in 1..Len(chain') : x = chain'[i]
    <3>1. CASE x = itm
      BY <3>1, <1>3, <1>4
    <3>2. CASE x # itm
      <4>1. PICK i \in 1..Len(chain) : x = chain[i]
        BY <3>2, <2>1, <2>2
      <4>2. i \in 1..Len(chain') /\ x = chain'[i]
        BY <4>1, <1>3, <1>4
      <4>3. QED
        BY <4>2
    <3>3. QED
      BY <3>1, <3>2
  <2>3. ASSUME NEW i \in 1..Len(chain') PROVE chain'[i] \in allocated'
    <3>1. CASE i = Len(chain) + 1
      BY <3>1, <1>4, <2>1
    <3>2. CASE i # Len(chain) + 1
      BY <3>2, <1>3, <1>4, <2>1, <2>3
    <3>3. QED
      BY <3>1, <3>2
  <2>4. QED
    BY <2>2, <2>3 DEF NothingLeaked
<1>8. FrontIsFirst'
  <2>1. CASE length = 0
    BY <2>1, <1>1, <1>3, <1>4 DEF FrontIsFirst
  <2>2. CASE length # 0
    <3>1. chain # <<>> /\ 1 \in 1..Len(chain)
      BY <2>2, <1>3, EmptyIff
    <3>2. front' = front
      BY <2>2, <1>1
    <3>3. QED
      BY <3>1, <3>2, <1>4 DEF Linked, FrontIsFirst
  <2>3. QED
    BY <2>1, <2>2
<1>9. LinksFollow'
  <2> SUFFICES ASSUME NEW i \in 1..(Len(chain) + 1)
               PROVE  next'[chain'[i]] =
                        IF i = Len(chain) + 1 THEN Null ELSE chain'[i + 1]
    BY <1>4 DEF LinksFollow
  <2>1. CASE length = 0
    BY <2>1, <1>1, <1>3, <1>4 DEF TypeOK
  <2>2. CASE length # 0
    <3>1. /\ chain # <<>> /\ Len(chain) \in 1..Len(chain) /\ rear = chain[Len(chain)]
      BY <2>2, <1>3, EmptyIff DEF Linked, RearIsLast
    <3>2. rear \in Node /\ rear # itm
      BY <3>1, <1>5, ElementOfSeq DEF TypeOK
    <3>3. \A x \in Node : next'[x] = IF x = rear THEN itm ELSE IF x = itm THEN Null ELSE next[x]
      BY <2>2, <3>2, <1>1 DEF TypeOK
    <3>4. CASE i = Len(chain) + 1
      BY <3>2, <3>3, <3>4, <1>4
    <3>5. CASE i = Len(chain)
      BY <3>1, <3>2, <3>3, <3>5, <1>3, <1>4
    <3>6. CASE i \in 1..(Len(chain) - 1)
      <4>1. i \in 1..Len(chain) /\ i + 1 \in 1..Len(chain) /\ i # Len(chain)
        BY <3>6, <1>3
      <4>2. next[chain[i]] = chain[i + 1]
        BY <4>1 DEF Linked, LinksFollow
      <4>3. chain[i] # rear /\ chain[i] # itm /\ chain[i] \in Node
        BY <3>1, <4>1, <1>5, ElementOfSeq DEF Linked, NoNodeTwice, TypeOK
      <4>4. QED
        BY <3>3, <4>1, <4>2, <4>3, <1>3, <1>4
    <3>7. QED
      BY <3>4, <3>5, <3>6, <1>3
  <2>3. QED
    BY <2>1, <2>2
<1>10. RearIsLast'
  BY <1>1, <1>4 DEF RearIsLast
<1>11. LengthCounts'
  BY <1>2, <1>3, <1>4 DEF LengthCounts
<1>12. /\ \A i \in 1..Len(chain) : data'[chain'[i]] = data[chain[i]]
       /\ data'[chain'[Len(chain) + 1]] = d
  BY <1>1, <1>4, <1>5 DEF TypeOK
<1>13. DataFilled'
  <2> SUFFICES ASSUME NEW i \in 1..(Len(chain) + 1) PROVE data'[chain'[i]] \in Data
    BY <1>4 DEF DataFilled
  <2>1. CASE i = Len(chain) + 1
    BY <2>1, <1>12
  <2>2. CASE i \in 1..Len(chain)
    BY <2>2, <1>12 DEF Linked, DataFilled
  <2>3. QED
    BY <2>1, <2>2, <1>3
<1>14. TypeOK'
  <2>1. next' \in [Node -> Node \cup {Null}] /\ data' \in [Node -> Data \cup {NoData}]
    BY <1>1 DEF TypeOK
  <2>2. front' \in Node \cup {Null} /\ rear' \in Node \cup {Null} /\ allocated' \subseteq Node
    BY <1>1 DEF TypeOK
  <2>3. QED
    BY <2>1, <2>2, <1>2, <1>4 DEF TypeOK
<1>15. Contents' = Append(Contents, d)
  <2>1. /\ Contents \in Seq(Data) /\ Len(Contents) = Len(chain)
        /\ \A i \in 1..Len(chain) : Contents[i] = data[chain[i]]
    BY ContentsSeq DEF Linked
  <2>2. /\ Append(Contents, d) \in Seq(Data) /\ Len(Append(Contents, d)) = Len(chain) + 1
        /\ \A i \in 1..Len(chain) : Append(Contents, d)[i] = Contents[i]
        /\ Append(Contents, d)[Len(chain) + 1] = d
    BY <2>1, AppendProperties
  <2>3. /\ Contents' \in Seq(Data) /\ Len(Contents') = Len(chain) + 1
        /\ \A i \in 1..(Len(chain) + 1) : Contents'[i] = data'[chain'[i]]
    BY <1>3, <1>4, <1>13 DEF Contents, DataFilled
  <2>4. \A i \in 1..(Len(chain) + 1) : Contents'[i] = Append(Contents, d)[i]
    BY <2>1, <2>2, <2>3, <1>3, <1>12
  <2>5. QED
    BY <2>2, <2>3, <2>4, SeqEqual
<1>16. QED
  BY <1>6, <1>7, <1>8, <1>9, <1>10, <1>11, <1>13, <1>14, <1>15 DEF Linked

(* A pop of a queue that is not empty.                                     *)
LEMMA PopTakes ==
  ASSUME QueueInv, msgQueue_pop, length # 0
  PROVE  /\ QueueInv' /\ Contents # <<>>
         /\ out' = Head(Contents) /\ Contents' = Tail(Contents)
<1>1. /\ ~destroying /\ ~destroying' /\ call' = "pop"
      /\ out' = data[front] /\ front' = next[front] /\ length' = length - 1
      /\ allocated' = allocated \ {front} /\ chain' = Tail(chain)
      /\ UNCHANGED <<rear, next, data, destroying>>
  BY DEF msgQueue_pop, node
<1>2. length = Len(chain) /\ chain # <<>>
  BY <1>1, EmptySeq DEF QueueInv, TypeOK, Linked, LengthCounts
<1>3. /\ Len(chain) \in Nat \ {0} /\ front \in Node
      /\ Contents # <<>> /\ Head(Contents) = data[front] /\ data[front] \in Data
  BY <1>2, NonEmpty
<1>4. /\ Linked' /\ front' \in Node \cup {Null} /\ chain' \in Seq(Node)
      /\ Contents' = Tail(Contents)
  BY <1>1, <1>2, TakeFront
<1>5. TypeOK'
  BY <1>1, <1>2, <1>3, <1>4 DEF QueueInv, TypeOK
<1>6. QED
  BY <1>1, <1>3, <1>4, <1>5 DEF QueueInv

(* A turn of the loop of msgQueue_destroy.                                 *)
LEMMA FreeTakes ==
  ASSUME QueueInv, FreeFront
  PROVE  /\ QueueInv' /\ Contents # <<>>
         /\ UNCHANGED out /\ Contents' = Tail(Contents)
<1>1. /\ destroying' /\ front # Null /\ front' = next[front]
      /\ allocated' = allocated \ {front} /\ chain' = Tail(chain)
      /\ UNCHANGED <<length, rear, next, data, out, call, destroying>>
  BY DEF FreeFront, node
<1>2. chain # <<>>
  BY <1>1 DEF QueueInv, Linked, FrontIsFirst
<1>3. Contents # <<>>
  BY <1>2, NonEmpty
<1>4. /\ Linked' /\ front' \in Node \cup {Null} /\ chain' \in Seq(Node)
      /\ Contents' = Tail(Contents)
  BY <1>1, <1>2, TakeFront
<1>5. TypeOK'
  BY <1>1, <1>4 DEF QueueInv, TypeOK
<1>6. QED
  BY <1>1, <1>3, <1>4, <1>5 DEF QueueInv

(* A step that leaves the list alone.                                      *)
LEMMA ListAlone ==
  ASSUME QueueInv, UNCHANGED <<front, rear, next, data, allocated, chain>>,
         out' \in Data \cup {NoData}, destroying' \in BOOLEAN, length' \in Nat,
         call' \in {"new", "add", "peek", "pop", "destroy"},
         ~destroying' => length' = Len(chain)
  PROVE  QueueInv' /\ Contents' = Contents
<1>1. TypeOK'
  BY DEF QueueInv, TypeOK
<1>2. Linked'
  BY DEF QueueInv, Linked, NoNodeTwice, NothingLeaked, FrontIsFirst, LinksFollow,
     RearIsLast, LengthCounts, DataFilled
<1>3. Contents' = Contents
  BY DEF Contents
<1>4. QED
  BY <1>1, <1>2, <1>3 DEF QueueInv

(* Every step keeps the list well linked and is a step of the Fifo.        *)
LEMMA QueueStep ==
  ASSUME QueueInv, [Next]_vars
  PROVE  QueueInv' /\ [F!Next]_<<Contents, out>>
<1> DEFINE Goal == QueueInv' /\ [F!Next]_<<Contents, out>>
<1> SUFFICES Goal
  OBVIOUS
<1>1. ASSUME NEW d \in Data, msgQueue_add(d) PROVE Goal
  <2>1. ~destroying /\ UNCHANGED out
    BY <1>1 DEF msgQueue_add
  <2>2. QueueInv' /\ Contents' = Append(Contents, d)
    BY <1>1, <2>1, PutAtRear
  <2>3. QED
    BY <2>1, <2>2 DEF F!Next, F!Put
<1>2. CASE msgQueue_peek
  <2>1. /\ UNCHANGED <<length, front, rear, next, data, allocated, destroying, chain>>
        /\ ~destroying /\ call' = "peek"
    BY <1>2 DEF msgQueue_peek, struct, node
  <2>2. length \in Nat /\ destroying \in BOOLEAN /\ out \in Data \cup {NoData}
        /\ length = Len(chain)
    BY <2>1 DEF QueueInv, TypeOK, Linked, LengthCounts
  <2>3. CASE length = 0
    <3>1. UNCHANGED out
      BY <1>2, <2>3 DEF msgQueue_peek
    <3>2. QueueInv' /\ Contents' = Contents
      BY <2>1, <2>2, <3>1, ListAlone
    <3>3. QED
      BY <3>1, <3>2
  <2>4. CASE length # 0
    <3>1. chain # <<>>
      BY <2>2, <2>4, EmptySeq DEF QueueInv, TypeOK
    <3>2. out' = data[front]
      BY <1>2, <2>4 DEF msgQueue_peek
    <3>3. Contents # <<>> /\ Head(Contents) = data[front] /\ data[front] \in Data
      BY <3>1, NonEmpty
    <3>4. QueueInv' /\ Contents' = Contents
      BY <2>1, <2>2, <3>2, <3>3, ListAlone
    <3>5. QED
      BY <3>2, <3>3, <3>4 DEF F!Next, F!Look
  <2>5. QED
    BY <2>3, <2>4
<1>3. CASE msgQueue_pop
  <2>1. CASE length = 0
    <3>1. /\ UNCHANGED <<length, front, rear, next, data, allocated, destroying, out, chain>>
          /\ ~destroying /\ call' = "pop"
      BY <1>3, <2>1 DEF msgQueue_pop, struct, node
    <3>2. length \in Nat /\ destroying \in BOOLEAN /\ out \in Data \cup {NoData}
          /\ length = Len(chain)
      BY <3>1 DEF QueueInv, TypeOK, Linked, LengthCounts
    <3>3. QueueInv' /\ Contents' = Contents
      BY <3>1, <3>2, ListAlone
    <3>4. QED
      BY <3>1, <3>3
  <2>2. CASE length # 0
    BY <1>3, <2>2, PopTakes DEF F!Next, F!Get
  <2>3. QED
    BY <2>1, <2>2
<1>4. CASE msgQueue_destroy
  <2>1. /\ UNCHANGED <<length, front, rear, next, data, allocated, out, chain>>
        /\ destroying' = TRUE /\ call' = "destroy"
    BY <1>4 DEF msgQueue_destroy, struct, node
  <2>2. length \in Nat /\ out \in Data \cup {NoData}
    BY DEF QueueInv, TypeOK
  <2>3. QueueInv' /\ Contents' = Contents
    BY <2>1, <2>2, ListAlone
  <2>4. QED
    BY <2>1, <2>3
<1>5. CASE FreeFront
  BY <1>5, FreeTakes DEF F!Next, F!Drop
<1>6. CASE EndDestroy
  <2>1. /\ UNCHANGED <<front, rear, next, data, allocated, out, call, chain>>
        /\ front = Null /\ length' = 0 /\ destroying' = FALSE
    BY <1>6 DEF EndDestroy, node
  <2>2. out \in Data \cup {NoData} /\ call \in {"new", "add", "peek", "pop", "destroy"}
    BY DEF QueueInv, TypeOK
  <2>3. chain = <<>>
    BY <2>1, NonEmpty, QueueAssumption
  <2>4. Len(chain) = 0
    BY <2>3, EmptySeq
  <2>5. QueueInv' /\ Contents' = Contents
    BY <2>1, <2>2, <2>4, ListAlone
  <2>6. QED
    BY <2>1, <2>5
<1>7. CASE UNCHANGED vars
  <2>1. UNCHANGED <<length, front, rear, next, data, allocated, destroying, out, call, chain>>
    BY <1>7 DEF vars, struct, node
  <2>2. /\ length \in Nat /\ destroying \in BOOLEAN /\ out \in Data \cup {NoData}
        /\ call \in {"new", "add", "peek", "pop", "destroy"}
        /\ (~destroying => length = Len(chain))
    BY DEF QueueInv, TypeOK, Linked, LengthCounts
  <2>3. QueueInv' /\ Contents' = Contents
    BY <2>1, <2>2, ListAlone
  <2>4. QED
    BY <2>1, <2>3
<1>8. QED
  BY <1>1, <1>2, <1>3, <1>4, <1>5, <1>6, <1>7 DEF Next

LEMMA QueueInvariant == Spec => []QueueInv
<1>1. QueueInv /\ [Next]_vars => QueueInv'
  BY QueueStep
<1>2. QED
  BY QueueInit, <1>1, PTL DEF Spec

(* msgqueue.c: every pointer of the queue is a node or NULL, in every      *)
(* reachable state.                                                        *)
THEOREM QueueTypes == Spec => []TypeOK
<1>1. QueueInv => TypeOK
  BY DEF QueueInv
<1>2. QED
  BY QueueInvariant, <1>1, PTL

(* msgqueue.c: the list stays well linked, whatever the calls: no pointer  *)
(* to a freed node is followed and no node is lost.                        *)
THEOREM ListLinked == Spec => []Linked
<1>1. QueueInv => Linked
  BY DEF QueueInv
<1>2. QED
  BY QueueInvariant, <1>1, PTL

(* msgqueue.c implements a first-in first-out queue.                       *)
THEOREM RefinesFifo == Spec => IsFifo
<1>1. Init => F!Init
  <2> SUFFICES ASSUME Init PROVE Contents = <<>> /\ out = NoData
    BY DEF F!Init
  <2>1. chain = <<>> /\ out = NoData /\ 1..Len(chain) = {}
    BY DEF Init
  <2>2. QueueInv /\ Len(chain) = 0
    BY QueueInit, <2>1
  <2>3. Contents \in Seq(Data) /\ Len(Contents) = 0
    BY <2>2, ContentsSeq DEF QueueInv, Linked
  <2>4. QED
    BY <2>1, <2>3, EmptySeq
<1>2. QueueInv /\ [Next]_vars => [F!Next]_<<Contents, out>>
  BY QueueStep
<1>3. QED
  BY QueueInvariant, <1>1, <1>2, PTL DEF Spec, IsFifo, F!Spec
=============================================================================
