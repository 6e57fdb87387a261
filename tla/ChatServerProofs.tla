-------------------------- MODULE ChatServerProofs --------------------------
(***************************************************************************)
(* Theorems about the chat server, for any number of connections, slots,   *)
(* names and descriptors: about the list, the descriptors, and what        *)
(* members are told of each other.                                         *)
(***************************************************************************)
EXTENDS ChatServer, FiniteSetTheorems, SequenceTheorems, TLAPS

USE DEF Slots, Fds, NoFd

(* What sendMessage writes to a connection is a sequence of copies.        *)
LEMMA CopiesType ==
  ASSUME NEW k, NEW pdu \in Pdu
  PROVE  Copies(k, pdu) \in Seq(Pdu)
<1> DEFINE S == {i \in Slots : Occupied(i) /\ Peer(clientList[i].fd) = k}
<1>1. IsFiniteSet(1..MaxClients)
  BY ServerAssumption, FS_Interval
<1>2. IsFiniteSet(S)
  BY <1>1, FS_Subset
<1>3. Cardinality(S) \in Nat
  BY <1>2, FS_CardinalityType
<1>4. QED
  BY <1>3 DEF Copies

LEMMA SendMessageType ==
  ASSUME TypeOK, NEW pdu \in Pdu, sendMessage(pdu)
  PROVE  inbox' \in [Conn -> Seq(Pdu)]
<1>1. ASSUME NEW k \in Conn PROVE inbox[k] \o Copies(k, pdu) \in Seq(Pdu)
  BY CopiesType, ConcatProperties DEF TypeOK
<1>2. QED
  BY <1>1 DEF sendMessage

LEMMA SendToType ==
  ASSUME TypeOK, NEW f, NEW pdu \in Pdu, sendto_TCPSocket(f, pdu)
  PROVE  inbox' \in [Conn -> Seq(Pdu)]
<1>1. ASSUME NEW k \in Conn PROVE Append(inbox[k], pdu) \in Seq(Pdu)
  BY AppendProperties DEF TypeOK
<1>2. QED
  BY <1>1 DEF sendto_TCPSocket, TypeOK

LEMMA QueueType ==
  ASSUME TypeOK, NEW it \in Item, msgQueue_add(it)
  PROVE  /\ messageQueue' \in Seq(Item)
         /\ sending' \in Seq(Item) /\ Len(sending') <= 1
BY AppendProperties DEF TypeOK, msgQueue_add

LEMMA FreeEntryType == FreeEntry \in Entry
BY ServerAssumption DEF FreeEntry, Entry, Identity

(* remove_Client keeps the types, whatever number it is called with.       *)
LEMMA RemoveType ==
  ASSUME TypeOK, NEW id, remove_Client(id)
  PROVE  /\ clientList' \in [Slots -> Entry]
         /\ \A i \in Slots : Occupied(i)' => clientList'[i].who \in Conn
         /\ files' \in [Fds -> Conn \cup {"stdin", "closed"}]
<1>1. CASE UNCHANGED <<clientList, files>>
  BY <1>1 DEF TypeOK, Occupied
<1>2. ASSUME NEW i \in Slots,
             clientList' = [clientList EXCEPT ![i] = FreeEntry],
             files' = [files EXCEPT ![clientList[i].fd] = "closed"]
      PROVE  /\ clientList' \in [Slots -> Entry]
             /\ \A j \in Slots : Occupied(j)' => clientList'[j].who \in Conn
             /\ files' \in [Fds -> Conn \cup {"stdin", "closed"}]
  <2>1. clientList' \in [Slots -> Entry]
    BY <1>2, FreeEntryType DEF TypeOK
  <2>2. \A j \in Slots : Occupied(j)' => clientList'[j].who \in Conn
    BY <1>2 DEF TypeOK, Occupied, FreeEntry
  <2>3. files' \in [Fds -> Conn \cup {"stdin", "closed"}]
    BY <1>2 DEF TypeOK
  <2>4. QED
    BY <2>1, <2>2, <2>3
<1>3. QED
  BY <1>1, <1>2 DEF remove_Client, Cleared, CloseFd

LEMMA AppendType ==
  ASSUME TypeOK, NEW t \in Conn, append_Clientlist(t)
  PROVE  /\ cl' \in [Conn -> Client]
         /\ clientList' \in [Slots -> Entry]
         /\ \A i \in Slots : Occupied(i)' => clientList'[i].who \in Conn
<1>1. CASE UNCHANGED <<cl, clientList>>
  BY <1>1 DEF TypeOK, Occupied
<1>2. ASSUME NEW i \in Slots,
             cl' = [cl EXCEPT ![t].idNum = i],
             clientList' = [clientList EXCEPT ![i] =
               [idNum |-> i, name |-> cl[t].name, hasJoined |-> cl[t].hasJoined,
                fd |-> cl[t].fd, who |-> t]]
      PROVE  /\ cl' \in [Conn -> Client]
             /\ clientList' \in [Slots -> Entry]
             /\ \A j \in Slots : Occupied(j)' => clientList'[j].who \in Conn
  <2>1. cl[t] \in Client /\ i \in 0..MaxClients
    BY ServerAssumption DEF TypeOK
  <2>2. [cl[t] EXCEPT !.idNum = i] \in Client
    BY <2>1 DEF Client
  <2>3. cl' \in [Conn -> Client]
    BY <1>2, <2>2 DEF TypeOK
  <2>4. clientList' \in [Slots -> Entry]
    BY <1>2, <2>1 DEF TypeOK, Client, Entry
  <2>5. \A j \in Slots : Occupied(j)' => clientList'[j].who \in Conn
    BY <1>2 DEF TypeOK, Occupied
  <2>6. QED
    BY <2>3, <2>4, <2>5
<1>3. QED
  BY <1>1, <1>2 DEF append_Clientlist

LEMMA SetHasJoinedType ==
  ASSUME TypeOK, NEW id, setHasJoined(id)
  PROVE  /\ clientList' \in [Slots -> Entry]
         /\ \A i \in Slots : Occupied(i)' => clientList'[i].who \in Conn
<1>1. CASE UNCHANGED clientList
  BY <1>1 DEF TypeOK, Occupied
<1>2. ASSUME NEW i \in Slots,
             clientList' = [clientList EXCEPT ![i].hasJoined = TRUE]
      PROVE  /\ clientList' \in [Slots -> Entry]
             /\ \A j \in Slots : Occupied(j)' => clientList'[j].who \in Conn
  <2>0. clientList[i] \in Entry
    BY DEF TypeOK
  <2>1. [clientList[i] EXCEPT !.hasJoined = TRUE] \in Entry
    BY <2>0 DEF Entry
  <2>2. clientList' \in [Slots -> Entry]
    BY <1>2, <2>1 DEF TypeOK
  <2>3. \A j \in Slots : Occupied(j)' => clientList'[j].who \in Conn
    BY <1>2 DEF TypeOK, Occupied, Entry
  <2>4. QED
    BY <2>2, <2>3
<1>3. QED
  BY <1>1, <1>2 DEF setHasJoined

LEMMA TypeInit == Init => TypeOK
<1> SUFFICES ASSUME Init PROVE TypeOK
  OBVIOUS
<1>1. <<>> \in Seq(Item) /\ Len(<<>>) = 0
  OBVIOUS
<1>2. <<>> \in Seq(Pdu)
  OBVIOUS
<1>3. 1 \in Slots
  BY ServerAssumption
<1>4. \A i \in Slots : ~Occupied(i)
  BY DEF Init, Occupied, FreeEntry
<1>5. clientList \in [Slots -> Entry]
  BY FreeEntryType DEF Init
<1>6. cl \in [Conn -> Client]
  BY ServerAssumption DEF Init, Client, Identity
<1>7. /\ listener \in {"check", "accept"}
      /\ pc \in [Conn -> Pcs]
      /\ ident \in [Conn -> Identity]
      /\ found \in [Conn -> Slots]
      /\ roster \in [Conn -> SUBSET Conn]
  BY <1>3 DEF Init, Pcs, Identity
<1>8. files \in [Fds -> Conn \cup {"stdin", "closed"}]
  BY DEF Init
<1>9. /\ messageQueue \in Seq(Item)
      /\ sending \in Seq(Item) /\ Len(sending) <= 1
      /\ inbox \in [Conn -> Seq(Pdu)]
      /\ nmess \in [Conn -> Nat]
      /\ njoin \in [Conn -> Nat]
  BY <1>1, <1>2 DEF Init
<1>10. QED
  BY <1>4, <1>5, <1>6, <1>7, <1>8, <1>9 DEF TypeOK

LEMMA ReceivesKeepType ==
  ASSUME TypeOK, NEW t \in Conn,
         RecvQUIT(t) \/ RecvBad(t) \/ RecvEOF(t) \/ BadFd(t) \/ checkUserName(t)
  PROVE  TypeOK'
<1>1. pc' \in [Conn -> Pcs]
  BY DEF TypeOK, RecvQUIT, RecvBad, RecvEOF, BadFd, checkUserName, Goto, Pcs
<1>2. UNCHANGED <<listener, thread, clientList, files, queue, inbox, count>>
  BY DEF RecvQUIT, RecvBad, RecvEOF, BadFd, checkUserName
<1>3. QED
  BY <1>1, <1>2 DEF TypeOK, Occupied, thread, queue, count

(* Every action keeps the types.                                           *)
LEMMA TypeStep == TypeOK /\ [Next]_vars => TypeOK'
<1> SUFFICES ASSUME TypeOK, [Next]_vars PROVE TypeOK'
  OBVIOUS
<1> USE DEF thread, queue, count, Goto
<1>1. CASE SizeCheck
  BY <1>1 DEF TypeOK, SizeCheck, Occupied
<1>2. ASSUME NEW t \in Conn, Accept(t) PROVE TypeOK'
  <2>1. pc' \in [Conn -> Pcs]
    BY <1>2 DEF TypeOK, Accept, NewClient, Pcs
  <2>2. cl' \in [Conn -> Client]
    BY <1>2, ServerAssumption DEF TypeOK, Accept, NewClient, Client, Identity
  <2>3. files' \in [Fds -> Conn \cup {"stdin", "closed"}]
    BY <1>2 DEF TypeOK, Accept, NewClient
  <2>4. QED
    BY <1>2, <2>1, <2>2, <2>3 DEF TypeOK, Accept, NewClient, Occupied
<1>3. ASSUME NEW t \in Conn, AcceptFails(t) PROVE TypeOK'
  <2>1. pc' \in [Conn -> Pcs]
    BY <1>3 DEF TypeOK, AcceptFails, NewClient, Pcs
  <2>2. cl' \in [Conn -> Client]
    BY <1>3, ServerAssumption DEF TypeOK, AcceptFails, NewClient, Client, Identity
  <2>3. files' \in [Fds -> Conn \cup {"stdin", "closed"}]
    BY <1>3 DEF TypeOK, AcceptFails, NewClient
  <2>4. QED
    BY <1>3, <2>1, <2>2, <2>3 DEF TypeOK, AcceptFails, NewClient, Occupied
<1>4. ASSUME NEW t \in Conn, NEW n \in Names, RecvJOIN(t, n) PROVE TypeOK'
  <2>1. pc' \in [Conn -> Pcs]
    BY <1>4 DEF TypeOK, RecvJOIN, Pcs
  <2>2. ident' \in [Conn -> Identity]
    BY <1>4 DEF TypeOK, RecvJOIN, Identity
  <2>3. found' \in [Conn -> Slots]
    BY <1>4 DEF TypeOK, RecvJOIN
  <2>4. njoin' \in [Conn -> Nat]
    BY <1>4 DEF TypeOK, RecvJOIN
  <2>5. QED
    BY <1>4, <2>1, <2>2, <2>3, <2>4 DEF TypeOK, RecvJOIN, Occupied
<1>5. ASSUME NEW t \in Conn, clientHasJoined(t) PROVE TypeOK'
  <2>1. pc' \in [Conn -> Pcs]
    BY <1>5 DEF TypeOK, clientHasJoined, Pcs
  <2>2. found' \in [Conn -> Slots]
    BY <1>5, ServerAssumption DEF TypeOK, clientHasJoined
  <2>3. QED
    BY <1>5, <2>1, <2>2 DEF TypeOK, clientHasJoined, Occupied
<1>6. ASSUME NEW t \in Conn, RecvMESS(t) PROVE TypeOK'
  <2>1. pc' \in [Conn -> Pcs]
    BY <1>6 DEF TypeOK, RecvMESS, Pcs
  <2>2. nmess' = [nmess EXCEPT ![t] = @ + 1] \/ UNCHANGED nmess
    BY <1>6 DEF RecvMESS
  <2>3. nmess' \in [Conn -> Nat]
    <3>1. nmess \in [Conn -> Nat] /\ nmess[t] + 1 \in Nat
      BY DEF TypeOK
    <3>2. QED
      BY <2>2, <3>1
  <2>4. QED
    BY <1>6, <2>1, <2>3 DEF TypeOK, RecvMESS, Occupied
<1>7. ASSUME NEW t \in Conn, RefuseName(t) PROVE TypeOK'
  <2>1. pc' \in [Conn -> Pcs]
    BY <1>7 DEF TypeOK, RefuseName, Pcs
  <2>2. ident' \in [Conn -> Identity]
    BY <1>7 DEF TypeOK, RefuseName, Identity
  <2>3. <<[op |-> "TAKEN"], [op |-> "QUIT"]>> \in Seq(Pdu)
    BY DEF Pdu
  <2>4. \A k \in Conn :
          inbox[k] \o <<[op |-> "TAKEN"], [op |-> "QUIT"]>> \in Seq(Pdu)
    BY <2>3, ConcatProperties DEF TypeOK
  <2>5. inbox' \in [Conn -> Seq(Pdu)]
    BY <1>7, <2>4 DEF TypeOK, RefuseName
  <2>6. QED
    BY <1>7, <2>1, <2>2, <2>5 DEF TypeOK, RefuseName, Occupied
<1>8. ASSUME NEW t \in Conn, AnnounceJoin(t) PROVE TypeOK'
  <2>1. pc' \in [Conn -> Pcs]
    BY <1>8 DEF TypeOK, AnnounceJoin, Pcs
  <2>2. ident' \in [Conn -> Identity]
    BY <1>8 DEF TypeOK, AnnounceJoin, Identity
  <2>3. cl' \in [Conn -> Client]
    BY <1>8 DEF TypeOK, AnnounceJoin, Client
  <2>4. [op |-> "PJOIN", who |-> t] \in Pdu
    BY <1>8 DEF Pdu
  <2>5. inbox' \in [Conn -> Seq(Pdu)]
    BY <1>8, SendMessageType, <2>4 DEF AnnounceJoin
  <2>6. QED
    BY <1>8, <2>1, <2>2, <2>3, <2>4, <2>5 DEF TypeOK, AnnounceJoin, Occupied
<1>9. ASSUME NEW t \in Conn, AppendClient(t) PROVE TypeOK'
  <2>1. pc' \in [Conn -> Pcs]
    BY <1>9 DEF TypeOK, AppendClient, Pcs
  <2>2. /\ cl' \in [Conn -> Client]
        /\ clientList' \in [Slots -> Entry]
        /\ \A i \in Slots : Occupied(i)' => clientList'[i].who \in Conn
    BY <1>9, AppendType DEF AppendClient
  <2>3. QED
    BY <1>9, <2>1, <2>2 DEF TypeOK, AppendClient, Occupied
<1>10. ASSUME NEW t \in Conn, MarkJoined(t) PROVE TypeOK'
  <2>1. pc' \in [Conn -> Pcs]
    BY <1>10 DEF TypeOK, MarkJoined, Pcs
  <2>2. /\ clientList' \in [Slots -> Entry]
        /\ \A i \in Slots : Occupied(i)' => clientList'[i].who \in Conn
    BY <1>10, SetHasJoinedType DEF MarkJoined
  <2>3. QED
    BY <1>10, <2>1, <2>2 DEF TypeOK, MarkJoined, Occupied
<1>11. ASSUME NEW t \in Conn, ComposeParticipants(t) PROVE TypeOK'
  <2>1. pc' \in [Conn -> Pcs]
    BY <1>11 DEF TypeOK, ComposeParticipants, Pcs
  <2>2. {clientList[i].who : i \in {j \in Slots : Occupied(j)}} \in SUBSET Conn
    BY <1>11 DEF TypeOK
  <2>3. roster' \in [Conn -> SUBSET Conn]
    BY <1>11, <2>2 DEF TypeOK, ComposeParticipants
  <2>4. QED
    BY <1>11, <2>1, <2>2, <2>3 DEF TypeOK, ComposeParticipants, Occupied
<1>12. ASSUME NEW t \in Conn, sendParticipants(t) PROVE TypeOK'
  <2>1. pc' \in [Conn -> Pcs]
    BY <1>12 DEF TypeOK, sendParticipants, Pcs
  <2>2. roster' \in [Conn -> SUBSET Conn]
    BY <1>12 DEF TypeOK, sendParticipants
  <2>3. [op |-> "PARTICIPANTS", roster |-> roster[t]] \in Pdu
    BY <1>12 DEF TypeOK, Pdu
  <2>4. inbox' \in [Conn -> Seq(Pdu)]
    BY <1>12, SendToType, <2>3 DEF sendParticipants
  <2>5. QED
    BY <1>12, <2>1, <2>2, <2>3, <2>4 DEF TypeOK, sendParticipants, Occupied
<1>13. ASSUME NEW t \in Conn, handleMESS(t) PROVE TypeOK'
  <2>1. pc' \in [Conn -> Pcs]
    BY <1>13 DEF TypeOK, handleMESS, Pcs
  <2>2. [op |-> "MESS", who |-> t, nr |-> nmess[t]] \in Item
    BY <1>13 DEF TypeOK, Item
  <2>3. messageQueue' \in Seq(Item) /\ sending' \in Seq(Item) /\ Len(sending') <= 1
    BY <1>13, QueueType, <2>2 DEF handleMESS
  <2>4. QED
    BY <1>13, <2>1, <2>2, <2>3 DEF TypeOK, handleMESS, Occupied
<1>14. ASSUME NEW t \in Conn, sendQUIT(t) PROVE TypeOK'
  <2>1. pc' \in [Conn -> Pcs]
    BY <1>14 DEF TypeOK, sendQUIT, Pcs
  <2>2. [op |-> "QUIT"] \in Pdu
    BY <1>14 DEF Pdu
  <2>3. inbox' \in [Conn -> Seq(Pdu)]
    BY <1>14, SendToType, <2>2 DEF sendQUIT
  <2>4. QED
    BY <1>14, <2>1, <2>2, <2>3 DEF TypeOK, sendQUIT, Occupied
<1>15. ASSUME NEW t \in Conn, handleQUIT(t) PROVE TypeOK'
  <2>1. pc' \in [Conn -> Pcs]
    BY <1>15 DEF TypeOK, handleQUIT, Pcs
  <2>2. /\ clientList' \in [Slots -> Entry]
        /\ \A i \in Slots : Occupied(i)' => clientList'[i].who \in Conn
        /\ files' \in [Fds -> Conn \cup {"stdin", "closed"}]
    BY <1>15, RemoveType DEF handleQUIT
  <2>3. QED
    BY <1>15, <2>1, <2>2 DEF TypeOK, handleQUIT, Occupied
<1>16. ASSUME NEW t \in Conn, QueueLeave(t) PROVE TypeOK'
  <2>1. pc' \in [Conn -> Pcs]
    BY <1>16 DEF TypeOK, QueueLeave, Pcs
  <2>2. [op |-> "PLEAVE", who |-> t, nr |-> nmess[t] + 1] \in Item
    BY <1>16 DEF TypeOK, Item
  <2>3. messageQueue' \in Seq(Item) /\ sending' \in Seq(Item) /\ Len(sending') <= 1
    BY <1>16, QueueType, <2>2 DEF QueueLeave
  <2>4. QED
    BY <1>16, <2>1, <2>2, <2>3 DEF TypeOK, QueueLeave, Occupied
<1>17. ASSUME NEW t \in Conn, killConnection(t) PROVE TypeOK'
  <2>1. pc' \in [Conn -> Pcs]
    BY <1>17 DEF TypeOK, killConnection, Pcs
  <2>2. /\ clientList' \in [Slots -> Entry]
        /\ \A i \in Slots : Occupied(i)' => clientList'[i].who \in Conn
        /\ files' \in [Fds -> Conn \cup {"stdin", "closed"}]
    BY <1>17, RemoveType DEF killConnection
  <2>3. QED
    BY <1>17, <2>1, <2>2 DEF TypeOK, killConnection, Occupied
<1>18. CASE msgQueue_pop
  <2>1. Head(messageQueue) \in Item /\ Tail(messageQueue) \in Seq(Item)
    BY <1>18, HeadTailProperties DEF TypeOK, msgQueue_pop
  <2>2. sending' \in Seq(Item) /\ Len(sending') <= 1
    BY <1>18, <2>1 DEF msgQueue_pop
  <2>3. QED
    BY <1>18, <2>1, <2>2 DEF TypeOK, msgQueue_pop, Occupied
<1>19. CASE SendItem
  <2>1. sending[1] \in Pdu
    BY <1>19 DEF TypeOK, SendItem, Pdu
  <2>2. inbox' \in [Conn -> Seq(Pdu)]
    BY <1>19, SendMessageType, <2>1 DEF SendItem
  <2>3. <<>> \in Seq(Item) /\ Len(<<>>) = 0
    OBVIOUS
  <2>4. QED
    BY <1>19, <2>1, <2>2, <2>3 DEF TypeOK, SendItem, Occupied
<1>20. CASE UNCHANGED vars
  BY <1>20 DEF TypeOK, Occupied, vars
<1>21. QED
  BY <1>1, <1>2, <1>3, <1>4, <1>5, <1>6, <1>7, <1>8, <1>9, <1>10, <1>11, <1>12, <1>13, <1>14, <1>15, <1>16, <1>17, <1>18, <1>19, <1>20, ReceivesKeepType
     DEF Next, Arrives, Handles, Sender, AtRest

(* Whatever the connections do and however the threads interleave, every   *)
(* variable of the server keeps its type, and the owner of every occupied  *)
(* slot is a connection.                                                   *)
THEOREM TypeCorrect == Spec => []TypeOK
<1>1. TypeOK /\ [Next]_vars => TypeOK'
  BY TypeStep
<1>2. QED
  BY TypeInit, <1>1, PTL DEF Spec

-----------------------------------------------------------------------------
(***************************************************************************)
(* SlotOwnership.  It is inductive once a thread is known to have set its  *)
(* own flag by the time it appends itself.                                 *)
(***************************************************************************)
FlagSetBeforeAppend == \A t \in Conn : pc[t] = "append" => cl[t].hasJoined

OwnershipInv == TypeOK /\ SlotOwnership /\ FlagSetBeforeAppend

(* The slot with a live thread's number is the thread's own.               *)
LEMMA SlotOfThread ==
  ASSUME TypeOK, SlotOwnership, NEW t \in Conn, Live(t), cl[t].idNum # 0
  PROVE  /\ cl[t].idNum \in Slots
         /\ clientList[cl[t].idNum].who = t
         /\ \A i \in Slots : clientList[i].idNum = cl[t].idNum <=> i = cl[t].idNum
<1>1. cl[t].idNum \in Slots
  BY DEF TypeOK, Client
<1>2. Occupied(cl[t].idNum) /\ clientList[cl[t].idNum].who = t
  BY DEF SlotOwnership, OwnerKnowsSlot
<1>3. \A i \in Slots : clientList[i].idNum # 0 => clientList[i].idNum = i
  BY DEF SlotOwnership, SlotKnowsOwner, Owns, Occupied
<1>4. QED
  BY <1>1, <1>2, <1>3 DEF Occupied

(* A step that leaves the structs and the table alone, and ends no thread. *)
LEMMA ControlStep ==
  ASSUME TypeOK, SlotOwnership,
         UNCHANGED <<cl, clientList>>,
         \A t \in Conn : Live(t)' <=> Live(t),
         \A t \in Conn : Joining(t)' => cl[t].idNum = 0,
         \A t \in Conn : pc'[t] = "hasJoined" /\ cl[t].idNum # 0 => found'[t] = cl[t].idNum
  PROVE  SlotOwnership'
<1>1. SlotKnowsOwner'
  <2> SUFFICES ASSUME NEW i \in Slots, Occupied(i)',
                      NEW u, u = clientList'[i].who
               PROVE  Owns(u, i)'
    BY DEF SlotKnowsOwner
  <2>1. Occupied(i) /\ u = clientList[i].who /\ u \in Conn
    BY DEF Occupied, TypeOK
  <2>2. Owns(u, i)
    BY <2>1 DEF SlotOwnership, SlotKnowsOwner
  <2>3. Live(u)'
    BY <2>1, <2>2 DEF Owns
  <2>4. QED
    BY <2>2, <2>3 DEF Owns
<1>2. FreeSlotIsClean'
  BY DEF SlotOwnership, FreeSlotIsClean, Occupied
<1>3. OwnerKnowsSlot'
  BY DEF SlotOwnership, OwnerKnowsSlot, Occupied, Live
<1>4. NoSlotBeforeAppend'
  BY DEF NoSlotBeforeAppend, Joining
<1>5. QED
  BY <1>1, <1>2, <1>3, <1>4 DEF SlotOwnership

(* A live thread ends: the slots it owned, if any, have been cleared.      *)
LEMMA EndStep ==
  ASSUME TypeOK, SlotOwnership, NEW t \in Conn,
         NEW to \in {"leave", "exited"}, pc' = [pc EXCEPT ![t] = to],
         UNCHANGED <<cl, found>>,
         \A i \in Slots : Occupied(i)' =>
           /\ Occupied(i) /\ clientList'[i] = clientList[i]
           /\ clientList[i].who # t,
         \A i \in Slots : Occupied(i) /\ clientList[i].who # t =>
           clientList'[i] = clientList[i],
         FreeSlotIsClean'
  PROVE  SlotOwnership'
<1>1. ~Live(t)' /\ ~Joining(t)' /\ pc'[t] # "hasJoined"
  BY DEF TypeOK, Live, Joining
<1>2. \A u \in Conn \ {t} : pc'[u] = pc[u]
  BY DEF TypeOK
<1>3. SlotKnowsOwner'
  <2> SUFFICES ASSUME NEW i \in Slots, Occupied(i)',
                      NEW u, u = clientList'[i].who
               PROVE  Owns(u, i)'
    BY DEF SlotKnowsOwner
  <2>1. Occupied(i) /\ clientList'[i] = clientList[i] /\ u \in Conn \ {t}
    BY DEF TypeOK
  <2>2. Owns(u, i)
    BY <2>1 DEF SlotOwnership, SlotKnowsOwner
  <2>3. QED
    BY <2>1, <2>2, <1>2 DEF Owns, Live
<1>4. OwnerKnowsSlot'
  <2> SUFFICES ASSUME NEW u \in Conn, Live(u)', cl[u].idNum # 0
               PROVE  /\ clientList'[cl[u].idNum].idNum # 0
                      /\ clientList'[cl[u].idNum].who = u
    BY DEF OwnerKnowsSlot, Occupied
  <2>1. u # t /\ Live(u)
    BY <1>1, <1>2 DEF Live
  <2>2. cl[u].idNum \in Slots /\ clientList[cl[u].idNum].who = u
        /\ clientList[cl[u].idNum].idNum = cl[u].idNum
    BY <2>1, SlotOfThread
  <2>3. clientList'[cl[u].idNum] = clientList[cl[u].idNum]
    BY <2>1, <2>2 DEF Occupied
  <2>4. QED
    BY <2>2, <2>3
<1>5. NoSlotBeforeAppend'
  BY <1>1, <1>2 DEF SlotOwnership, NoSlotBeforeAppend, Joining
<1>6. QED
  BY <1>3, <1>4, <1>5 DEF SlotOwnership

(* remove_Client by a thread about to end.                                 *)
LEMMA RemoveStep ==
  ASSUME TypeOK, SlotOwnership, NEW t \in Conn, Live(t),
         remove_Client(cl[t].idNum),
         NEW to \in {"leave", "exited"}, pc' = [pc EXCEPT ![t] = to],
         UNCHANGED <<cl, found>>
  PROVE  SlotOwnership'
<1>1. \A i \in Slots : Occupied(i) /\ clientList[i].who = t =>
        clientList[i].idNum = cl[t].idNum /\ cl[t].idNum # 0
  BY DEF SlotOwnership, SlotKnowsOwner, Owns, Occupied
<1>2. CASE NoneWithId(cl[t].idNum) /\ UNCHANGED clientList
  <2>1. \A i \in Slots : Occupied(i) => clientList[i].who # t
    BY <1>1, <1>2 DEF NoneWithId
  <2>2. FreeSlotIsClean'
    BY <1>2 DEF SlotOwnership, FreeSlotIsClean, Occupied
  <2>3. \A i \in Slots : Occupied(i)' <=> Occupied(i)
    BY <1>2 DEF Occupied
  <2>4. QED
    BY <1>2, <2>1, <2>2, <2>3, EndStep
<1>3. ASSUME NEW i \in Slots, FirstWithId(i, cl[t].idNum),
             clientList' = [clientList EXCEPT ![i] = FreeEntry]
      PROVE  SlotOwnership'
  <2>1. \A j \in Slots \ {i} : clientList'[j] = clientList[j]
    BY <1>3 DEF TypeOK
  <2>2. clientList'[i] = FreeEntry
    BY <1>3 DEF TypeOK
  <2>3. \A j \in Slots : Occupied(j)' => j # i /\ Occupied(j)
    BY <2>1, <2>2 DEF Occupied, FreeEntry
  <2>4. \A j \in Slots : Occupied(j) /\ clientList[j].who = t => j = i
    BY <1>1, <1>3, SlotOfThread DEF FirstWithId
  <2>5. Occupied(i) => clientList[i].who = t
    BY <1>3, SlotOfThread DEF FirstWithId, Occupied
  <2>6. FreeSlotIsClean'
    BY <2>1, <2>2 DEF SlotOwnership, FreeSlotIsClean, FreeEntry, Occupied
  <2>7. \A j \in Slots : Occupied(j)' =>
          /\ Occupied(j) /\ clientList'[j] = clientList[j]
          /\ clientList[j].who # t
    BY <2>1, <2>3, <2>4
  <2>8. \A j \in Slots : Occupied(j) /\ clientList[j].who # t =>
          clientList'[j] = clientList[j]
    BY <2>1, <2>5
  <2>9. QED
    BY <2>6, <2>7, <2>8, EndStep
<1>4. QED
  BY <1>2, <1>3 DEF remove_Client, Cleared

(* A thread without a slot changes its own struct, and goes on without     *)
(* one: a new connection, or the broadcast of the PJOIN.                   *)
LEMMA OutsiderStep ==
  ASSUME TypeOK, SlotOwnership, NEW t \in Conn,
         ~Live(t) \/ cl[t].idNum = 0,
         cl'[t].idNum = 0,
         \A u \in Conn \ {t} : cl'[u] = cl[u] /\ pc'[u] = pc[u],
         UNCHANGED <<clientList, found>>
  PROVE  SlotOwnership'
<1>1. SlotKnowsOwner'
  <2> SUFFICES ASSUME NEW i \in Slots, Occupied(i)',
                      NEW u, u = clientList'[i].who
               PROVE  Owns(u, i)'
    BY DEF SlotKnowsOwner
  <2>1. Occupied(i) /\ u = clientList[i].who /\ u \in Conn
    BY DEF TypeOK, Occupied
  <2>2. Owns(u, i)
    BY <2>1 DEF SlotOwnership, SlotKnowsOwner
  <2>3. u # t
    BY <2>1, <2>2 DEF Owns
  <2>4. QED
    BY <2>1, <2>2, <2>3 DEF Owns, Live
<1>2. FreeSlotIsClean'
  BY DEF SlotOwnership, FreeSlotIsClean, Occupied
<1>3. OwnerKnowsSlot'
  BY DEF SlotOwnership, OwnerKnowsSlot, Occupied, Live
<1>4. NoSlotBeforeAppend'
  BY DEF SlotOwnership, NoSlotBeforeAppend, Joining
<1>5. QED
  BY <1>1, <1>2, <1>3, <1>4 DEF SlotOwnership

LEMMA AppendStep ==
  ASSUME OwnershipInv, NEW t \in Conn, AppendClient(t)
  PROVE  SlotOwnership'
<1> USE DEF OwnershipInv
<1>1. /\ pc[t] = "append" /\ pc' = [pc EXCEPT ![t] = "setHasJoined"]
      /\ found' = found
      /\ cl[t].idNum = 0 /\ cl[t].hasJoined
  BY DEF AppendClient, Goto, thread, FlagSetBeforeAppend, SlotOwnership,
         NoSlotBeforeAppend, Joining
<1>2. CASE UNCHANGED <<cl, clientList>>
  BY <1>1, <1>2, ControlStep DEF TypeOK, Live, Joining, SlotOwnership, NoSlotBeforeAppend
<1>3. ASSUME NEW i \in Slots, FirstWithId(i, 0),
             cl' = [cl EXCEPT ![t].idNum = i],
             clientList' = [clientList EXCEPT ![i] =
               [idNum |-> i, name |-> cl[t].name, hasJoined |-> cl[t].hasJoined,
                fd |-> cl[t].fd, who |-> t]]
      PROVE  SlotOwnership'
  <2>1. \A j \in Slots \ {i} : clientList'[j] = clientList[j]
    BY <1>3 DEF TypeOK
  <2>2. clientList'[i] = [idNum |-> i, name |-> cl[t].name, hasJoined |-> cl[t].hasJoined,
                          fd |-> cl[t].fd, who |-> t]
    BY <1>3 DEF TypeOK
  <2>3. /\ \A u \in Conn \ {t} : cl'[u] = cl[u] /\ pc'[u] = pc[u]
        /\ pc'[t] = "setHasJoined"
    BY <1>1, <1>3 DEF TypeOK
  <2>4. /\ cl'[t].idNum = i /\ cl'[t].fd = cl[t].fd /\ cl'[t].name = cl[t].name
    BY <1>3 DEF TypeOK, Client
  <2>5. SlotKnowsOwner'
    <3> SUFFICES ASSUME NEW j \in Slots, Occupied(j)',
                        NEW u, u = clientList'[j].who
                 PROVE  Owns(u, j)'
      BY DEF SlotKnowsOwner
    <3>1. CASE j = i
      BY <3>1, <1>1, <2>2, <2>3, <2>4 DEF Owns, Live
    <3>2. CASE j # i
      <4>1. Occupied(j) /\ u = clientList[j].who /\ u \in Conn
        BY <3>2, <2>1 DEF TypeOK, Occupied
      <4>2. Owns(u, j)
        BY <4>1 DEF SlotOwnership, SlotKnowsOwner
      <4>3. u # t
        BY <4>1, <4>2, <1>1 DEF Owns
      <4>4. QED
        BY <3>2, <4>1, <4>2, <4>3, <2>1, <2>3 DEF Owns, Live
    <3>3. QED
      BY <3>1, <3>2
  <2>6. FreeSlotIsClean'
    BY <2>1, <2>2 DEF SlotOwnership, FreeSlotIsClean, Occupied
  <2>7. OwnerKnowsSlot'
    <3> SUFFICES ASSUME NEW u \in Conn, Live(u)', cl'[u].idNum # 0
                 PROVE  /\ clientList'[cl'[u].idNum].idNum # 0
                        /\ clientList'[cl'[u].idNum].who = u
      BY DEF OwnerKnowsSlot, Occupied
    <3>1. CASE u = t
      BY <3>1, <2>2, <2>4
    <3>2. CASE u # t
      <4>1. Live(u) /\ cl[u].idNum # 0 /\ cl'[u] = cl[u]
        BY <3>2, <2>3 DEF Live
      <4>2. cl[u].idNum \in Slots /\ clientList[cl[u].idNum].who = u
            /\ clientList[cl[u].idNum].idNum = cl[u].idNum
        BY <4>1, SlotOfThread
      <4>3. cl[u].idNum # i
        BY <4>1, <4>2, <1>3 DEF FirstWithId
      <4>4. QED
        BY <4>1, <4>2, <4>3, <2>1
    <3>3. QED
      BY <3>1, <3>2
  <2>8. NoSlotBeforeAppend'
    BY <1>1, <2>3 DEF SlotOwnership, NoSlotBeforeAppend, Joining
  <2>9. QED
    BY <2>5, <2>6, <2>7, <2>8 DEF SlotOwnership
<1>4. QED
  BY <1>2, <1>3 DEF AppendClient, append_Clientlist

LEMMA MarkStep ==
  ASSUME TypeOK, SlotOwnership, NEW t \in Conn, MarkJoined(t)
  PROVE  SlotOwnership'
<1>1. /\ pc[t] = "setHasJoined" /\ pc' = [pc EXCEPT ![t] = "participants"]
      /\ cl' = cl /\ found' = found
  BY DEF MarkJoined, Goto, thread
<1>2. /\ \A u \in Conn : Live(u)' <=> Live(u)
      /\ \A u \in Conn : Joining(u)' => Joining(u)
      /\ \A u \in Conn : pc'[u] = "hasJoined" => pc[u] = "hasJoined"
  BY <1>1 DEF TypeOK, Live, Joining
<1>3. NoSlotBeforeAppend'
  BY <1>1, <1>2 DEF SlotOwnership, NoSlotBeforeAppend
<1>4. CASE UNCHANGED clientList
  BY <1>1, <1>2, <1>4, ControlStep DEF SlotOwnership, NoSlotBeforeAppend
<1>5. ASSUME NEW i \in Slots, clientList' = [clientList EXCEPT ![i].hasJoined = TRUE]
      PROVE  SlotOwnership'
  <2>1. \A j \in Slots :
          /\ clientList'[j].idNum = clientList[j].idNum
          /\ clientList'[j].who = clientList[j].who
          /\ clientList'[j].fd = clientList[j].fd
          /\ clientList'[j].name = clientList[j].name
          /\ clientList[j].hasJoined => clientList'[j].hasJoined
    BY <1>5 DEF TypeOK, Entry
  <2>2. SlotKnowsOwner'
    <3> SUFFICES ASSUME NEW j \in Slots, Occupied(j)',
                        NEW u, u = clientList'[j].who
                 PROVE  Owns(u, j)'
      BY DEF SlotKnowsOwner
    <3>1. Occupied(j) /\ u = clientList[j].who /\ u \in Conn
      BY <2>1 DEF TypeOK, Occupied
    <3>2. Owns(u, j)
      BY <3>1 DEF SlotOwnership, SlotKnowsOwner
    <3>3. Live(u)'
      BY <3>1, <3>2, <1>2 DEF Owns
    <3>4. QED
      BY <3>2, <3>3, <2>1, <1>1 DEF Owns
  <2>3. FreeSlotIsClean'
    BY <2>1 DEF SlotOwnership, FreeSlotIsClean, Occupied
  <2>4. OwnerKnowsSlot'
    <3> SUFFICES ASSUME NEW u \in Conn, Live(u)', cl[u].idNum # 0
                 PROVE  /\ clientList'[cl[u].idNum].idNum # 0
                        /\ clientList'[cl[u].idNum].who = u
      BY <1>1 DEF OwnerKnowsSlot, Occupied
    <3>1. Live(u)
      BY <1>2
    <3>2. cl[u].idNum \in Slots /\ clientList[cl[u].idNum].who = u
          /\ clientList[cl[u].idNum].idNum = cl[u].idNum
      BY <3>1, SlotOfThread
    <3>3. QED
      BY <3>2, <2>1
  <2>5. QED
    BY <1>3, <2>2, <2>3, <2>4 DEF SlotOwnership
<1>6. QED
  BY <1>4, <1>5 DEF MarkJoined, setHasJoined

(* RecvJOIN and clientHasJoined: the search finds the thread's own slot if *)
(* it has one, and the flag there is set.                                  *)
LEMMA JoinCheckStep ==
  ASSUME TypeOK, SlotOwnership, NEW t \in Conn,
         (\E n \in Names : RecvJOIN(t, n)) \/ clientHasJoined(t)
  PROVE  SlotOwnership'
<1>1. UNCHANGED <<cl, clientList>>
  BY DEF RecvJOIN, clientHasJoined
<1>2. /\ \A u \in Conn : Live(u)' <=> Live(u)
      /\ \A u \in Conn \ {t} : pc'[u] = pc[u] /\ found'[u] = found[u]
      /\ Live(t)
  BY DEF RecvJOIN, clientHasJoined, Goto, TypeOK, Live
<1>3. CASE \E n \in Names : RecvJOIN(t, n)
  <2>1. /\ Joining(t)' => cl[t].idNum = 0
        /\ pc'[t] = "hasJoined" /\ cl[t].idNum # 0 => found'[t] = cl[t].idNum
    <3>1. CASE pc' = [pc EXCEPT ![t] = "checkName"] /\ NoneWithId(cl[t].idNum)
      <4>1. cl[t].idNum = 0
        BY <3>1, <1>2, SlotOfThread DEF NoneWithId
      <4>2. QED
        BY <3>1, <4>1 DEF TypeOK
    <3>2. ASSUME NEW i \in Slots, FirstWithId(i, cl[t].idNum),
                 found' = [found EXCEPT ![t] = i],
                 pc' = [pc EXCEPT ![t] = "hasJoined"]
          PROVE  /\ Joining(t)' => cl[t].idNum = 0
                 /\ pc'[t] = "hasJoined" /\ cl[t].idNum # 0 => found'[t] = cl[t].idNum
      BY <3>2, <1>2, SlotOfThread DEF TypeOK, Joining, FirstWithId
    <3>3. QED
      BY <1>3, <3>1, <3>2 DEF RecvJOIN, Goto
  <2>2. QED
    BY <1>1, <1>2, <2>1, ControlStep DEF SlotOwnership, NoSlotBeforeAppend, Joining
<1>4. CASE clientHasJoined(t)
  <2>1. pc'[t] # "hasJoined"
    BY <1>4 DEF clientHasJoined, Goto, TypeOK
  <2>2. Joining(t)' => cl[t].idNum = 0
    <3> SUFFICES ASSUME cl[t].idNum # 0 PROVE ~Joining(t)'
      OBVIOUS
    <3>1. pc[t] = "hasJoined" /\ found[t] = cl[t].idNum
      BY <1>4 DEF clientHasJoined, Goto, SlotOwnership, NoSlotBeforeAppend
    <3>2. clientList[found[t]].hasJoined
      BY <3>1, <1>2, SlotOfThread DEF SlotOwnership, SlotKnowsOwner, Owns, Occupied
    <3>3. QED
      BY <1>4, <3>2 DEF clientHasJoined, Goto, TypeOK, Joining
  <2>3. QED
    BY <1>1, <1>2, <2>1, <2>2, ControlStep DEF SlotOwnership, NoSlotBeforeAppend, Joining
<1>5. QED
  BY <1>3, <1>4

(* The thread actions that move on without touching a struct or the table. *)
Moves(t) ==
  \/ RecvMESS(t) \/ RecvQUIT(t) \/ RecvBad(t) \/ RecvEOF(t) \/ BadFd(t)
  \/ checkUserName(t) \/ ComposeParticipants(t) \/ sendParticipants(t)
  \/ handleMESS(t) \/ sendQUIT(t) \/ QueueLeave(t)

LEMMA MoveStep ==
  ASSUME TypeOK, SlotOwnership, NEW t \in Conn, Moves(t)
  PROVE  SlotOwnership'
<1>1. UNCHANGED <<cl, clientList, found>>
  BY DEF Moves, RecvMESS, RecvQUIT, RecvBad, RecvEOF, BadFd, checkUserName,
         ComposeParticipants, sendParticipants, handleMESS, sendQUIT, QueueLeave, thread
<1>2. /\ \A u \in Conn : Live(u)' <=> Live(u)
      /\ \A u \in Conn : Joining(u)' => Joining(u)
      /\ \A u \in Conn : pc'[u] = "hasJoined" => pc[u] = "hasJoined"
  BY DEF Moves, RecvMESS, RecvQUIT, RecvBad, RecvEOF, BadFd, checkUserName,
         ComposeParticipants, sendParticipants, handleMESS, sendQUIT, QueueLeave,
         Goto, TypeOK, Live, Joining
<1>3. QED
  BY <1>1, <1>2, ControlStep DEF SlotOwnership, NoSlotBeforeAppend

LEMMA FlagStep ==
  ASSUME TypeOK, FlagSetBeforeAppend, [Next]_vars
  PROVE  FlagSetBeforeAppend'
<1> SUFFICES ASSUME NEW u \in Conn, pc'[u] = "append" PROVE cl'[u].hasJoined
  BY DEF FlagSetBeforeAppend
<1>1. CASE pc[u] = "append" /\ cl'[u] = cl[u]
  BY <1>1 DEF FlagSetBeforeAppend
<1>2. CASE AnnounceJoin(u)
  BY <1>2 DEF AnnounceJoin, TypeOK, Client
<1>3. (pc[u] = "append" /\ cl'[u] = cl[u]) \/ AnnounceJoin(u)
  <2>1. CASE SizeCheck \/ Sender \/ AtRest \/ UNCHANGED vars
    BY <2>1 DEF SizeCheck, Sender, msgQueue_pop, SendItem, AtRest, vars, thread
  <2>2. ASSUME NEW t \in Conn, Accept(t) \/ AcceptFails(t)
        PROVE  pc[u] = "append" /\ cl'[u] = cl[u]
    BY <2>2 DEF Accept, AcceptFails, NewClient, Goto, TypeOK
  <2>3. ASSUME NEW t \in Conn, Arrives(t)
        PROVE  pc[u] = "append" /\ cl'[u] = cl[u]
    BY <2>3 DEF Arrives, RecvJOIN, RecvMESS, RecvQUIT, RecvBad, RecvEOF, Goto, thread, TypeOK
  <2>4. ASSUME NEW t \in Conn, AnnounceJoin(t)
        PROVE  (pc[u] = "append" /\ cl'[u] = cl[u]) \/ AnnounceJoin(u)
    BY <2>4 DEF AnnounceJoin, Goto, TypeOK
  <2>5. ASSUME NEW t \in Conn, AppendClient(t)
        PROVE  pc[u] = "append" /\ cl'[u] = cl[u]
    BY <2>5 DEF AppendClient, append_Clientlist, Goto, TypeOK
  <2>6. ASSUME NEW t \in Conn, Handles(t), ~AnnounceJoin(t), ~AppendClient(t)
        PROVE  pc[u] = "append" /\ cl'[u] = cl[u]
    BY <2>6 DEF Handles, BadFd, clientHasJoined, checkUserName, RefuseName, MarkJoined,
         ComposeParticipants, sendParticipants, handleMESS, sendQUIT, handleQUIT,
         QueueLeave, killConnection, Goto, thread, TypeOK
  <2>7. QED
    BY <2>1, <2>2, <2>3, <2>4, <2>5, <2>6 DEF Next
<1>4. QED
  BY <1>1, <1>2, <1>3

LEMMA OwnershipStep == OwnershipInv /\ [Next]_vars => OwnershipInv'
<1> SUFFICES ASSUME OwnershipInv, [Next]_vars PROVE SlotOwnership'
  BY TypeStep, FlagStep DEF OwnershipInv
<1> USE DEF OwnershipInv
<1>1. CASE SizeCheck \/ Sender \/ AtRest \/ UNCHANGED vars
  <2>1. UNCHANGED <<pc, cl, found, clientList>>
    BY <1>1 DEF SizeCheck, Sender, msgQueue_pop, SendItem, AtRest, vars, thread
  <2>2. QED
    BY <2>1, ControlStep DEF Live, Joining, SlotOwnership, NoSlotBeforeAppend
<1>2. ASSUME NEW t \in Conn, Accept(t) \/ AcceptFails(t) PROVE SlotOwnership'
  <2>1. /\ ~Live(t) /\ cl'[t].idNum = 0
        /\ \A u \in Conn \ {t} : cl'[u] = cl[u] /\ pc'[u] = pc[u]
        /\ UNCHANGED <<clientList, found>>
    BY <1>2 DEF Accept, AcceptFails, NewClient, Goto, TypeOK, Live
  <2>2. QED
    BY <2>1, OutsiderStep
<1>3. ASSUME NEW t \in Conn, (\E n \in Names : RecvJOIN(t, n)) \/ clientHasJoined(t)
      PROVE  SlotOwnership'
  BY <1>3, JoinCheckStep
<1>4. ASSUME NEW t \in Conn, Moves(t) PROVE SlotOwnership'
  BY <1>4, MoveStep
<1>5. ASSUME NEW t \in Conn, RefuseName(t) PROVE SlotOwnership'
  <2>1. /\ pc' = [pc EXCEPT ![t] = "exited"] /\ Live(t) /\ cl[t].idNum = 0
        /\ UNCHANGED <<cl, found, clientList>>
    BY <1>5 DEF RefuseName, Goto, Live, Joining, SlotOwnership, NoSlotBeforeAppend
  <2>2. \A i \in Slots : Occupied(i) => clientList[i].who # t
    BY <2>1 DEF SlotOwnership, SlotKnowsOwner, Owns, Occupied
  <2>3. FreeSlotIsClean' /\ \A i \in Slots : Occupied(i)' <=> Occupied(i)
    BY <2>1 DEF SlotOwnership, FreeSlotIsClean, Occupied
  <2>4. QED
    BY <2>1, <2>2, <2>3, EndStep
<1>6. ASSUME NEW t \in Conn, AnnounceJoin(t) PROVE SlotOwnership'
  <2>1. /\ cl[t].idNum = 0 /\ cl'[t].idNum = 0
        /\ \A u \in Conn \ {t} : cl'[u] = cl[u] /\ pc'[u] = pc[u]
        /\ UNCHANGED <<clientList, found>>
    BY <1>6 DEF AnnounceJoin, Goto, TypeOK, Client, SlotOwnership, NoSlotBeforeAppend, Joining
  <2>2. QED
    BY <2>1, OutsiderStep
<1>7. ASSUME NEW t \in Conn, AppendClient(t) PROVE SlotOwnership'
  BY <1>7, AppendStep
<1>8. ASSUME NEW t \in Conn, MarkJoined(t) PROVE SlotOwnership'
  BY <1>8, MarkStep
<1>9. ASSUME NEW t \in Conn, handleQUIT(t) \/ killConnection(t) PROVE SlotOwnership'
  <2>1. /\ Live(t) /\ remove_Client(cl[t].idNum) /\ UNCHANGED <<cl, found>>
        /\ pc' = [pc EXCEPT ![t] = "leave"] \/ pc' = [pc EXCEPT ![t] = "exited"]
    BY <1>9 DEF handleQUIT, killConnection, Goto, Live, thread
  <2>2. QED
    BY <2>1, RemoveStep
<1>10. QED
  BY <1>1, <1>2, <1>3, <1>4, <1>5, <1>6, <1>7, <1>8, <1>9 DEF Next, Arrives, Handles, Moves

LEMMA OwnershipInit == Init => OwnershipInv
<1> SUFFICES ASSUME Init PROVE SlotOwnership /\ FlagSetBeforeAppend
  BY TypeInit DEF OwnershipInv
<1>1. \A t \in Conn : pc[t] = "none" /\ cl[t].idNum = 0
  BY DEF Init
<1>2. \A i \in Slots : ~Occupied(i) /\ clientList[i].name = NoName /\ clientList[i].fd = 0
  BY DEF Init, Occupied, FreeEntry
<1>3. QED
  BY <1>1, <1>2 DEF SlotOwnership, SlotKnowsOwner, FreeSlotIsClean, OwnerKnowsSlot,
       NoSlotBeforeAppend, FlagSetBeforeAppend, Live, Joining

(* Slots, structs and sockets of the members agree in every reachable      *)
(* state, for tables of any size: append_Clientlist, remove_Client and the *)
(* check for a second JOIN never lose, share or leak a slot.               *)
THEOREM SlotsOwned == Spec => []SlotOwnership
<1>1. OwnershipInv /\ [Next]_vars => OwnershipInv'
  BY OwnershipStep
<1>2. OwnershipInv => SlotOwnership
  BY DEF OwnershipInv
<1>3. QED
  BY OwnershipInit, <1>1, <1>2, PTL DEF Spec

-----------------------------------------------------------------------------
(***************************************************************************)
(* Descriptors.  A connection is found at the descriptor of its client     *)
(* only, and no longer once a thread that had a slot has cleared it.       *)
(***************************************************************************)
OneDescriptor ==
  \A f \in Fds, t \in Conn : files[f] = t => cl[t].fd = f /\ pc[t] # "none"

ReleasedWithSlot ==
  \A t \in Conn : ~Live(t) /\ cl[t].idNum # 0 => \A f \in Fds : files[f] # t

Sockets == OwnSocket /\ OneDescriptor /\ ReleasedWithSlot

SocketInv == OwnershipInv /\ Sockets

(* A step that opens and closes nothing, and ends no thread with a slot.   *)
LEMMA SocketFrame ==
  ASSUME Sockets, UNCHANGED files,
         \A t \in Conn : cl'[t].fd = cl[t].fd,
         \A t \in Conn : Live(t)' => Live(t),
         \A t \in Conn : pc[t] # "none" => pc'[t] # "none",
         \A t \in Conn : ~Live(t)' =>
           cl'[t].idNum = cl[t].idNum /\ (Live(t) => cl[t].idNum = 0)
  PROVE  Sockets'
<1>1. OwnSocket'
  BY DEF Sockets, OwnSocket
<1>2. OneDescriptor'
  BY DEF Sockets, OneDescriptor
<1>3. ReleasedWithSlot'
  BY DEF Sockets, ReleasedWithSlot
<1>4. QED
  BY <1>1, <1>2, <1>3 DEF Sockets

LEMMA AcceptSocket ==
  ASSUME SocketInv, NEW t \in Conn, Accept(t) \/ AcceptFails(t)
  PROVE  Sockets'
<1> USE DEF SocketInv, OwnershipInv
<1>1. /\ pc[t] = "none" /\ pc' = [pc EXCEPT ![t] = "run"]
      /\ \A u \in Conn \ {t} : cl'[u] = cl[u] /\ pc'[u] = pc[u]
      /\ cl'[t].idNum = 0 /\ pc'[t] = "run"
  BY DEF Accept, AcceptFails, NewClient, Goto, TypeOK
<1>2. \A f \in Fds : files[f] # t
  BY <1>1 DEF Sockets, OneDescriptor
<1>3. CASE cl'[t].fd = NoFd /\ UNCHANGED files
  BY <1>1, <1>2, <1>3 DEF Sockets, OwnSocket, OneDescriptor, ReleasedWithSlot, Live
<1>4. ASSUME NEW fd \in Fds, files[fd] = "closed", cl'[t].fd = fd,
             files' = [files EXCEPT ![fd] = t]
      PROVE  Sockets'
  <2>1. files'[fd] = t /\ \A f \in Fds \ {fd} : files'[f] = files[f]
    BY <1>4 DEF TypeOK
  <2>2. OwnSocket'
    <3> SUFFICES ASSUME NEW u \in Conn, Live(u)', cl'[u].fd > 0
                 PROVE  files'[cl'[u].fd] = u
      BY DEF OwnSocket
    <3>1. CASE u = t
      BY <3>1, <2>1, <1>4
    <3>2. CASE u # t
      <4>1. cl'[u].fd = cl[u].fd /\ Live(u) /\ cl[u].fd \in Fds
        BY <3>2, <1>1 DEF Live, TypeOK, Client
      <4>2. files[cl[u].fd] = u
        BY <4>1 DEF Sockets, OwnSocket
      <4>3. cl[u].fd # fd
        BY <4>2, <1>4, ServerAssumption
      <4>4. QED
        BY <4>1, <4>2, <4>3, <2>1
    <3>3. QED
      BY <3>1, <3>2
  <2>3. OneDescriptor'
    <3> SUFFICES ASSUME NEW f \in Fds, NEW u \in Conn, files'[f] = u
                 PROVE  cl'[u].fd = f /\ pc'[u] # "none"
      BY DEF OneDescriptor
    <3>1. CASE f = fd
      BY <3>1, <2>1, <1>4, <1>1
    <3>2. CASE f # fd
      BY <3>2, <2>1, <1>1, <1>2 DEF Sockets, OneDescriptor
    <3>3. QED
      BY <3>1, <3>2
  <2>4. ReleasedWithSlot'
    BY <1>1, <2>1 DEF Sockets, ReleasedWithSlot, Live
  <2>5. QED
    BY <2>2, <2>3, <2>4 DEF Sockets
<1>5. (cl'[t].fd = NoFd /\ UNCHANGED files)
        \/ \E fd \in Fds : files[fd] = "closed" /\ cl'[t].fd = fd
                           /\ files' = [files EXCEPT ![fd] = t]
  BY DEF Accept, AcceptFails, NewClient, TypeOK
<1>6. QED
  BY <1>3, <1>4, <1>5

(* remove_Client closes the caller's own descriptor, or descriptor 0.      *)
LEMMA RemoveSocket ==
  ASSUME SocketInv, NEW t \in Conn, handleQUIT(t) \/ killConnection(t)
  PROVE  Sockets'
<1> USE DEF SocketInv, OwnershipInv
<1>1. /\ Live(t) /\ ~Live(t)' /\ pc'[t] # "none"
      /\ \A u \in Conn \ {t} : pc'[u] = pc[u]
      /\ UNCHANGED cl
  BY DEF handleQUIT, killConnection, Goto, TypeOK, Live, thread
<1>2. \A u \in Conn \ {t} : Live(u)' <=> Live(u)
  BY <1>1 DEF Live
<1>3. CASE NoneWithId(cl[t].idNum) /\ UNCHANGED files
  <2>1. cl[t].idNum = 0
    BY <1>1, <1>3, SlotOfThread DEF NoneWithId
  <2>2. QED
    BY <1>1, <1>2, <1>3, <2>1, SocketFrame
<1>4. ASSUME NEW i \in Slots, FirstWithId(i, cl[t].idNum),
             files' = [files EXCEPT ![clientList[i].fd] = "closed"]
      PROVE  Sockets'
  <2> DEFINE fd == clientList[i].fd
  <2>1. \A f \in Fds : files'[f] = IF f = fd THEN "closed" ELSE files[f]
    BY <1>4 DEF TypeOK
  <2>2. \A f \in Fds, u \in Conn : files'[f] = u => files[f] = u
    BY <2>1, ServerAssumption
  <2>3. fd = 0 \/ fd = cl[t].fd
    <3>1. CASE cl[t].idNum = 0
      BY <3>1, <1>4 DEF FirstWithId, SlotOwnership, FreeSlotIsClean, Occupied
    <3>2. CASE cl[t].idNum # 0
      BY <3>2, <1>1, <1>4, SlotOfThread
         DEF FirstWithId, SlotOwnership, SlotKnowsOwner, Owns, Occupied
    <3>3. QED
      BY <3>1, <3>2
  <2>4. OwnSocket'
    <3> SUFFICES ASSUME NEW u \in Conn, Live(u)', cl[u].fd > 0
                 PROVE  files'[cl[u].fd] = u
      BY <1>1 DEF OwnSocket
    <3>1. u # t /\ Live(u) /\ cl[u].fd \in Fds
      BY <1>1, <1>2 DEF TypeOK, Client
    <3>2. files[cl[u].fd] = u
      BY <3>1 DEF Sockets, OwnSocket
    <3>3. CASE fd = 0
      BY <3>1, <3>2, <3>3, <2>1
    <3>4. CASE fd = cl[t].fd /\ fd # 0
      <4>1. cl[t].fd \in Fds \cup {NoFd}
        BY DEF TypeOK, Client
      <4>2. CASE cl[t].fd \in Fds
        <5>1. files[cl[t].fd] = t
          BY <1>1, <3>4, <4>2 DEF Sockets, OwnSocket
        <5>2. QED
          BY <5>1, <3>1, <3>2, <3>4, <2>1
      <4>3. CASE cl[t].fd = NoFd
        BY <3>1, <3>2, <3>4, <4>3, <2>1
      <4>4. QED
        BY <4>1, <4>2, <4>3
    <3>5. QED
      BY <2>3, <3>3, <3>4
  <2>5. OneDescriptor'
    BY <1>1, <2>2 DEF Sockets, OneDescriptor
  <2>6. ReleasedWithSlot'
    <3> SUFFICES ASSUME NEW u \in Conn, ~Live(u)', cl[u].idNum # 0, NEW f \in Fds,
                        files'[f] = u
                 PROVE  FALSE
      BY <1>1 DEF ReleasedWithSlot
    <3>1. files[f] = u /\ cl[u].fd = f
      BY <2>2 DEF Sockets, OneDescriptor
    <3>2. CASE u # t
      BY <3>1, <3>2, <1>2 DEF Sockets, ReleasedWithSlot
    <3>3. CASE u = t
      <4>1. fd = f
        BY <3>1, <3>3, <1>1, <1>4, SlotOfThread
           DEF FirstWithId, SlotOwnership, SlotKnowsOwner, Owns, Occupied
      <4>2. QED
        BY <4>1, <3>3, <2>1, ServerAssumption
    <3>4. QED
      BY <3>2, <3>3
  <2>7. QED
    BY <2>4, <2>5, <2>6 DEF Sockets
<1>5. QED
  BY <1>3, <1>4 DEF handleQUIT, killConnection, remove_Client, CloseFd

LEMMA SocketStep == SocketInv /\ [Next]_vars => SocketInv'
<1> SUFFICES ASSUME SocketInv, [Next]_vars PROVE Sockets'
  BY OwnershipStep DEF SocketInv
<1> USE DEF SocketInv, OwnershipInv
<1>1. CASE SizeCheck \/ Sender \/ AtRest \/ UNCHANGED vars
  <2>1. UNCHANGED <<pc, cl, files>>
    BY <1>1 DEF SizeCheck, Sender, msgQueue_pop, SendItem, AtRest, vars, thread
  <2>2. QED
    BY <2>1, SocketFrame DEF Live
<1>2. ASSUME NEW t \in Conn, Accept(t) \/ AcceptFails(t) PROVE Sockets'
  BY <1>2, AcceptSocket
<1>3. ASSUME NEW t \in Conn, handleQUIT(t) \/ killConnection(t) PROVE Sockets'
  BY <1>3, RemoveSocket
<1>4. ASSUME NEW t \in Conn,
             (\E n \in Names : RecvJOIN(t, n)) \/ clientHasJoined(t) \/ MarkJoined(t) \/ Moves(t)
      PROVE  Sockets'
  <2>1. UNCHANGED <<cl, files>>
    BY <1>4 DEF RecvJOIN, clientHasJoined, MarkJoined, Moves, RecvMESS, RecvQUIT, RecvBad,
         RecvEOF, BadFd, checkUserName, ComposeParticipants, sendParticipants, handleMESS,
         sendQUIT, QueueLeave, thread
  <2>2. \A u \in Conn : (Live(u)' <=> Live(u)) /\ (pc[u] # "none" => pc'[u] # "none")
    BY <1>4 DEF RecvJOIN, clientHasJoined, MarkJoined, Moves, RecvMESS, RecvQUIT, RecvBad,
         RecvEOF, BadFd, checkUserName, ComposeParticipants, sendParticipants, handleMESS,
         sendQUIT, QueueLeave, Goto, TypeOK, Live
  <2>3. QED
    BY <2>1, <2>2, SocketFrame
<1>5. ASSUME NEW t \in Conn, RefuseName(t) PROVE Sockets'
  <2>1. /\ Live(t) /\ cl[t].idNum = 0 /\ pc'[t] = "exited"
        /\ UNCHANGED <<cl, files>> /\ \A u \in Conn \ {t} : pc'[u] = pc[u]
    BY <1>5 DEF RefuseName, Goto, TypeOK, Live, Joining, SlotOwnership, NoSlotBeforeAppend
  <2>2. QED
    BY <2>1, SocketFrame DEF Live
<1>6. ASSUME NEW t \in Conn, AnnounceJoin(t) \/ AppendClient(t) PROVE Sockets'
  <2>1. /\ UNCHANGED files /\ Live(t) /\ Live(t)' /\ pc'[t] # "none"
        /\ \A u \in Conn \ {t} : pc'[u] = pc[u] /\ cl'[u] = cl[u]
        /\ cl'[t].fd = cl[t].fd
    <3>1. CASE AnnounceJoin(t)
      BY <3>1 DEF AnnounceJoin, Goto, TypeOK, Client, Live
    <3>2. CASE AppendClient(t)
      <4>1. UNCHANGED cl \/ \E i \in Slots : cl' = [cl EXCEPT ![t].idNum = i]
        BY <3>2 DEF AppendClient, append_Clientlist
      <4>2. /\ \A u \in Conn \ {t} : cl'[u] = cl[u]
            /\ cl'[t].fd = cl[t].fd
        BY <4>1 DEF TypeOK, Client
      <4>3. QED
        BY <3>2, <4>2 DEF AppendClient, Goto, TypeOK, Live
    <3>3. QED
      BY <1>6, <3>1, <3>2
  <2>2. QED
    BY <2>1, SocketFrame DEF Live
<1>7. QED
  BY <1>1, <1>2, <1>3, <1>4, <1>5, <1>6 DEF Next, Arrives, Handles, Moves

LEMMA SocketInit == Init => SocketInv
<1> SUFFICES ASSUME Init PROVE Sockets
  BY OwnershipInit DEF SocketInv
<1>1. \A t \in Conn : pc[t] = "none" /\ cl[t].idNum = 0
  BY DEF Init
<1>2. \A f \in Fds, t \in Conn : files[f] # t
  BY ServerAssumption DEF Init
<1>3. QED
  BY <1>1, <1>2 DEF Sockets, OwnSocket, OneDescriptor, ReleasedWithSlot, Live

(* A thread keeps its socket until it gives it back itself, whatever other *)
(* threads remove, for every descriptor but 0.                             *)
THEOREM SocketsKept == Spec => []OwnSocket
<1>1. SocketInv /\ [Next]_vars => SocketInv'
  BY SocketStep
<1>2. SocketInv => OwnSocket
  BY DEF SocketInv, Sockets
<1>3. QED
  BY SocketInit, <1>1, <1>2, PTL DEF Spec

(* The thread of a member never ends with its socket still open.           *)
THEOREM SocketsReleased == Spec => []SocketReleased
<1>1. SocketInv /\ [Next]_vars => SocketInv'
  BY SocketStep
<1>2. SocketInv => SocketReleased
  BY DEF SocketInv, Sockets, ReleasedWithSlot, SocketReleased, Live
<1>3. QED
  BY SocketInit, <1>1, <1>2, PTL DEF Spec

-----------------------------------------------------------------------------
(* Only the search in the client list turns a name down.                   *)
LEMMA RefusedBySearch ==
  ASSUME TypeOK, [Next]_vars, NEW t \in Conn, pc[t] = "checkName", pc'[t] = "taken"
  PROVE  userNameExists(ident[t])
<1>1. CASE SizeCheck \/ Sender \/ AtRest \/ UNCHANGED vars
  BY <1>1 DEF SizeCheck, Sender, msgQueue_pop, SendItem, AtRest, vars
<1>2. ASSUME NEW u \in Conn, Accept(u) \/ AcceptFails(u) PROVE FALSE
  BY <1>2 DEF Accept, AcceptFails, NewClient, Goto, TypeOK
<1>3. ASSUME NEW u \in Conn, Arrives(u) PROVE FALSE
  BY <1>3 DEF Arrives, RecvJOIN, RecvMESS, RecvQUIT, RecvBad, RecvEOF, Goto, TypeOK
<1>4. ASSUME NEW u \in Conn, checkUserName(u) PROVE userNameExists(ident[t])
  BY <1>4 DEF checkUserName, Goto, TypeOK
<1>5. ASSUME NEW u \in Conn, Handles(u), ~checkUserName(u) PROVE FALSE
  BY <1>5 DEF Handles, BadFd, clientHasJoined, RefuseName, AnnounceJoin, AppendClient,
     MarkJoined, ComposeParticipants, sendParticipants, handleMESS, sendQUIT, handleQUIT,
     QueueLeave, killConnection, Goto, TypeOK
<1>6. QED
  BY <1>1, <1>2, <1>3, <1>4, <1>5 DEF Next

(* A name is turned down only while a member has it: a slot that has been  *)
(* freed does not keep its name taken.                                     *)
THEOREM NamesReusable == Spec => NameReuse
<1> DEFINE Refusal(t) ==
      pc[t] = "checkName" /\ pc'[t] = "taken" /\ ident[t] # NoName =>
        \E i \in Slots : Occupied(i) /\ clientList[i].name = ident[t]
<1>1. OwnershipInv /\ [Next]_vars => [\A t \in Conn : Refusal(t)]_vars
  <2> SUFFICES ASSUME OwnershipInv, [Next]_vars, NEW t \in Conn,
                      pc[t] = "checkName", pc'[t] = "taken", ident[t] # NoName
               PROVE  \E i \in Slots : Occupied(i) /\ clientList[i].name = ident[t]
    OBVIOUS
  <2>1. PICK i \in Slots : clientList[i].name = ident[t]
    BY RefusedBySearch DEF OwnershipInv, userNameExists
  <2>2. Occupied(i)
    BY <2>1 DEF OwnershipInv, SlotOwnership, FreeSlotIsClean
  <2>3. QED
    BY <2>1, <2>2
<1>2. OwnershipInv /\ [Next]_vars => OwnershipInv'
  BY OwnershipStep
<1>3. QED
  BY OwnershipInit, <1>1, <1>2, PTL DEF Spec, NameReuse

-----------------------------------------------------------------------------
(***************************************************************************)
(* A thread before it has a slot, and the thread at each place of its      *)
(* code.                                                                   *)
(***************************************************************************)
BeforeSlot == {"hasJoined", "checkName", "taken", "handleJOIN", "append"}

JoinPcs == BeforeSlot \cup {"setHasJoined", "participants", "sendParticipants"}

(* The thread has not got past its first JOIN's append_Clientlist.         *)
Early(t) == njoin[t] = 0 \/ (njoin[t] = 1 /\ pc[t] \in BeforeSlot)

ThreadInv(t) ==
  /\ pc[t] = "none" => cl[t].idNum = 0 /\ cl[t].fd = NoFd /\ njoin[t] = 0
  /\ njoin[t] = 0 => pc[t] \notin JoinPcs
  /\ Early(t) => cl[t].idNum = 0
  /\ cl[t].idNum # 0 => cl[t].hasJoined
  /\ pc[t] = "kill" => cl[t].idNum = 0
  /\ roster[t] # {} => pc[t] = "sendParticipants"

Same(u) ==
  /\ pc'[u] = pc[u] /\ cl'[u] = cl[u]
  /\ njoin'[u] = njoin[u] /\ roster'[u] = roster[u]

LEMMA SameThread ==
  ASSUME NEW u, ThreadInv(u), Same(u)
  PROVE  ThreadInv(u)'
BY DEF ThreadInv, Same, Early, BeforeSlot, JoinPcs

(* Every action is one thread's, and leaves the other threads' state alone. *)
LEMMA OthersSame ==
  ASSUME TypeOK, NEW t \in Conn, NEW u \in Conn, u # t,
         Accept(t) \/ AcceptFails(t) \/ Arrives(t) \/ Handles(t)
  PROVE  Same(u)
<1> USE DEF TypeOK, Same, Goto, thread, count
<1>1. CASE Accept(t) \/ AcceptFails(t)
  BY <1>1 DEF Accept, AcceptFails, NewClient
<1>2. CASE Arrives(t)
  BY <1>2 DEF Arrives, RecvJOIN, RecvMESS, RecvQUIT, RecvBad, RecvEOF
<1>3. CASE BadFd(t) \/ clientHasJoined(t) \/ checkUserName(t) \/ RefuseName(t)
           \/ AnnounceJoin(t) \/ MarkJoined(t)
  BY <1>3 DEF BadFd, clientHasJoined, checkUserName, RefuseName, AnnounceJoin, MarkJoined
<1>4. CASE AppendClient(t)
  BY <1>4 DEF AppendClient, append_Clientlist
<1>5. CASE ComposeParticipants(t) \/ sendParticipants(t)
  BY <1>5 DEF ComposeParticipants, sendParticipants
<1>6. CASE handleMESS(t) \/ sendQUIT(t) \/ handleQUIT(t) \/ QueueLeave(t) \/ killConnection(t)
  BY <1>6 DEF handleMESS, sendQUIT, handleQUIT, QueueLeave, killConnection
<1>7. QED
  BY <1>1, <1>2, <1>3, <1>4, <1>5, <1>6 DEF Handles

LEMMA IdleSame ==
  ASSUME SizeCheck \/ Sender \/ AtRest \/ UNCHANGED vars, NEW u
  PROVE  Same(u)
BY DEF SizeCheck, Sender, msgQueue_pop, SendItem, AtRest, vars, Same, thread, count

(* The thread that acts.                                                   *)
LEMMA ActorStep ==
  ASSUME OwnershipInv, NEW t \in Conn, ThreadInv(t),
         Accept(t) \/ AcceptFails(t) \/ Arrives(t) \/ Handles(t)
  PROVE  ThreadInv(t)'
<1> USE DEF OwnershipInv, TypeOK, ThreadInv, Early, BeforeSlot, JoinPcs, Goto, thread, count
<1>1. CASE Accept(t) \/ AcceptFails(t)
  BY <1>1 DEF Accept, AcceptFails, NewClient
<1>2. ASSUME NEW n \in Names, RecvJOIN(t, n) PROVE ThreadInv(t)'
  <2>1. /\ pc[t] = "run" /\ pc'[t] \in {"hasJoined", "checkName"}
        /\ njoin'[t] = njoin[t] + 1 /\ njoin[t] \in Nat
        /\ UNCHANGED <<cl, roster>>
    BY <1>2 DEF RecvJOIN
  <2>2. njoin'[t] # 0 /\ (njoin'[t] = 1 => njoin[t] = 0)
    BY <2>1
  <2>3. QED
    BY <2>1, <2>2
<1>3. CASE RecvMESS(t) \/ RecvQUIT(t) \/ RecvBad(t) \/ RecvEOF(t) \/ BadFd(t)
  BY <1>3 DEF RecvMESS, RecvQUIT, RecvBad, RecvEOF, BadFd
<1>4. CASE clientHasJoined(t) \/ checkUserName(t) \/ RefuseName(t)
  BY <1>4 DEF clientHasJoined, checkUserName, RefuseName
<1>5. CASE AnnounceJoin(t)
  BY <1>5 DEF AnnounceJoin, Client
<1>6. CASE AppendClient(t)
  <2>1. /\ pc[t] = "append" /\ pc'[t] = "setHasJoined" /\ cl[t].hasJoined
        /\ UNCHANGED <<roster, njoin>>
    BY <1>6 DEF AppendClient, FlagSetBeforeAppend
  <2>2. cl'[t].hasJoined = cl[t].hasJoined
    BY <1>6 DEF AppendClient, append_Clientlist, Client
  <2>3. QED
    BY <2>1, <2>2
<1>7. CASE MarkJoined(t) \/ ComposeParticipants(t) \/ sendParticipants(t)
  BY <1>7 DEF MarkJoined, ComposeParticipants, sendParticipants
<1>8. CASE handleMESS(t) \/ sendQUIT(t) \/ handleQUIT(t) \/ QueueLeave(t) \/ killConnection(t)
  BY <1>8 DEF handleMESS, sendQUIT, handleQUIT, QueueLeave, killConnection
<1>9. QED
  BY <1>1, <1>2, <1>3, <1>4, <1>5, <1>6, <1>7, <1>8 DEF Arrives, Handles

LEMMA ThreadStep ==
  ASSUME OwnershipInv, \A t \in Conn : ThreadInv(t), [Next]_vars
  PROVE  \A t \in Conn : ThreadInv(t)'
<1>1. CASE SizeCheck \/ Sender \/ AtRest \/ UNCHANGED vars
  BY <1>1, IdleSame, SameThread
<1>2. ASSUME NEW t \in Conn, Accept(t) \/ AcceptFails(t) \/ Arrives(t) \/ Handles(t)
      PROVE  \A u \in Conn : ThreadInv(u)'
  BY <1>2, OthersSame, SameThread, ActorStep DEF OwnershipInv
<1>3. QED
  BY <1>1, <1>2 DEF Next

-----------------------------------------------------------------------------
(***************************************************************************)
(* Who is written to.  A connection on a descriptor other than 0 is        *)
(* written to through its own slot, or by its own thread.                  *)
(***************************************************************************)

(* The list holds the live threads that have a number.                     *)
LEMMA ListedIff ==
  ASSUME OwnershipInv, NEW k \in Conn
  PROVE  Listed(k) <=> Live(k) /\ cl[k].idNum # 0
<1> USE DEF OwnershipInv
<1>1. ASSUME NEW i \in Slots, Occupied(i), clientList[i].who = k
      PROVE  Live(k) /\ cl[k].idNum # 0
  BY <1>1 DEF SlotOwnership, SlotKnowsOwner, Owns, Occupied
<1>2. ASSUME Live(k), cl[k].idNum # 0 PROVE Listed(k)
  BY <1>2, SlotOfThread DEF Listed, SlotOwnership, OwnerKnowsSlot
<1>3. QED
  BY <1>1, <1>2 DEF Listed

ListedIsLive == \A k \in Conn : Listed(k) <=> Live(k) /\ cl[k].idNum # 0

LEMMA ListedNext == OwnershipInv' => ListedIsLive'
<1>1. OwnershipInv => ListedIsLive
  BY ListedIff DEF ListedIsLive
<1>2. QED
  BY <1>1, PTL

LEMMA OwnWriter ==
  ASSUME SocketInv, NEW k \in Conn, cl[k].fd # 0,
         NEW t \in Conn, Live(t), Peer(cl[t].fd) = k
  PROVE  t = k
<1> USE DEF SocketInv, OwnershipInv
<1>1. cl[t].fd \in Fds /\ files[cl[t].fd] = k
  BY ServerAssumption DEF Peer
<1>2. cl[k].fd = cl[t].fd
  BY <1>1 DEF Sockets, OneDescriptor
<1>3. files[cl[t].fd] = t
  BY <1>1, <1>2 DEF Sockets, OwnSocket
<1>4. QED
  BY <1>1, <1>3

(* The slots a broadcast reaches connection k through.                     *)
Reach(k) == {i \in Slots : Occupied(i) /\ Peer(clientList[i].fd) = k}

LEMMA ReachOwner ==
  ASSUME SocketInv, NEW k \in Conn, cl[k].fd # 0, NEW i \in Reach(k)
  PROVE  Listed(k)
<1> USE DEF SocketInv, OwnershipInv
<1>1. PICK u \in Conn : u = clientList[i].who /\ Owns(u, i)
  BY DEF Reach, TypeOK, SlotOwnership, SlotKnowsOwner
<1>2. u = k
  BY <1>1, OwnWriter DEF Owns, Reach
<1>3. QED
  BY <1>1, <1>2 DEF Reach, Listed

LEMMA MemberReached ==
  ASSUME SocketInv, NEW k \in Conn, Listed(k), cl[k].fd > 0
  PROVE  Reach(k) # {}
<1> USE DEF SocketInv, OwnershipInv
<1>1. PICK i \in Slots : Occupied(i) /\ clientList[i].who = k
  BY DEF Listed
<1>2. Owns(k, i)
  BY <1>1 DEF SlotOwnership, SlotKnowsOwner
<1>3. clientList[i].fd = cl[k].fd /\ cl[k].fd \in Fds
  BY <1>2 DEF Owns, TypeOK, Client
<1>4. files[cl[k].fd] = k
  BY <1>2 DEF Owns, Sockets, OwnSocket
<1>5. QED
  BY <1>1, <1>3, <1>4 DEF Reach, Peer

LEMMA ElemsConcat ==
  ASSUME NEW S, NEW s \in Seq(S), NEW r \in Seq(S)
  PROVE  Elems(s \o r) = Elems(s) \cup Elems(r)
<1>1. /\ Len(s) \in Nat /\ Len(r) \in Nat
      /\ Len(s \o r) = Len(s) + Len(r)
      /\ \A i \in 1..Len(s) : (s \o r)[i] = s[i]
      /\ \A i \in 1..Len(r) : (s \o r)[Len(s) + i] = r[i]
      /\ DOMAIN s = 1..Len(s) /\ DOMAIN r = 1..Len(r)
      /\ DOMAIN (s \o r) = 1..(Len(s) + Len(r))
  BY ConcatProperties
<1>2. ASSUME NEW n \in DOMAIN (s \o r) PROVE (s \o r)[n] \in Elems(s) \cup Elems(r)
  <2>1. CASE n <= Len(s)
    BY <1>1, <2>1 DEF Elems
  <2>2. CASE n > Len(s)
    <3>1. n - Len(s) \in 1..Len(r) /\ Len(s) + (n - Len(s)) = n
      BY <1>1, <2>2
    <3>2. (s \o r)[n] = r[n - Len(s)]
      BY <1>1, <3>1
    <3>3. QED
      BY <1>1, <3>1, <3>2 DEF Elems
  <2>3. QED
    BY <1>1, <2>1, <2>2
<1>3. ASSUME NEW n \in DOMAIN s PROVE s[n] \in Elems(s \o r)
  BY <1>1 DEF Elems
<1>4. ASSUME NEW n \in DOMAIN r PROVE r[n] \in Elems(s \o r)
  <2>1. Len(s) + n \in DOMAIN (s \o r) /\ (s \o r)[Len(s) + n] = r[n]
    BY <1>1
  <2>2. QED
    BY <2>1 DEF Elems
<1>5. QED
  BY <1>2, <1>3, <1>4 DEF Elems

LEMMA ElemsAppend ==
  ASSUME NEW S, NEW s \in Seq(S), NEW e \in S
  PROVE  Elems(Append(s, e)) = Elems(s) \cup {e}
<1>1. /\ Len(s) \in Nat /\ DOMAIN s = 1..Len(s)
      /\ DOMAIN Append(s, e) = 1..(Len(s) + 1)
      /\ \A i \in 1..Len(s) : Append(s, e)[i] = s[i]
      /\ Append(s, e)[Len(s) + 1] = e
  BY AppendProperties
<1>2. \A n \in 1..(Len(s) + 1) : n = Len(s) + 1 \/ n \in 1..Len(s)
  BY <1>1
<1>3. QED
  BY <1>1, <1>2 DEF Elems

(* Copies is one copy per slot reached.                                    *)
LEMMA CopiesElems ==
  ASSUME NEW k, NEW pdu \in Pdu
  PROVE  Elems(Copies(k, pdu)) = IF Reach(k) = {} THEN {} ELSE {pdu}
<1>1. IsFiniteSet(Slots)
  BY ServerAssumption, FS_Interval
<1>2. IsFiniteSet(Reach(k))
  BY <1>1, FS_Subset DEF Reach
<1>3. /\ Cardinality(Reach(k)) \in Nat
      /\ Cardinality(Reach(k)) = 0 <=> Reach(k) = {}
  BY <1>2, FS_CardinalityType, FS_EmptySet
<1>4. Copies(k, pdu) = [n \in 1..Cardinality(Reach(k)) |-> pdu]
  BY DEF Copies, Reach
<1>5. Elems(Copies(k, pdu)) = {pdu : n \in 1..Cardinality(Reach(k))}
  BY <1>4 DEF Elems
<1>6. CASE Reach(k) = {}
  BY <1>3, <1>5, <1>6
<1>7. CASE Reach(k) # {}
  <2>1. 1 \in 1..Cardinality(Reach(k))
    BY <1>3, <1>7
  <2>2. QED
    BY <1>5, <1>7, <2>1
<1>8. QED
  BY <1>6, <1>7

(* What a broadcast adds to what connection k has.                         *)
LEMMA Broadcast ==
  ASSUME TypeOK, NEW pdu \in Pdu, sendMessage(pdu), NEW k \in Conn
  PROVE  Elems(inbox'[k]) = Elems(inbox[k]) \cup (IF Reach(k) = {} THEN {} ELSE {pdu})
<1>1. inbox'[k] = inbox[k] \o Copies(k, pdu)
  BY DEF sendMessage
<1>2. inbox[k] \in Seq(Pdu) /\ Copies(k, pdu) \in Seq(Pdu)
  BY CopiesType DEF TypeOK
<1>3. QED
  BY <1>1, <1>2, ElemsConcat, CopiesElems

(* What a send on a descriptor adds.                                       *)
LEMMA SentTo ==
  ASSUME TypeOK, NEW f, NEW pdu \in Pdu, sendto_TCPSocket(f, pdu), NEW k \in Conn
  PROVE  Elems(inbox'[k]) = Elems(inbox[k]) \cup (IF Peer(f) = k THEN {pdu} ELSE {})
<1>1. inbox[k] \in Seq(Pdu)
  BY DEF TypeOK
<1>2. CASE Peer(f) = k
  <2>1. inbox'[k] = Append(inbox[k], pdu)
    BY <1>2 DEF sendto_TCPSocket, TypeOK
  <2>2. QED
    BY <1>1, <1>2, <2>1, ElemsAppend
<1>3. CASE Peer(f) # k
  BY <1>3 DEF sendto_TCPSocket, TypeOK
<1>4. QED
  BY <1>2, <1>3

-----------------------------------------------------------------------------
(***************************************************************************)
(* What a connection has been told, and how each step changes it.          *)
(***************************************************************************)
News(E) ==
  (UNION {pdu.roster : pdu \in {p \in E : p.op = "PARTICIPANTS"}})
    \cup {pdu.who : pdu \in {p \in E : p.op = "PJOIN"}}

LEMMA ToldIsNews ==
  ASSUME NEW k PROVE Told(k) = roster[k] \cup News(Elems(inbox[k]))
BY DEF Told, News

LEMMA NewsUnion ==
  ASSUME NEW E, NEW F PROVE News(E \cup F) = News(E) \cup News(F)
BY Zenon DEF News

LEMMA NewsNone ==
  ASSUME NEW E, \A p \in E : p.op \notin {"PARTICIPANTS", "PJOIN"}
  PROVE  News(E) = {}
BY DEF News

LEMMA NewsMember ==
  ASSUME NEW E, NEW x
  PROVE  x \in News(E) <=>
           \/ \E q \in E : q.op = "PARTICIPANTS" /\ x \in q.roster
           \/ \E q \in E : q.op = "PJOIN" /\ x = q.who
<1> DEFINE A == UNION {pdu.roster : pdu \in {p \in E : p.op = "PARTICIPANTS"}}
           B == {pdu.who : pdu \in {p \in E : p.op = "PJOIN"}}
<1>1. x \in A <=> \E q \in E : q.op = "PARTICIPANTS" /\ x \in q.roster
  OBVIOUS
<1>2. x \in B <=> \E q \in E : q.op = "PJOIN" /\ x = q.who
  OBVIOUS
<1>3. News(E) = A \cup B
  BY DEF News
<1> HIDE DEF A, B
<1>4. QED
  BY <1>1, <1>2, <1>3

LEMMA NewsJoin ==
  ASSUME NEW t PROVE News({[op |-> "PJOIN", who |-> t]}) = {t}
<1> DEFINE p == [op |-> "PJOIN", who |-> t]
<1>1. p.op = "PJOIN" /\ p.who = t
  OBVIOUS
<1> HIDE DEF p
<1>2. \A x : x \in News({p}) <=> x = t
  BY <1>1, NewsMember
<1>3. News({p}) = {t}
  BY <1>2
<1>4. QED
  BY <1>3 DEF p

LEMMA NewsRoster ==
  ASSUME NEW L PROVE News({[op |-> "PARTICIPANTS", roster |-> L]}) = L
<1> DEFINE p == [op |-> "PARTICIPANTS", roster |-> L]
<1>1. {q \in {p} : q.op = "PARTICIPANTS"} = {p} /\ {q \in {p} : q.op = "PJOIN"} = {}
  OBVIOUS
<1>2. p.roster = L
  OBVIOUS
<1> HIDE DEF p
<1>3. News({p}) = L
  BY <1>1, <1>2 DEF News
<1>4. QED
  BY <1>3 DEF p

LEMMA NewsType ==
  ASSUME NEW E, E \subseteq Pdu PROVE News(E) \subseteq Conn
<1> SUFFICES ASSUME NEW x \in News(E) PROVE x \in Conn
  OBVIOUS
<1>1. CASE \E q \in E : q.op = "PARTICIPANTS" /\ x \in q.roster
  BY <1>1 DEF Pdu, Item
<1>2. CASE \E q \in E : q.op = "PJOIN" /\ x = q.who
  BY <1>2 DEF Pdu, Item
<1>3. QED
  BY <1>1, <1>2, NewsMember

LEMMA ElemsType ==
  ASSUME NEW S, NEW s \in Seq(S) PROVE Elems(s) \subseteq S
BY DEF Elems

(* A step tells connection k only of members and of the thread it          *)
(* announces, and only if k is a member or is being given its roster;      *)
(* nothing told is taken back.                                             *)
Tells(k) ==
  /\ Elems(inbox[k]) \subseteq Elems(inbox'[k])
  /\ cl[k].fd > 0 => Told(k) \subseteq Told(k)'
  /\ \A s \in Told(k)' : s \in Told(k) \/ Listed(s) \/ pc'[s] = "append"
  /\ Listed(k) \/ pc[k] \in {"participants", "sendParticipants"} \/ Told(k)' = Told(k)

(* Nothing composed, and nothing written but news of no join.              *)
LEMMA NothingTold ==
  ASSUME NEW k \in Conn, roster'[k] = roster[k], NEW F,
         Elems(inbox'[k]) = Elems(inbox[k]) \cup F, News(F) = {}
  PROVE  Tells(k)
<1>1. Told(k)' = roster'[k] \cup News(Elems(inbox'[k]))
  BY DEF Told, News
<1>2. Told(k)' = Told(k)
  BY <1>1, ToldIsNews, NewsUnion
<1>3. QED
  BY <1>2 DEF Tells

LEMMA AnnounceTells ==
  ASSUME SocketInv, NEW t \in Conn, AnnounceJoin(t), NEW k \in Conn, cl[k].fd # 0
  PROVE  Tells(k)
<1> DEFINE p == [op |-> "PJOIN", who |-> t]
<1> USE DEF SocketInv, OwnershipInv
<1>1. p \in Pdu /\ sendMessage(p) /\ roster' = roster /\ pc'[t] = "append"
  BY DEF Pdu, AnnounceJoin, Goto, TypeOK
<1>2. News({p}) = {t} /\ News({}) = {}
  BY NewsJoin, NewsNone
<1> HIDE DEF p
<1>3. Elems(inbox'[k]) = Elems(inbox[k]) \cup (IF Reach(k) = {} THEN {} ELSE {p})
  BY <1>1, Broadcast
<1>4. CASE Reach(k) = {}
  BY <1>1, <1>2, <1>3, <1>4, NothingTold
<1>5. CASE Reach(k) # {}
  <2>1. Listed(k)
    BY <1>5, ReachOwner
  <2>2. Told(k)' = roster'[k] \cup News(Elems(inbox'[k]))
    BY DEF Told, News
  <2>3. Told(k)' = Told(k) \cup {t}
    BY <1>1, <1>2, <1>3, <1>5, <2>2, ToldIsNews, NewsUnion
  <2>4. QED
    BY <1>1, <1>3, <2>1, <2>3 DEF Tells
<1>6. QED
  BY <1>4, <1>5

LEMMA ComposeTells ==
  ASSUME SocketInv, NEW t \in Conn, ThreadInv(t), ComposeParticipants(t), NEW k \in Conn
  PROVE  Tells(k)
<1> USE DEF SocketInv, OwnershipInv
<1>1. pc[t] = "participants" /\ roster[t] = {} /\ inbox' = inbox
  BY DEF ComposeParticipants, Goto, ThreadInv
<1>2. Told(k)' = roster'[k] \cup News(Elems(inbox'[k]))
  BY DEF Told, News
<1>3. CASE UNCHANGED roster
  BY <1>1, <1>2, <1>3, ToldIsNews DEF Tells
<1>4. CASE roster' = [roster EXCEPT ![t] = {clientList[i].who : i \in {j \in Slots : Occupied(j)}}]
  <2>1. CASE k = t
    <3>1. roster'[k] = {clientList[i].who : i \in {j \in Slots : Occupied(j)}}
      BY <1>4, <2>1 DEF TypeOK
    <3>2. \A s \in roster'[k] : Listed(s)
      BY <3>1 DEF Listed
    <3>3. QED
      BY <1>1, <1>2, <2>1, <3>2, ToldIsNews DEF Tells
  <2>2. CASE k # t
    <3>1. roster'[k] = roster[k]
      BY <1>4, <2>2 DEF TypeOK
    <3>2. QED
      BY <1>1, <1>2, <3>1, ToldIsNews DEF Tells
  <2>3. QED
    BY <2>1, <2>2
<1>5. QED
  BY <1>3, <1>4 DEF ComposeParticipants

(* The roster goes to the thread's own connection.                         *)
LEMMA RosterTells ==
  ASSUME SocketInv, NEW t \in Conn, sendParticipants(t), NEW k \in Conn, cl[k].fd # 0
  PROVE  Tells(k)
<1> DEFINE p == [op |-> "PARTICIPANTS", roster |-> roster[t]]
<1> USE DEF SocketInv, OwnershipInv
<1>1. /\ p \in Pdu /\ sendto_TCPSocket(cl[t].fd, p)
      /\ pc[t] = "sendParticipants" /\ Live(t)
      /\ roster' = [roster EXCEPT ![t] = {}]
  BY DEF Pdu, sendParticipants, Goto, TypeOK, Live
<1>2. News({p}) = roster[t] /\ News({}) = {}
  BY NewsRoster, NewsNone
<1> HIDE DEF p
<1>3. Elems(inbox'[k]) = Elems(inbox[k]) \cup (IF Peer(cl[t].fd) = k THEN {p} ELSE {})
  BY <1>1, SentTo
<1>4. CASE k # t
  <2>1. Peer(cl[t].fd) # k /\ roster'[k] = roster[k]
    BY <1>1, <1>4, OwnWriter DEF TypeOK
  <2>2. QED
    BY <1>2, <1>3, <2>1, NothingTold
<1>5. CASE k = t
  <2>1. roster'[k] = {}
    BY <1>1, <1>5 DEF TypeOK
  <2>2. Told(k)' = News(Elems(inbox'[k]))
    BY <2>1 DEF Told, News
  <2>3. Told(k) = roster[k] \cup News(Elems(inbox[k]))
    BY ToldIsNews
  <2>4. Told(k)' = News(Elems(inbox[k])) \cup (IF Peer(cl[t].fd) = k THEN roster[k] ELSE {})
    BY <1>2, <1>3, <1>5, <2>2, NewsUnion
  <2>5. Told(k)' \subseteq Told(k)
    BY <2>3, <2>4
  <2>6. ASSUME cl[k].fd > 0 PROVE Told(k) \subseteq Told(k)'
    <3>1. cl[k].fd \in Fds /\ files[cl[k].fd] = k
      BY <1>1, <1>5, <2>6 DEF TypeOK, Client, Sockets, OwnSocket
    <3>2. Peer(cl[t].fd) = k
      BY <1>5, <3>1 DEF Peer
    <3>3. QED
      BY <2>3, <2>4, <3>2
  <2>7. QED
    BY <1>1, <1>3, <1>5, <2>5, <2>6 DEF Tells
<1>6. QED
  BY <1>4, <1>5

LEMMA RefusalTells ==
  ASSUME TypeOK, NEW t \in Conn, RefuseName(t), NEW k \in Conn
  PROVE  Tells(k)
<1> DEFINE r == <<[op |-> "TAKEN"], [op |-> "QUIT"]>>
<1>1. roster' = roster /\ r \in Seq(Pdu)
  BY DEF RefuseName, Pdu
<1>2. News(Elems(r)) = {} /\ News({}) = {}
  <2>1. Elems(r) = {[op |-> "TAKEN"], [op |-> "QUIT"]}
    <3>1. DOMAIN r = {1, 2} /\ r[1] = [op |-> "TAKEN"] /\ r[2] = [op |-> "QUIT"]
      OBVIOUS
    <3>2. QED
      BY <3>1 DEF Elems
  <2>2. QED
    BY <2>1, NewsNone
<1>3. inbox'[k] = inbox[k] \o r \/ inbox'[k] = inbox[k]
  BY DEF RefuseName, TypeOK
<1> HIDE DEF r
<1>4. inbox[k] \in Seq(Pdu)
  BY DEF TypeOK
<1>5. CASE inbox'[k] = inbox[k] \o r
  <2>1. Elems(inbox'[k]) = Elems(inbox[k]) \cup Elems(r)
    BY <1>1, <1>4, <1>5, ElemsConcat
  <2>2. QED
    BY <1>1, <1>2, <2>1, NothingTold
<1>6. CASE inbox'[k] = inbox[k]
  BY <1>1, <1>2, <1>6, NothingTold
<1>7. QED
  BY <1>3, <1>5, <1>6

LEMMA QuitTells ==
  ASSUME TypeOK, NEW t \in Conn, sendQUIT(t), NEW k \in Conn
  PROVE  Tells(k)
<1> DEFINE p == [op |-> "QUIT"]
<1>1. p \in Pdu /\ sendto_TCPSocket(cl[t].fd, p) /\ roster' = roster
  BY DEF Pdu, sendQUIT, thread
<1>2. News({p}) = {} /\ News({}) = {}
  BY NewsNone
<1> HIDE DEF p
<1>3. Elems(inbox'[k]) = Elems(inbox[k]) \cup (IF Peer(cl[t].fd) = k THEN {p} ELSE {})
  BY <1>1, SentTo
<1>4. QED
  BY <1>1, <1>2, <1>3, NothingTold

LEMMA ItemTells ==
  ASSUME TypeOK, SendItem, NEW k \in Conn
  PROVE  Tells(k)
<1>1. sending[1] \in Item /\ sending[1] \in Pdu /\ sendMessage(sending[1]) /\ roster' = roster
  BY DEF SendItem, TypeOK, Pdu, thread
<1>2. News({sending[1]}) = {} /\ News({}) = {}
  BY <1>1, NewsNone DEF Item
<1>3. Elems(inbox'[k]) = Elems(inbox[k]) \cup (IF Reach(k) = {} THEN {} ELSE {sending[1]})
  BY <1>1, Broadcast
<1>4. QED
  BY <1>1, <1>2, <1>3, NothingTold

LEMMA QuietTells ==
  ASSUME UNCHANGED <<roster, inbox>>, NEW k \in Conn
  PROVE  Tells(k)
<1>1. News({}) = {}
  BY NewsNone
<1>2. QED
  BY <1>1, NothingTold

LEMMA ToldStep ==
  ASSUME SocketInv, \A t \in Conn : ThreadInv(t), [Next]_vars,
         NEW k \in Conn, cl[k].fd # 0
  PROVE  Tells(k)
<1> USE DEF SocketInv, OwnershipInv, thread
<1>1. CASE SizeCheck \/ msgQueue_pop \/ AtRest \/ UNCHANGED vars
  BY <1>1, QuietTells DEF SizeCheck, msgQueue_pop, AtRest, vars
<1>2. CASE SendItem
  BY <1>2, ItemTells
<1>3. ASSUME NEW t \in Conn, Accept(t) \/ AcceptFails(t) \/ Arrives(t) PROVE Tells(k)
  BY <1>3, QuietTells DEF Accept, AcceptFails, NewClient, Arrives, RecvJOIN, RecvMESS,
     RecvQUIT, RecvBad, RecvEOF
<1>4. ASSUME NEW t \in Conn,
             BadFd(t) \/ clientHasJoined(t) \/ checkUserName(t) \/ AppendClient(t)
               \/ MarkJoined(t) \/ handleMESS(t) \/ handleQUIT(t) \/ QueueLeave(t)
               \/ killConnection(t)
      PROVE  Tells(k)
  BY <1>4, QuietTells DEF BadFd, clientHasJoined, checkUserName, AppendClient, MarkJoined,
     handleMESS, handleQUIT, QueueLeave, killConnection
<1>5. ASSUME NEW t \in Conn,
             RefuseName(t) \/ AnnounceJoin(t) \/ ComposeParticipants(t)
               \/ sendParticipants(t) \/ sendQUIT(t)
      PROVE  Tells(k)
  BY <1>5, RefusalTells, AnnounceTells, ComposeTells, RosterTells, QuitTells
<1>6. QED
  BY <1>1, <1>2, <1>3, <1>4, <1>5 DEF Next, Handles, Sender

-----------------------------------------------------------------------------
(***************************************************************************)
(* Departures.                                                             *)
(***************************************************************************)

(* How a thread comes to be early, to have its descriptor, to be a member  *)
(* by its first JOIN, and to have ended.                                   *)
Moved(u) ==
  /\ Early(u)' => Early(u)
  /\ cl'[u].fd # cl[u].fd => pc[u] = "none"
  /\ Live(u)' /\ cl'[u].idNum # 0 /\ njoin'[u] = 1 =>
       njoin[u] = 1 /\ (pc[u] = "append" \/ (Live(u) /\ cl[u].idNum # 0))
  /\ pc'[u] = "exited" =>
       (pc[u] = "exited" /\ cl'[u] = cl[u]) \/ cl'[u].idNum = 0 \/ QueueLeave(u)
  /\ pc[u] = "none" => cl'[u].idNum = 0

LEMMA SameMoved ==
  ASSUME NEW u, ThreadInv(u), Same(u) PROVE Moved(u)
BY DEF Same, Moved, ThreadInv, Early, Live

LEMMA ActorMoved ==
  ASSUME OwnershipInv, NEW t \in Conn, ThreadInv(t),
         Accept(t) \/ AcceptFails(t) \/ Arrives(t) \/ Handles(t)
  PROVE  Moved(t)
<1> USE DEF OwnershipInv, TypeOK, ThreadInv, Moved, Early, BeforeSlot, JoinPcs, Live,
            Goto, thread, count
<1>1. CASE Accept(t) \/ AcceptFails(t)
  BY <1>1 DEF Accept, AcceptFails, NewClient
<1>2. ASSUME NEW n \in Names, RecvJOIN(t, n) PROVE Moved(t)
  <2>1. /\ pc[t] = "run" /\ pc'[t] \in {"hasJoined", "checkName"}
        /\ njoin'[t] = njoin[t] + 1 /\ njoin[t] \in Nat
        /\ UNCHANGED <<cl, roster>>
    BY <1>2 DEF RecvJOIN
  <2>2. njoin'[t] # 0 /\ (njoin'[t] = 1 => njoin[t] = 0)
    BY <2>1
  <2>3. QED
    BY <2>1, <2>2
<1>3. CASE RecvMESS(t) \/ RecvQUIT(t) \/ RecvBad(t) \/ RecvEOF(t) \/ BadFd(t)
  BY <1>3 DEF RecvMESS, RecvQUIT, RecvBad, RecvEOF, BadFd
<1>4. CASE clientHasJoined(t) \/ checkUserName(t)
  BY <1>4 DEF clientHasJoined, checkUserName
<1>5. CASE RefuseName(t)
  <2>1. cl[t].idNum = 0
    BY <1>5 DEF RefuseName, SlotOwnership, NoSlotBeforeAppend, Joining
  <2>2. QED
    BY <1>5, <2>1 DEF RefuseName
<1>6. CASE AnnounceJoin(t)
  <2>1. cl[t].idNum = 0
    BY <1>6 DEF AnnounceJoin, SlotOwnership, NoSlotBeforeAppend, Joining
  <2>2. /\ cl'[t].idNum = 0 /\ cl'[t].fd = cl[t].fd /\ njoin' = njoin
        /\ pc[t] = "handleJOIN" /\ pc'[t] = "append"
    BY <1>6, <2>1 DEF AnnounceJoin, Client
  <2>3. QED
    BY <2>2
<1>7. CASE AppendClient(t)
  <2>1. /\ pc[t] = "append" /\ pc'[t] = "setHasJoined"
        /\ UNCHANGED <<roster, njoin>>
    BY <1>7 DEF AppendClient
  <2>2. cl'[t].fd = cl[t].fd
    BY <1>7 DEF AppendClient, append_Clientlist, Client
  <2>3. QED
    BY <2>1, <2>2
<1>8. CASE MarkJoined(t) \/ ComposeParticipants(t) \/ sendParticipants(t)
  BY <1>8 DEF MarkJoined, ComposeParticipants, sendParticipants
<1>9. CASE handleMESS(t) \/ sendQUIT(t) \/ handleQUIT(t) \/ QueueLeave(t) \/ killConnection(t)
  BY <1>9 DEF handleMESS, sendQUIT, handleQUIT, QueueLeave, killConnection
<1>10. QED
  BY <1>1, <1>2, <1>3, <1>4, <1>5, <1>6, <1>7, <1>8, <1>9 DEF Arrives, Handles

LEMMA MovedStep ==
  ASSUME OwnershipInv, \A t \in Conn : ThreadInv(t), [Next]_vars, NEW u \in Conn
  PROVE  Moved(u)
<1>1. CASE SizeCheck \/ Sender \/ AtRest \/ UNCHANGED vars
  BY <1>1, IdleSame, SameMoved
<1>2. ASSUME NEW t \in Conn, Accept(t) \/ AcceptFails(t) \/ Arrives(t) \/ Handles(t)
      PROVE  Moved(u)
  BY <1>2, OthersSame, SameMoved, ActorMoved DEF OwnershipInv
<1>3. QED
  BY <1>1, <1>2 DEF Next

(* The leaves connection k has or has coming are not lost by any step,     *)
(* while k is a member.                                                    *)
Pending(k) == Elems(messageQueue) \cup Elems(sending) \cup Elems(inbox[k])

LEMMA AddPending ==
  ASSUME TypeOK, NEW it \in Item, msgQueue_add(it), NEW k \in Conn, inbox' = inbox
  PROVE  Pending(k)' = Pending(k) \cup {it}
<1>1. messageQueue \in Seq(Item) /\ messageQueue' = Append(messageQueue, it)
      /\ sending' = sending
  BY DEF msgQueue_add, TypeOK
<1>2. Elems(messageQueue') = Elems(messageQueue) \cup {it}
  BY <1>1, ElemsAppend
<1>3. Pending(k)' = Elems(messageQueue') \cup Elems(sending') \cup Elems(inbox'[k])
  BY DEF Pending, Elems
<1>4. QED
  BY <1>1, <1>2, <1>3 DEF Pending

LEMMA PopPending ==
  ASSUME TypeOK, msgQueue_pop, NEW k \in Conn
  PROVE  Pending(k) \subseteq Pending(k)'
<1>1. /\ messageQueue \in Seq(Item) /\ messageQueue # <<>> /\ sending = <<>>
      /\ messageQueue' = Tail(messageQueue) /\ sending' = <<Head(messageQueue)>>
      /\ inbox' = inbox
  BY DEF msgQueue_pop, TypeOK
<1>2. Pending(k)' = Elems(messageQueue') \cup Elems(sending') \cup Elems(inbox'[k])
  BY DEF Pending, Elems
<1>3. Elems(sending) = {} /\ Head(messageQueue) \in Elems(sending')
  <2>1. DOMAIN sending = {}
    BY <1>1
  <2>2. 1 \in DOMAIN sending' /\ sending'[1] = Head(messageQueue)
    BY <1>1
  <2>3. QED
    BY <2>1, <2>2 DEF Elems
<1>4. Elems(messageQueue) \subseteq Elems(messageQueue') \cup {Head(messageQueue)}
  <2>1. /\ Len(messageQueue) \in Nat /\ DOMAIN messageQueue = 1..Len(messageQueue)
        /\ DOMAIN messageQueue' = 1..(Len(messageQueue) - 1)
        /\ \A i \in 1..(Len(messageQueue) - 1) : messageQueue'[i] = messageQueue[i + 1]
        /\ messageQueue[1] = Head(messageQueue)
    BY <1>1, HeadTailProperties, EmptySeq
  <2>2. ASSUME NEW n \in DOMAIN messageQueue, n # 1
        PROVE  messageQueue[n] \in Elems(messageQueue')
    <3>1. n - 1 \in DOMAIN messageQueue' /\ messageQueue'[n - 1] = messageQueue[n]
      BY <2>1, <2>2
    <3>2. QED
      BY <3>1 DEF Elems
  <2>3. QED
    BY <2>1, <2>2 DEF Elems
<1>5. QED
  BY <1>1, <1>2, <1>3, <1>4 DEF Pending

LEMMA SendPending ==
  ASSUME SocketInv, SendItem, NEW k \in Conn, Listed(k), cl[k].fd > 0
  PROVE  Pending(k) \subseteq Pending(k)'
<1> USE DEF SocketInv, OwnershipInv
<1>1. /\ sending \in Seq(Item) /\ Len(sending) <= 1 /\ sending # <<>>
      /\ sending[1] \in Pdu /\ sendMessage(sending[1])
      /\ messageQueue' = messageQueue
  BY DEF SendItem, TypeOK, Pdu
<1>2. Pending(k)' = Elems(messageQueue') \cup Elems(sending') \cup Elems(inbox'[k])
  BY DEF Pending, Elems
<1>3. Elems(sending) = {sending[1]}
  <2>1. Len(sending) # 0 /\ Len(sending) \in Nat
    BY <1>1, EmptySeq, LenProperties
  <2>2. Len(sending) = 1
    <3>1. Len(sending) <= 1
      BY <1>1
    <3>2. \A n \in Nat : n # 0 /\ n <= 1 => n = 1
      OBVIOUS
    <3>3. QED
      BY <2>1, <3>1, <3>2, Zenon
  <2>3. DOMAIN sending = {1}
    BY <1>1, <2>2
  <2>4. QED
    BY <2>3 DEF Elems
<1>4. Elems(inbox'[k]) = Elems(inbox[k]) \cup {sending[1]}
  BY <1>1, Broadcast, MemberReached
<1>5. QED
  BY <1>1, <1>2, <1>3, <1>4 DEF Pending

LEMMA PendingKept ==
  ASSUME SocketInv, \A t \in Conn : ThreadInv(t), [Next]_vars,
         NEW k \in Conn, Listed(k), cl[k].fd > 0
  PROVE  Pending(k) \subseteq Pending(k)'
<1> USE DEF SocketInv, OwnershipInv
<1>1. CASE UNCHANGED queue
  <2>1. Elems(inbox[k]) \subseteq Elems(inbox'[k])
    BY ToldStep DEF Tells
  <2>2. Pending(k)' = Elems(messageQueue') \cup Elems(sending') \cup Elems(inbox'[k])
    BY DEF Pending, Elems
  <2>3. QED
    BY <1>1, <2>1, <2>2 DEF Pending, queue
<1>2. CASE msgQueue_pop
  BY <1>2, PopPending
<1>3. CASE SendItem
  BY <1>3, SendPending
<1>4. ASSUME NEW t \in Conn, handleMESS(t) PROVE Pending(k) \subseteq Pending(k)'
  <2>1. [op |-> "MESS", who |-> t, nr |-> nmess[t]] \in Item
    BY DEF Item, TypeOK
  <2>2. QED
    BY <1>4, <2>1, AddPending DEF handleMESS
<1>5. ASSUME NEW t \in Conn, QueueLeave(t) PROVE Pending(k) \subseteq Pending(k)'
  <2>1. [op |-> "PLEAVE", who |-> t, nr |-> nmess[t] + 1] \in Item
    BY DEF Item, TypeOK
  <2>2. QED
    BY <1>5, <2>1, AddPending DEF QueueLeave
<1>6. UNCHANGED queue \/ msgQueue_pop \/ SendItem
        \/ \E t \in Conn : handleMESS(t) \/ QueueLeave(t)
  <2>1. ASSUME NEW t \in Conn, Accept(t) \/ AcceptFails(t) \/ Arrives(t)
        PROVE  UNCHANGED queue
    BY <2>1 DEF Accept, AcceptFails, NewClient, Arrives, RecvJOIN, RecvMESS,
       RecvQUIT, RecvBad, RecvEOF
  <2>2. ASSUME NEW t \in Conn, Handles(t), ~handleMESS(t), ~QueueLeave(t)
        PROVE  UNCHANGED queue
    BY <2>2 DEF Handles, BadFd, clientHasJoined, checkUserName, RefuseName, AnnounceJoin,
       AppendClient, MarkJoined, ComposeParticipants, sendParticipants, sendQUIT,
       handleQUIT, killConnection
  <2>3. QED
    BY <2>1, <2>2 DEF Next, Sender, SizeCheck, AtRest, vars
<1>7. QED
  BY <1>1, <1>2, <1>3, <1>4, <1>5, <1>6

Untold == \A k \in Conn : cl[k].fd # 0 /\ Early(k) => Told(k) = {}

ToldInv == SocketInv /\ (\A t \in Conn : ThreadInv(t)) /\ Untold

DepartureInv == ToldInv /\ DeparturesReachMembers

LEMMA UntoldStep == ToldInv /\ [Next]_vars => ToldInv'
<1> SUFFICES ASSUME ToldInv, [Next]_vars PROVE Untold'
  BY SocketStep, ThreadStep DEF ToldInv, SocketInv
<1> USE DEF ToldInv, SocketInv
<1> SUFFICES ASSUME NEW k \in Conn, cl'[k].fd # 0, Early(k)' PROVE Told(k)' = {}
  BY DEF Untold
<1>1. Moved(k) /\ ThreadInv(k)
  BY MovedStep
<1>2. Early(k) /\ cl[k].fd # 0
  BY <1>1 DEF Moved, ThreadInv
<1>3. Told(k) = {} /\ Tells(k)
  BY <1>2, ToldStep DEF Untold
<1>4. ~Listed(k) /\ pc[k] \notin {"participants", "sendParticipants"}
  BY <1>1, <1>2, ListedIff DEF ThreadInv, Early, BeforeSlot, JoinPcs
<1>5. QED
  BY <1>3, <1>4 DEF Tells

LEMMA DepartureStep ==
  ASSUME DepartureInv, [Next]_vars PROVE DeparturesReachMembers'
<1> USE DEF DepartureInv, ToldInv, SocketInv
<1>0. ToldInv'
  BY UntoldStep
<1> SUFFICES ASSUME NEW k \in Conn, Listed(k)', cl'[k].fd > 0, njoin'[k] = 1,
                    NEW s \in Told(k)', cl'[s].idNum # 0, ~Listed(s)', pc'[s] # "leave"
             PROVE  \E pdu \in Pending(k)' : IsLeave(pdu, s)
  BY DEF DeparturesReachMembers, Pending, IsLeave
<1>1. Live(k)' /\ cl'[k].idNum # 0
  BY <1>0, ListedNext DEF ListedIsLive
<1>2. Moved(k) /\ ThreadInv(k)
  BY MovedStep
<1>3. cl[k].fd > 0 /\ njoin[k] = 1
  BY <1>1, <1>2 DEF Moved, ThreadInv
<1>4. Tells(k)
  BY <1>3, ToldStep
<1>5. Listed(k)
  <2>1. CASE pc[k] = "append" /\ ~Listed(k)
    <3>1. Early(k)
      BY <1>3, <2>1 DEF Early, BeforeSlot
    <3>2. Told(k)' = {}
      BY <1>3, <1>4, <2>1, <3>1 DEF Tells, Untold
    <3>3. QED
      BY <3>2
  <2>2. QED
    BY <1>1, <1>2, <2>1, ListedIff DEF Moved
<1>6. s \in Conn
  <2>1. roster'[k] \subseteq Conn /\ inbox'[k] \in Seq(Pdu)
    BY <1>0 DEF OwnershipInv, TypeOK
  <2>2. News(Elems(inbox'[k])) \subseteq Conn
    BY <2>1, ElemsType, NewsType
  <2>3. Told(k)' = roster'[k] \cup News(Elems(inbox'[k]))
    BY DEF Told, News
  <2>4. QED
    BY <2>1, <2>2, <2>3
<1>7. pc'[s] = "exited"
  <2>1. ThreadInv(s)' /\ ~Live(s)'
    BY <1>0, <1>6, ListedNext DEF ListedIsLive
  <2>2. QED
    BY <2>1 DEF Live, ThreadInv
<1>8. Moved(s) /\ ThreadInv(s)
  BY <1>6, MovedStep
<1>9. CASE QueueLeave(s)
  <2>1. [op |-> "PLEAVE", who |-> s, nr |-> nmess[s] + 1] \in Item
    BY <1>6 DEF Item, OwnershipInv, TypeOK
  <2>2. Pending(k)' = Pending(k) \cup {[op |-> "PLEAVE", who |-> s, nr |-> nmess[s] + 1]}
    BY <1>9, <2>1, AddPending DEF QueueLeave, OwnershipInv
  <2>3. IsLeave([op |-> "PLEAVE", who |-> s, nr |-> nmess[s] + 1], s)
    BY DEF IsLeave
  <2>4. QED
    BY <2>2, <2>3
<1>10. CASE pc[s] = "exited" /\ cl'[s] = cl[s]
  <2>1. ~Listed(s) /\ s \in Told(k)
    BY <1>4, <1>6, <1>7, <1>10, ListedIff DEF Tells, Live
  <2>2. \E pdu \in Pending(k) : IsLeave(pdu, s)
    BY <1>3, <1>5, <1>10, <2>1 DEF DeparturesReachMembers, Pending
  <2>3. QED
    BY <1>3, <1>5, <2>2, PendingKept DEF IsLeave
<1>11. QED
  BY <1>7, <1>8, <1>9, <1>10 DEF Moved

LEMMA DepartureInit == Init => DepartureInv
<1> SUFFICES ASSUME Init PROVE DepartureInv
  OBVIOUS
<1>1. SocketInv
  BY SocketInit
<1>2. \A t \in Conn : ThreadInv(t)
  BY DEF Init, ThreadInv, Early, BeforeSlot, JoinPcs
<1>3. \A k \in Conn : Told(k) = {}
  <2> SUFFICES ASSUME NEW k \in Conn PROVE Told(k) = {}
    OBVIOUS
  <2>1. inbox[k] = <<>> /\ roster[k] = {}
    BY DEF Init
  <2>2. Elems(inbox[k]) = {}
    BY <2>1 DEF Elems
  <2>3. QED
    BY <2>1, <2>2, ToldIsNews, NewsNone
<1>4. QED
  BY <1>1, <1>2, <1>3 DEF DepartureInv, ToldInv, Untold, DeparturesReachMembers

(* No announced departure is lost: a member told of a session that has     *)
(* ended has its PLEAVE, or the queue or the sender still holds it, however *)
(* the session ended and however the threads interleave.                   *)
THEOREM DeparturesArrive == Spec => []DeparturesReachMembers
<1>1. DepartureInv /\ [Next]_vars => DepartureInv'
  BY UntoldStep, DepartureStep DEF DepartureInv
<1>2. DepartureInv => DeparturesReachMembers
  BY DEF DepartureInv
<1>3. QED
  BY DepartureInit, <1>1, <1>2, PTL DEF Spec

-----------------------------------------------------------------------------
(***************************************************************************)
(* Acquaintance: the members of the list, when their joins are done, are   *)
(* known to one another in one direction at least.  The roster of a join   *)
(* is sent only if no member has the empty name.                           *)
(***************************************************************************)
ThreadNamed(t) ==
  /\ pc[t] \in {"hasJoined", "checkName", "handleJOIN"} => ident[t] # NoName
  /\ pc[t] = "append" \/ cl[t].idNum # 0 => cl[t].name # NoName

Named == \A t \in Conn : ThreadNamed(t)

(* A member past the composing of its roster.                              *)
Settled(t) ==
  Live(t) /\ cl[t].idNum # 0 /\ pc[t] \notin {"setHasJoined", "participants"}

Met ==
  \A k, t \in Conn :
    k # t /\ Settled(k) /\ Settled(t) /\ cl[k].fd > 0 /\ cl[t].fd > 0 =>
      t \in Told(k) \/ k \in Told(t)

MetInv == ToldInv /\ Named /\ Met

LEMMA NamedStep ==
  ASSUME NoName \notin Names, OwnershipInv, Named, [Next]_vars
  PROVE  Named'
<1> USE DEF OwnershipInv, TypeOK, Goto, thread, count
<1>1. CASE SizeCheck \/ Sender \/ AtRest \/ UNCHANGED vars
  BY <1>1 DEF SizeCheck, Sender, msgQueue_pop, SendItem, AtRest, vars, Named, ThreadNamed
<1>2. ASSUME NEW t \in Conn, Accept(t) \/ AcceptFails(t) \/ Arrives(t) \/ Handles(t)
      PROVE  Named'
  <2>1. \A u \in Conn \ {t} : Same(u)
    BY <1>2, OthersSame
  <2>2. \A u \in Conn \ {t} : ident'[u] = ident[u]
    <3>1. CASE Accept(t) \/ AcceptFails(t) \/ Arrives(t)
      BY <3>1 DEF Accept, AcceptFails, NewClient, Arrives, RecvJOIN, RecvMESS, RecvQUIT,
         RecvBad, RecvEOF
    <3>2. CASE Handles(t)
      BY <3>2 DEF Handles, BadFd, clientHasJoined, checkUserName, RefuseName, AnnounceJoin,
         AppendClient, MarkJoined, ComposeParticipants, sendParticipants, handleMESS,
         sendQUIT, handleQUIT, QueueLeave, killConnection
    <3>3. QED
      BY <1>2, <3>1, <3>2
  <2>3. \A u \in Conn \ {t} : ThreadNamed(u)'
    BY <2>1, <2>2 DEF Same, Named, ThreadNamed
  <2>4. ThreadNamed(t)'
    <3> USE DEF Named, ThreadNamed
    <3>1. CASE Accept(t) \/ AcceptFails(t)
      BY <3>1 DEF Accept, AcceptFails, NewClient
    <3>2. ASSUME NEW n \in Names, RecvJOIN(t, n) PROVE ThreadNamed(t)'
      BY <3>2 DEF RecvJOIN
    <3>3. CASE RecvMESS(t) \/ RecvQUIT(t) \/ RecvBad(t) \/ RecvEOF(t) \/ BadFd(t)
      BY <3>3 DEF RecvMESS, RecvQUIT, RecvBad, RecvEOF, BadFd
    <3>4. CASE clientHasJoined(t) \/ checkUserName(t) \/ RefuseName(t)
      BY <3>4 DEF clientHasJoined, checkUserName, RefuseName
    <3>5. CASE AnnounceJoin(t)
      BY <3>5 DEF AnnounceJoin, Client
    <3>6. CASE AppendClient(t)
      <4>1. pc[t] = "append" /\ pc'[t] = "setHasJoined"
        BY <3>6 DEF AppendClient
      <4>2. cl'[t].name = cl[t].name
        BY <3>6 DEF AppendClient, append_Clientlist, Client
      <4>3. QED
        BY <4>1, <4>2
    <3>7. CASE MarkJoined(t) \/ ComposeParticipants(t) \/ sendParticipants(t)
      BY <3>7 DEF MarkJoined, ComposeParticipants, sendParticipants
    <3>8. CASE handleMESS(t) \/ sendQUIT(t) \/ handleQUIT(t) \/ QueueLeave(t) \/ killConnection(t)
      BY <3>8 DEF handleMESS, sendQUIT, handleQUIT, QueueLeave, killConnection
    <3>9. QED
      BY <1>2, <3>1, <3>2, <3>3, <3>4, <3>5, <3>6, <3>7, <3>8 DEF Arrives, Handles
  <2>5. QED
    BY <2>3, <2>4 DEF Named
<1>3. QED
  BY <1>1, <1>2 DEF Next

(* No occupied slot has the empty name, so a roster is always sent.        *)
LEMMA NoEmptySlot ==
  ASSUME OwnershipInv, Named, NEW i \in Slots, Occupied(i)
  PROVE  clientList[i].name # NoName
<1>1. PICK u \in Conn : u = clientList[i].who /\ Owns(u, i)
  BY DEF OwnershipInv, TypeOK, SlotOwnership, SlotKnowsOwner
<1>2. clientList[i].name = cl[u].name /\ cl[u].idNum # 0
  BY <1>1 DEF Owns, Occupied
<1>3. QED
  BY <1>2 DEF Named, ThreadNamed

(* A member settles by composing the roster of the whole list.             *)
LEMMA SettleStep ==
  ASSUME OwnershipInv, Named, [Next]_vars, NEW k \in Conn, Settled(k)', ~Settled(k)
  PROVE  Listed(k) /\ \A t \in Conn : Listed(t) => t \in Told(k)'
<1> USE DEF OwnershipInv, TypeOK, Goto, thread, count, Settled, Live
<1>1. ~Same(k)
  BY DEF Same
<1>2. CASE SizeCheck \/ Sender \/ AtRest \/ UNCHANGED vars
  BY <1>1, <1>2, IdleSame
<1>3. ASSUME NEW t \in Conn, t # k, Accept(t) \/ AcceptFails(t) \/ Arrives(t) \/ Handles(t)
      PROVE  FALSE
  BY <1>1, <1>3, OthersSame
<1>4. CASE Accept(k) \/ AcceptFails(k)
  BY <1>4 DEF Accept, AcceptFails, NewClient
<1>5. CASE Arrives(k)
  BY <1>5 DEF Arrives, RecvJOIN, RecvMESS, RecvQUIT, RecvBad, RecvEOF
<1>6. CASE BadFd(k) \/ clientHasJoined(k) \/ checkUserName(k) \/ RefuseName(k)
           \/ MarkJoined(k) \/ sendParticipants(k)
  BY <1>6 DEF BadFd, clientHasJoined, checkUserName, RefuseName, MarkJoined, sendParticipants
<1>7. CASE AnnounceJoin(k)
  BY <1>7 DEF AnnounceJoin, Client
<1>8. CASE AppendClient(k)
  BY <1>8 DEF AppendClient
<1>9. CASE handleMESS(k) \/ sendQUIT(k) \/ handleQUIT(k) \/ QueueLeave(k) \/ killConnection(k)
  BY <1>9 DEF handleMESS, sendQUIT, handleQUIT, QueueLeave, killConnection
<1>10. CASE ComposeParticipants(k)
  <2>1. roster' = [roster EXCEPT ![k] = {clientList[i].who : i \in {j \in Slots : Occupied(j)}}]
    BY <1>10, NoEmptySlot DEF ComposeParticipants
  <2>2. ASSUME NEW t \in Conn, Listed(t) PROVE t \in roster'[k]
    BY <2>1, <2>2 DEF Listed
  <2>3. Told(k)' = roster'[k] \cup News(Elems(inbox'[k]))
    BY DEF Told, News
  <2>4. Listed(k)
    BY <1>10, ListedIff DEF ComposeParticipants
  <2>5. QED
    BY <2>2, <2>3, <2>4
<1>11. QED
  BY <1>2, <1>3, <1>4, <1>5, <1>6, <1>7, <1>8, <1>9, <1>10 DEF Next, Handles

LEMMA MetStep ==
  ASSUME NoName \notin Names, MetInv, [Next]_vars PROVE Met'
<1> USE DEF MetInv, ToldInv, SocketInv
<1> SUFFICES ASSUME NEW k \in Conn, NEW t \in Conn, k # t, Settled(k)', Settled(t)',
                    cl'[k].fd > 0, cl'[t].fd > 0
             PROVE  t \in Told(k)' \/ k \in Told(t)'
  BY DEF Met
<1>1. \A u \in Conn : Moved(u)
  BY MovedStep
<1>2. cl[k].fd > 0 /\ cl[t].fd > 0
  BY <1>1 DEF Moved, Settled
<1>3. Told(k) \subseteq Told(k)' /\ Told(t) \subseteq Told(t)'
  BY <1>2, ToldStep DEF Tells
<1>4. Listed(k) /\ Listed(t)
  BY SettleStep, ListedIff DEF Settled
<1>5. CASE Settled(k) /\ Settled(t)
  BY <1>2, <1>3, <1>5 DEF Met
<1>6. CASE ~Settled(k) \/ ~Settled(t)
  BY <1>4, <1>6, SettleStep
<1>7. QED
  BY <1>5, <1>6

LEMMA MetInit == Init => MetInv
<1> SUFFICES ASSUME Init PROVE Named /\ Met
  BY DepartureInit DEF MetInv, DepartureInv
<1>1. \A t \in Conn : pc[t] = "none" /\ cl[t].idNum = 0
  BY DEF Init
<1>2. QED
  BY <1>1 DEF Named, ThreadNamed, Met, Settled

(* Two members whose joins are done do not both miss each other, although  *)
(* announcing, appending and sending the roster are three sections of the  *)
(* lock, if no client joins under the empty name.                          *)
THEOREM MembersAcquainted ==
  ASSUME NoName \notin Names PROVE Spec => []Acquainted
<1>1. MetInv /\ [Next]_vars => MetInv'
  BY UntoldStep, NamedStep, MetStep DEF MetInv, ToldInv, SocketInv
<1>2. MetInv => Acquainted
  <2> SUFFICES ASSUME MetInv, NEW k \in Conn, NEW t \in Conn, k # t,
                      Listed(k), Listed(t), pc[k] = "run", pc[t] = "run",
                      cl[k].fd > 0, cl[t].fd > 0
               PROVE  t \in Told(k) \/ k \in Told(t)
    BY DEF Acquainted
  <2>1. Settled(k) /\ Settled(t)
    BY ListedIff DEF Settled, MetInv, ToldInv, SocketInv
  <2>2. QED
    BY <2>1 DEF MetInv, Met
<1>3. QED
  BY MetInit, <1>1, <1>2, PTL DEF Spec
=============================================================================
