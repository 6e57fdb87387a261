------------------------------ MODULE SendPath -------------------------------
(***************************************************************************)
(* The ways of the chat server to its clients' sockets, with buffers that  *)
(* fill up, sends that block, and clients that end at any time.  A thread  *)
(* that joins broadcasts the PJOIN with clientList_LOCK held; the sender   *)
(* broadcasts with messageQueue_LOCK and clientList_LOCK held; everything  *)
(* else a handler does waits for one of the two.                           *)
(*                                                                         *)
(* A section of clientList_LOCK that sends nothing is one action, and so   *)
(* is one of messageQueue_LOCK that adds an item.  Only the number of      *)
(* messages matters: those queued and those in a client's socket.  Names   *)
(* are left out, so any member may turn out to have the name of a JOIN;    *)
(* the table has room for all clients.                                     *)
(*                                                                         *)
(* A definition named X_Something is a faulty X; no action uses one.       *)
(***************************************************************************)
EXTENDS Integers, FiniteSets

CONSTANTS
  Conn,         (* connections, their handler threads and their clients    *)
  Nobody,       (* owner of a free slot; holder of a free lock             *)
  MaxClients,   (* slots of clientList                                     *)
  Room,         (* PDUs a client's receive buffer holds                    *)
  MaxPdus       (* bound: PDUs a client sends                              *)

ASSUME PathAssumption ==
  /\ Nobody \notin Conn /\ "sender" \notin Conn \cup {Nobody}
  /\ IsFiniteSet(Conn)
  /\ MaxClients \in Nat /\ MaxClients >= Cardinality(Conn) /\ Room \in Nat \ {0} /\ MaxPdus \in Nat

VARIABLES
  server,       (* up, killed by SIGPIPE, or crashed                       *)
  pc,           (* the handler threads                                     *)
  sender,       (* the sender thread: idle, or it holds messageQueue_LOCK  *)
  listLock,     (* the thread that holds clientList_LOCK                   *)
  slot,         (* i of the loop that thread is in                         *)
  clientList,
  messageQueue, (* how many items there are                                *)
  closed,       (* the server has closed its descriptor                    *)
  life,         (* the client's end of the connection                      *)
  typed,        (* how many PDUs the client has sent                       *)
  up,           (* the one that waits for the handler to read              *)
  down          (* how many PDUs wait for the client to read               *)

client == <<typed, up>>
socket == <<closed, life, down>>
vars == <<server, pc, sender, listLock, slot, clientList, messageQueue, socket, client>>

Slots == 1..MaxClients

Goto(t, from, to) == pc[t] = from /\ pc' = [pc EXCEPT ![t] = to]

Listed(t) == \E i \in Slots : clientList[i] = t

(***************************************************************************)
(* send().  A client that ends with PDUs unread resets the connection; one *)
(* that has read everything closes it, and resets it when more comes.  The *)
(* reset is reported once, from then on send() raises SIGPIPE.             *)
(***************************************************************************)
sendto_TCPSocket(c) ==
  \/ closed[c] /\ UNCHANGED <<server, down, life>>
  \/ /\ ~closed[c] /\ life[c] = "open" /\ down[c] < Room
     /\ down' = [down EXCEPT ![c] = @ + 1]
     /\ UNCHANGED <<server, life>>
  \/ /\ ~closed[c] /\ life[c] \in {"ended", "reset"}
     /\ life' = [life EXCEPT ![c] = "gone"]
     /\ UNCHANGED <<server, down>>
  \/ /\ ~closed[c] /\ life[c] = "gone"
     /\ server' = "killed"
     /\ UNCHANGED <<down, life>>

sendMessage_OneMore ==
  /\ slot \in 1..(MaxClients + 1)
  /\ slot' = slot + 1
  /\ \/ slot \notin Slots /\ UNCHANGED <<server, down, life>>
     \/ slot \in Slots /\ clientList[slot] = Nobody /\ UNCHANGED <<server, down, life>>
     \/ slot \in Slots /\ clientList[slot] # Nobody /\ sendto_TCPSocket(clientList[slot])
  /\ UNCHANGED <<sender, pc, listLock, clientList, messageQueue, closed, client>>

(* One turn of the loop over the slots.                                    *)
sendMessage ==
  /\ slot \in Slots
  /\ slot' = slot + 1
  /\ \/ clientList[slot] = Nobody /\ UNCHANGED <<server, down, life>>
     \/ clientList[slot] # Nobody /\ sendto_TCPSocket(clientList[slot])
  /\ UNCHANGED <<sender, pc, listLock, clientList, messageQueue, closed, client>>

BeginLoop(holder) == listLock = Nobody /\ listLock' = holder /\ slot' = 1

EndLoop(holder) == listLock = holder /\ slot > MaxClients /\ listLock' = Nobody /\ slot' = 0

(***************************************************************************)
(* The handler threads.                                                    *)
(***************************************************************************)
(* c->hasJoined is set of those in the list.  To a MESS before the JOIN    *)
(* the answer is sendQUIT, as it is to what is no PDU.                     *)
Case(t, op) == IF op = "MESS" /\ ~Listed(t) THEN "BAD" ELSE op

RecvPDU(t) ==
  /\ up[t] # "nothing"
  /\ Goto(t, "recv", Case(t, up[t]))
  /\ up' = [up EXCEPT ![t] = "nothing"]
  /\ UNCHANGED <<server, sender, listLock, slot, clientList, messageQueue, socket, typed>>

(* The connection has been reset: -1 is not 0, and handleByteStream        *)
(* returns a pointer it has not set.  The server ends by it, or takes      *)
(* what it points to for a PDU.                                            *)
RecvFails(t) ==
  /\ up[t] = "nothing" /\ life[t] = "reset"
  /\ life' = [life EXCEPT ![t] = "gone"]
  /\ \/ pc[t] = "recv" /\ server' = "crashed" /\ UNCHANGED pc
     \/ UNCHANGED server /\ \E op \in {"JOIN", "MESS", "QUIT", "BAD"} : Goto(t, "recv", Case(t, op))
  /\ UNCHANGED <<sender, listLock, slot, clientList, messageQueue, closed, down, client>>

RecvEOF(t) ==
  /\ up[t] = "nothing" /\ life[t] \in {"ended", "gone"}
  /\ Goto(t, "recv", IF Listed(t) THEN "QUIT" ELSE "kill")
  /\ UNCHANGED <<server, sender, listLock, slot, clientList, messageQueue, socket, client>>

(* remove_Client finds nothing to remove.                                  *)
killConnection(t) ==
  /\ Goto(t, "kill", "ended") /\ listLock = Nobody
  /\ UNCHANGED <<server, sender, listLock, slot, clientList, messageQueue, socket, client>>

(* A handler's own send, without a lock.                                   *)
SendAlone(t, from, to) ==
  /\ Goto(t, from, to)
  /\ sendto_TCPSocket(t)
  /\ UNCHANGED <<sender, listLock, slot, clientList, messageQueue, closed, client>>

clientHasJoined(t) ==
  /\ Goto(t, "JOIN", IF Listed(t) THEN "BAD" ELSE "checkUserName") /\ listLock = Nobody
  /\ UNCHANGED <<server, sender, listLock, slot, clientList, messageQueue, socket, client>>

checkUserName(t) ==
  /\ listLock = Nobody
  /\ \/ Goto(t, "checkUserName", "handleJOIN")
     \/ (\E i \in Slots : clientList[i] # Nobody) /\ Goto(t, "checkUserName", "taken")
  /\ UNCHANGED <<server, sender, listLock, slot, clientList, messageQueue, socket, client>>

(* The refusal, and a QUIT; the thread ends with its descriptor open.      *)
RefuseName(t) == SendAlone(t, "taken", "refused") \/ SendAlone(t, "refused", "ended")

sendQUIT(t) == SendAlone(t, "BAD", "QUIT")

BeginPJOIN(t) ==
  /\ Goto(t, "handleJOIN", "PJOIN")
  /\ BeginLoop(t)
  /\ UNCHANGED <<server, sender, clientList, messageQueue, socket, client>>

EndPJOIN(t) ==
  /\ Goto(t, "PJOIN", "append")
  /\ EndLoop(t)
  /\ UNCHANGED <<server, sender, clientList, messageQueue, socket, client>>

append_Clientlist(t) ==
  /\ Goto(t, "append", "setHasJoined") /\ listLock = Nobody
  /\ \E i \in Slots :
       /\ clientList[i] = Nobody
       /\ \A j \in Slots : j < i => clientList[j] # Nobody
       /\ clientList' = [clientList EXCEPT ![i] = t]
  /\ UNCHANGED <<server, sender, listLock, slot, messageQueue, socket, client>>

(* The flag and the list of names are of no concern here.                  *)
setHasJoined(t) ==
  /\ Goto(t, "setHasJoined", "participants") /\ listLock = Nobody
  /\ UNCHANGED <<server, sender, listLock, slot, clientList, messageQueue, socket, client>>

ComposeParticipants(t) ==
  /\ Goto(t, "participants", "sendParticipants") /\ listLock = Nobody
  /\ UNCHANGED <<server, sender, listLock, slot, clientList, messageQueue, socket, client>>

sendParticipants(t) == SendAlone(t, "sendParticipants", "recv")

msgQueue_add == sender = "idle" /\ messageQueue' = messageQueue + 1

handleMESS(t) ==
  /\ Goto(t, "MESS", "recv")
  /\ msgQueue_add
  /\ UNCHANGED <<server, sender, listLock, slot, clientList, socket, client>>

(* Of a session that has not joined, a free slot is removed.               *)
Remove(t) ==
  /\ clientList' = [i \in Slots |-> IF clientList[i] = t THEN Nobody ELSE clientList[i]]
  /\ closed' = [closed EXCEPT ![t] = @ \/ Listed(t)]

remove_Client_Unlocked(t) ==
  /\ Goto(t, "QUIT", "leave")
  /\ Remove(t)
  /\ UNCHANGED <<server, sender, listLock, slot, messageQueue, life, down, client>>

remove_Client_KeepsLock(t) ==
  /\ Goto(t, "QUIT", "leave") /\ listLock = Nobody
  /\ Remove(t)
  /\ listLock' = t
  /\ UNCHANGED <<server, sender, slot, messageQueue, life, down, client>>

remove_Client(t) ==
  /\ Goto(t, "QUIT", "leave") /\ listLock = Nobody
  /\ Remove(t)
  /\ UNCHANGED <<server, sender, listLock, slot, messageQueue, life, down, client>>

handleQUIT(t) ==
  /\ Goto(t, "leave", "ended")
  /\ msgQueue_add
  /\ UNCHANGED <<server, sender, listLock, slot, clientList, socket, client>>

(***************************************************************************)
(* The sender thread.                                                      *)
(***************************************************************************)
msgQueue_pop ==
  /\ sender = "idle" /\ messageQueue > 0
  /\ sender' = "popped"
  /\ messageQueue' = messageQueue - 1
  /\ UNCHANGED <<server, pc, listLock, slot, clientList, socket, client>>

BeginItem ==
  /\ sender = "popped"
  /\ sender' = "sending"
  /\ BeginLoop("sender")
  /\ UNCHANGED <<server, pc, clientList, messageQueue, socket, client>>

EndItem ==
  /\ sender = "sending"
  /\ sender' = "idle"
  /\ EndLoop("sender")
  /\ UNCHANGED <<server, pc, clientList, messageQueue, socket, client>>

(***************************************************************************)
(* The clients: one thread of each writes, another reads.                  *)
(***************************************************************************)
Writes(c) ==
  /\ life[c] = "open" /\ up[c] = "nothing" /\ typed[c] < MaxPdus
  /\ \E op \in {"JOIN", "MESS", "QUIT"} :
       /\ up' = [up EXCEPT ![c] = op]
       /\ typed' = [typed EXCEPT ![c] = IF op = "QUIT" THEN MaxPdus ELSE @ + 1]
  /\ UNCHANGED <<server, pc, sender, listLock, slot, clientList, messageQueue, socket>>

Reads_BetweenWrites(c) ==
  /\ life[c] = "open" /\ down[c] > 0 /\ up[c] = "nothing"
  /\ down' = [down EXCEPT ![c] = 0]
  /\ UNCHANGED <<server, pc, sender, listLock, slot, clientList, messageQueue, closed, life, client>>

Reads(c) ==
  /\ life[c] = "open" /\ down[c] > 0
  /\ down' = [down EXCEPT ![c] = 0]
  /\ UNCHANGED <<server, pc, sender, listLock, slot, clientList, messageQueue, closed, life, client>>

(* By itself, or because of what it has read, or of the connection's end.  *)
Ends(c) ==
  /\ life[c] = "open"
  /\ life' = [life EXCEPT ![c] = IF down[c] > 0 THEN "reset" ELSE "ended"]
  /\ down' = [down EXCEPT ![c] = 0]
  /\ UNCHANGED <<server, pc, sender, listLock, slot, clientList, messageQueue, closed, client>>

-----------------------------------------------------------------------------
Init ==
  /\ server = "up"
  /\ pc = [t \in Conn |-> "recv"]
  /\ sender = "idle" /\ listLock = Nobody /\ slot = 0
  /\ clientList = [i \in Slots |-> Nobody]
  /\ messageQueue = 0
  /\ closed = [c \in Conn |-> FALSE] /\ life = [c \in Conn |-> "open"]
  /\ typed = [c \in Conn |-> 0]
  /\ up = [c \in Conn |-> "nothing"] /\ down = [c \in Conn |-> 0]

Handles(t) ==
  \/ RecvPDU(t) \/ RecvFails(t) \/ RecvEOF(t) \/ killConnection(t) \/ sendQUIT(t)
  \/ clientHasJoined(t) \/ checkUserName(t) \/ RefuseName(t)
  \/ BeginPJOIN(t) \/ (listLock = t /\ sendMessage) \/ EndPJOIN(t)
  \/ append_Clientlist(t) \/ setHasJoined(t) \/ ComposeParticipants(t) \/ sendParticipants(t)
  \/ handleMESS(t) \/ remove_Client(t) \/ handleQUIT(t)

sender_thread_func ==
  msgQueue_pop \/ BeginItem \/ (listLock = "sender" /\ sendMessage) \/ EndItem

Up == server = "up"

AtRest ==
  /\ Up => messageQueue = 0 /\ sender = "idle" /\ \A t \in Conn : pc[t] \in {"recv", "ended"}
  /\ UNCHANGED vars

Next ==
  \/ Up /\ (sender_thread_func \/ \E t \in Conn : Handles(t))
  \/ Up /\ \E c \in Conn : Writes(c) \/ Reads(c) \/ Ends(c)
  \/ AtRest

Spec == Init /\ [][Next]_vars

(* The threads are scheduled, and a client reads what comes until it ends; *)
(* it need not send anything, nor end.                                     *)
FairSpec ==
  /\ Spec
  /\ WF_vars(Up /\ sender_thread_func)
  /\ \A c \in Conn : WF_vars(Up /\ Handles(c)) /\ WF_vars(Up /\ Reads(c))

-----------------------------------------------------------------------------
Works(t) == pc[t] \notin {"recv", "ended"}

(* The values the variables range over; the loops stay within the table.   *)
TypeOK ==
  /\ server \in {"up", "killed", "crashed"}
  /\ pc \in [Conn -> {"recv", "JOIN", "checkUserName", "taken", "refused", "handleJOIN", "PJOIN",
                      "append", "setHasJoined", "participants", "sendParticipants",
                      "MESS", "BAD", "QUIT", "leave", "kill", "ended"}]
  /\ sender \in {"idle", "popped", "sending"}
  /\ listLock \in Conn \cup {"sender", Nobody}
  /\ slot \in 0..(MaxClients + 1)
  /\ clientList \in [Slots -> Conn \cup {Nobody}]
  /\ messageQueue \in Nat
  /\ closed \in [Conn -> BOOLEAN] /\ life \in [Conn -> {"open", "ended", "reset", "gone"}]
  /\ typed \in [Conn -> 0..MaxPdus]
  /\ up \in [Conn -> {"nothing", "JOIN", "MESS", "QUIT"}]
  /\ down \in [Conn -> 0..Room]

(* sendMessage, handleJOIN, remove_Client: while a broadcast is under way, *)
(* blocked in a send for as long as a client lets it, no slot is taken or  *)
(* freed and no descriptor closed.                                         *)
ListStays ==
  [][(slot \in Slots) => clientList' = clientList /\ closed' = closed]_vars

(* What each thread needs to take its next step.                           *)
Full(c) == ~closed[c] /\ life[c] = "open" /\ down[c] = Room

(* Where a handler sends to its own client.                                *)
Answers == {"sendParticipants", "taken", "refused", "BAD"}

SendBlocks == slot \in Slots /\ clientList[slot] # Nobody /\ Full(clientList[slot])

LoopGoesOn(holder) ==
  listLock = holder /\ (slot > MaxClients \/ (slot \in Slots /\ ~SendBlocks))

GoesOn(t) ==
  \/ /\ pc[t] \in {"JOIN", "checkUserName", "handleJOIN", "append", "setHasJoined", "participants", "QUIT", "kill"}
     /\ listLock = Nobody
     /\ pc[t] = "append" => \E i \in Slots : clientList[i] = Nobody
  \/ pc[t] = "PJOIN" /\ LoopGoesOn(t)
  \/ pc[t] \in Answers /\ ~Full(t)
  \/ pc[t] \in {"MESS", "leave"} /\ sender = "idle"

SenderGoesOn ==
  \/ sender = "popped" /\ listLock = Nobody
  \/ sender = "sending" /\ LoopGoesOn("sender")

(* sender_thread_func and the handlers, which take the locks one by one or *)
(* clientList_LOCK inside messageQueue_LOCK and send with them held: as    *)
(* long as one of the threads has something to do, one can go on, or is in *)
(* a send to a client that is there and does not read.  They never all     *)
(* wait for each other.                                                    *)
OnlyClientsBlock ==
  Up /\ (sender # "idle" \/ \E t \in Conn : Works(t)) =>
    \/ SenderGoesOn \/ SendBlocks
    \/ \E t \in Conn : GoesOn(t) \/ (pc[t] \in Answers /\ Full(t))

(* handleMessage and what it calls: a PDU in hand is dealt with, although  *)
(* sends block with one lock or both of them held, as long as the clients  *)
(* read what they are sent.                                                *)
HandlersReturn == \A t \in Conn : Works(t) ~> (~Works(t) \/ ~Up)

(* sender_thread_func, handleJOIN: both locks are free again and again,    *)
(* also for the listening thread and the one that sends ALIVE, which need  *)
(* clientList_LOCK for the number of clients; a client that has ended does *)
(* not hold them up.                                                       *)
LocksReleased ==
  /\ (listLock # Nobody) ~> (listLock = Nobody \/ ~Up)
  /\ (sender # "idle") ~> (sender = "idle" \/ ~Up)

-----------------------------------------------------------------------------
(* socket_lib.c:141, "Returns -1 on error, otherwise nr of bytes sent": a  *)
(* client that has ended does not take the server along.                   *)
SendReturns == server # "killed"
=============================================================================
