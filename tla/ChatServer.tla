----------------------------- MODULE ChatServer -----------------------------
(***************************************************************************)
(* The chat server of chat_server.c: the listening thread, one thread per  *)
(* accepted connection, the sender thread, and what they share: the table  *)
(* clientList, the queue messageQueue and the process's descriptors.       *)
(*                                                                         *)
(* Every section that holds clientList_LOCK alone is one action.  The      *)
(* sender holds messageQueue_LOCK across two actions (it takes the item    *)
(* out, then broadcasts it under clientList_LOCK), so `sending' stands for *)
(* that lock being held.  Sends neither block nor fail here except on a    *)
(* closed descriptor.  PDUs name the session they are about (the thread)   *)
(* in place of the identity string and carry no timestamp.                 *)
(*                                                                         *)
(* An unknown op code, or a failed recv(), leaves handleByteStream         *)
(* returning an uninitialised pointer: handleMessage then dispatches on    *)
(* arbitrary bytes, which the Recv actions allow at any time, or the       *)
(* process dies, which a behaviour that stops allows.                      *)
(*                                                                         *)
(* A definition named X_Something is a faulty X, kept beside it to show    *)
(* which property notices the fault; no action uses one.                   *)
(***************************************************************************)
EXTENDS Integers, Sequences, FiniteSets

CONSTANTS
  Conn,        (* connections, and the threads and sessions that serve them *)
  MaxClients,  (* slots of clientList: 255 in the code                      *)
  MaxFd,       (* bound: the highest descriptor the process may hold        *)
  Names,       (* identities the JOIN PDUs of the instance carry            *)
  NoName,      (* the empty identity, also the name in a cleared slot       *)
  Nobody,      (* owner of a free slot                                      *)
  Pdus,        (* the inputs the peers of the instance produce              *)
  AcceptErrors, (* whether accept() also fails while descriptors are left   *)
  MaxMess,     (* bound: MESS PDUs read from one connection                 *)
  MaxJoins     (* bound: JOIN PDUs read from one connection                 *)

ASSUME ServerAssumption ==
  /\ MaxClients \in Nat \ {0}
  /\ MaxFd \in Nat
  /\ AcceptErrors \in BOOLEAN
  /\ MaxMess \in Nat
  /\ MaxJoins \in Nat
  /\ Pdus \subseteq {"JOIN", "MESS", "QUIT", "BAD", "EOF"}
  /\ {"stdin", "closed", Nobody} \cap Conn = {}

VARIABLES
  listener,     (* the listening thread: at its size check or in accept()   *)
  pc,           (* where each client thread is                              *)
  cl,           (* the client struct of each thread                         *)
  ident,        (* the identity of the JOIN PDU a thread is handling        *)
  found,        (* the slot clientHasJoined found, read after the unlock    *)
  roster,       (* the PARTICIPANTS PDU composed but not sent yet           *)
  clientList,
  files,        (* descriptor table: what each descriptor refers to         *)
  messageQueue,
  sending,      (* <<item>> while the sender holds messageQueue_LOCK        *)
  inbox,        (* what has been written to each connection, in order       *)
  nmess, njoin  (* PDUs read per connection: numbers the messages, bounds   *)

thread == <<cl, ident, found, roster>>
queue == <<messageQueue, sending>>
count == <<nmess, njoin>>
vars == <<listener, pc, thread, clientList, files, queue, inbox, count>>

Slots == 1..MaxClients
Fds == 0..MaxFd
NoFd == -1

Item == [op : {"MESS", "PLEAVE"}, who : Conn, nr : Nat]

Pdu == Item \cup [op : {"PJOIN"}, who : Conn]
            \cup [op : {"PARTICIPANTS"}, roster : SUBSET Conn]
            \cup [op : {"TAKEN", "QUIT"}]

Goto(t, from, to) == pc[t] = from /\ pc' = [pc EXCEPT ![t] = to]

(***************************************************************************)
(* Descriptors and sends.                                                  *)
(***************************************************************************)
Peer(f) == IF f \in Fds THEN files[f] ELSE "closed"

fd_is_valid(f) == Peer(f) # "closed"

sendto_TCPSocket(f, pdu) ==
  inbox' = IF Peer(f) \in Conn
             THEN [inbox EXCEPT ![Peer(f)] = Append(@, pdu)]
             ELSE inbox

Occupied(i) == clientList[i].idNum # 0

(* One copy per occupied slot whose descriptor reaches connection k.       *)
Copies_SkipsFirst(k, pdu) ==
  [n \in 1..Cardinality({i \in Slots \ {1} : Occupied(i) /\ Peer(clientList[i].fd) = k})
     |-> pdu]

Copies(k, pdu) ==
  [n \in 1..Cardinality({i \in Slots : Occupied(i) /\ Peer(clientList[i].fd) = k})
     |-> pdu]

sendMessage(pdu) == inbox' = [k \in Conn |-> inbox[k] \o Copies(k, pdu)]

(***************************************************************************)
(* The client list.  Searches return the first slot that matches; c->idNum *)
(* is 0 until the thread has a slot, so a thread without one finds the     *)
(* first free slot.  `who' is a history field: the thread that filled it.  *)
(***************************************************************************)
FirstWithId(i, id) ==
  /\ clientList[i].idNum = id
  /\ \A j \in Slots : j < i => clientList[j].idNum # id

NoneWithId(id) == \A i \in Slots : clientList[i].idNum # id

FreeEntry ==
  [idNum |-> 0, name |-> NoName, hasJoined |-> FALSE, fd |-> 0, who |-> Nobody]

size_ClientList == Cardinality({i \in Slots : Occupied(i)})

userNameExists(n) == \E i \in Slots : clientList[i].name = n

append_Clientlist_OffByOne(t) ==
  \/ \E i \in Slots :
       /\ FirstWithId(i, 0)
       /\ cl' = [cl EXCEPT ![t].idNum = i + 1]
       /\ clientList' = [clientList EXCEPT ![i] =
            [idNum |-> i + 1, name |-> cl[t].name, hasJoined |-> cl[t].hasJoined,
             fd |-> cl[t].fd, who |-> t]]
  \/ NoneWithId(0) /\ UNCHANGED <<cl, clientList>>

append_Clientlist(t) ==
  \/ \E i \in Slots :
       /\ FirstWithId(i, 0)
       /\ cl' = [cl EXCEPT ![t].idNum = i]
       /\ clientList' = [clientList EXCEPT ![i] =
            [idNum |-> i, name |-> cl[t].name, hasJoined |-> cl[t].hasJoined,
             fd |-> cl[t].fd, who |-> t]]
  \/ NoneWithId(0) /\ UNCHANGED <<cl, clientList>>

setHasJoined(id) ==
  \/ \E i \in Slots :
       /\ FirstWithId(i, id)
       /\ clientList' = [clientList EXCEPT ![i].hasJoined = TRUE]
  \/ NoneWithId(id) /\ UNCHANGED clientList

Cleared_KeepsName(i) == [FreeEntry EXCEPT !.name = clientList[i].name]
Cleared_KeepsFd(i) == [FreeEntry EXCEPT !.fd = clientList[i].fd]

Cleared(i) == FreeEntry

CloseFd_Omitted(f) == files

CloseFd(f) == [files EXCEPT ![f] = "closed"]

remove_Client(id) ==
  \/ \E i \in Slots :
       /\ FirstWithId(i, id)
       /\ clientList' = [clientList EXCEPT ![i] = Cleared(i)]
       /\ files' = CloseFd(clientList[i].fd)
  \/ NoneWithId(id) /\ UNCHANGED <<clientList, files>>

(***************************************************************************)
(* The listening thread.  The size of the list is read before accept()     *)
(* blocks; accept() returns the lowest free descriptor, or fails because   *)
(* none is left or the connection is gone, and the result is not checked.  *)
(***************************************************************************)
SizeCheck ==
  /\ listener = "check"
  /\ size_ClientList < MaxClients
  /\ listener' = "accept"
  /\ UNCHANGED <<pc, thread, clientList, files, queue, inbox, count>>

NewClient(t, fd) ==
  /\ cl' = [cl EXCEPT ![t] =
              [idNum |-> 0, name |-> NoName, hasJoined |-> FALSE, fd |-> fd]]
  /\ Goto(t, "none", "run")
  /\ listener = "accept"
  /\ listener' = "check"
  /\ UNCHANGED <<ident, found, roster, clientList, queue, inbox, count>>

Accept(t) ==
  \E fd \in Fds :
    /\ files[fd] = "closed"
    /\ \A g \in Fds : g < fd => files[g] # "closed"
    /\ files' = [files EXCEPT ![fd] = t]
    /\ NewClient(t, fd)

AcceptFails(t) ==
  /\ AcceptErrors \/ \A g \in Fds : files[g] # "closed"
  /\ NewClient(t, NoFd)
  /\ UNCHANGED files

(***************************************************************************)
(* client_thread_func, handleByteStream and handleMessage: one PDU is read *)
(* and dispatched.  clientHasJoined searches under the lock, in the action *)
(* that receives the JOIN, and reads the flag after the unlock.            *)
(***************************************************************************)
Reads(t, kind) == kind \in Pdus /\ cl[t].fd \in Fds

RecvJOIN(t, n) ==
  /\ Reads(t, "JOIN") /\ njoin[t] < MaxJoins
  /\ njoin' = [njoin EXCEPT ![t] = @ + 1]
  /\ ident' = [ident EXCEPT ![t] = n]
  /\ \/ \E i \in Slots :
          /\ FirstWithId(i, cl[t].idNum)
          /\ found' = [found EXCEPT ![t] = i]
          /\ Goto(t, "run", "hasJoined")
     \/ /\ NoneWithId(cl[t].idNum)
        /\ Goto(t, "run", "checkName")
        /\ UNCHANGED found
  /\ UNCHANGED <<listener, cl, roster, clientList, files, queue, inbox, nmess>>

clientHasJoined_Ignored(t) ==
  /\ Goto(t, "hasJoined", "checkName")
  /\ found' = [found EXCEPT ![t] = 1]
  /\ UNCHANGED <<listener, cl, ident, roster, clientList, files, queue, inbox, count>>

clientHasJoined(t) ==
  /\ \/ clientList[found[t]].hasJoined /\ Goto(t, "hasJoined", "sendQUIT")
     \/ ~clientList[found[t]].hasJoined /\ Goto(t, "hasJoined", "checkName")
  /\ found' = [found EXCEPT ![t] = 1]
  /\ UNCHANGED <<listener, cl, ident, roster, clientList, files, queue, inbox, count>>

RecvMESS(t) ==
  /\ Reads(t, "MESS")
  /\ \/ /\ cl[t].hasJoined /\ nmess[t] < MaxMess
        /\ nmess' = [nmess EXCEPT ![t] = @ + 1]
        /\ Goto(t, "run", "handleMESS")
     \/ /\ ~cl[t].hasJoined
        /\ Goto(t, "run", "sendQUIT")
        /\ UNCHANGED nmess
  /\ UNCHANGED <<listener, thread, clientList, files, queue, inbox, njoin>>

RecvQUIT(t) ==
  /\ Reads(t, "QUIT")
  /\ Goto(t, "run", "handleQUIT")
  /\ UNCHANGED <<listener, thread, clientList, files, queue, inbox, count>>

(* A PDU that fails validation, or one with an unknown op code.            *)
RecvBad(t) ==
  /\ Reads(t, "BAD")
  /\ Goto(t, "run", "sendQUIT")
  /\ UNCHANGED <<listener, thread, clientList, files, queue, inbox, count>>

RecvEOF_Kills(t) ==
  /\ Reads(t, "EOF") /\ fd_is_valid(cl[t].fd)
  /\ Goto(t, "run", "kill")
  /\ UNCHANGED <<listener, thread, clientList, files, queue, inbox, count>>

RecvEOF(t) ==
  /\ Reads(t, "EOF") /\ fd_is_valid(cl[t].fd)
  /\ \/ cl[t].hasJoined /\ Goto(t, "run", "handleQUIT")
     \/ ~cl[t].hasJoined /\ Goto(t, "run", "kill")
  /\ UNCHANGED <<listener, thread, clientList, files, queue, inbox, count>>

(* The descriptor check at the top of the loop.                            *)
BadFd(t) ==
  /\ ~fd_is_valid(cl[t].fd)
  /\ Goto(t, "run", "handleQUIT")
  /\ UNCHANGED <<listener, thread, clientList, files, queue, inbox, count>>

(***************************************************************************)
(* JOIN: checkUserName, then handleJOIN.                                   *)
(***************************************************************************)
checkUserName(t) ==
  /\ \/ userNameExists(ident[t]) /\ Goto(t, "checkName", "taken")
     \/ ~userNameExists(ident[t]) /\ Goto(t, "checkName", "handleJOIN")
  /\ UNCHANGED <<listener, thread, clientList, files, queue, inbox, count>>

(* The thread ends here without remove_Client and without close().         *)
RefuseName(t) ==
  /\ Goto(t, "taken", "exited")
  /\ inbox' = IF Peer(cl[t].fd) \in Conn
                THEN [inbox EXCEPT ![Peer(cl[t].fd)] =
                        @ \o <<[op |-> "TAKEN"], [op |-> "QUIT"]>>]
                ELSE inbox
  /\ ident' = [ident EXCEPT ![t] = NoName]
  /\ UNCHANGED <<listener, cl, found, roster, clientList, files, queue, count>>

AnnounceJoin(t) ==
  /\ Goto(t, "handleJOIN", "append")
  /\ sendMessage([op |-> "PJOIN", who |-> t])
  /\ cl' = [cl EXCEPT ![t] = [@ EXCEPT !.hasJoined = TRUE, !.name = ident[t]]]
  /\ ident' = [ident EXCEPT ![t] = NoName]
  /\ UNCHANGED <<listener, found, roster, clientList, files, queue, count>>

AppendClient(t) ==
  /\ Goto(t, "append", "setHasJoined")
  /\ append_Clientlist(t)
  /\ UNCHANGED <<listener, ident, found, roster, files, queue, inbox, count>>

MarkJoined_Returns(t) ==
  /\ Goto(t, "setHasJoined", "run")
  /\ setHasJoined(cl[t].idNum)
  /\ UNCHANGED <<listener, thread, files, queue, inbox, count>>

MarkJoined(t) ==
  /\ Goto(t, "setHasJoined", "participants")
  /\ setHasJoined(cl[t].idNum)
  /\ UNCHANGED <<listener, thread, files, queue, inbox, count>>

(* validate_PARTICIPANTS refuses a PDU with an empty name in it: nothing   *)
(* is sent then.                                                           *)
ComposeParticipants(t) ==
  /\ \/ /\ \A i \in Slots : Occupied(i) => clientList[i].name # NoName
        /\ roster' = [roster EXCEPT ![t] =
                        {clientList[i].who : i \in {j \in Slots : Occupied(j)}}]
        /\ Goto(t, "participants", "sendParticipants")
     \/ /\ \E i \in Slots : Occupied(i) /\ clientList[i].name = NoName
        /\ Goto(t, "participants", "run")
        /\ UNCHANGED roster
  /\ UNCHANGED <<listener, cl, ident, found, clientList, files, queue, inbox, count>>

sendParticipants(t) ==
  /\ Goto(t, "sendParticipants", "run")
  /\ sendto_TCPSocket(cl[t].fd, [op |-> "PARTICIPANTS", roster |-> roster[t]])
  /\ roster' = [roster EXCEPT ![t] = {}]
  /\ UNCHANGED <<listener, cl, ident, found, clientList, files, queue, count>>

(***************************************************************************)
(* MESS and QUIT.  Adding to the queue needs messageQueue_LOCK.            *)
(***************************************************************************)
msgQueue_add_AtFront(item) ==
  /\ sending = <<>>
  /\ messageQueue' = <<item>> \o messageQueue
  /\ UNCHANGED sending

msgQueue_add(item) ==
  /\ sending = <<>>
  /\ messageQueue' = Append(messageQueue, item)
  /\ UNCHANGED sending

handleMESS(t) ==
  /\ Goto(t, "handleMESS", "run")
  /\ msgQueue_add([op |-> "MESS", who |-> t, nr |-> nmess[t]])
  /\ UNCHANGED <<listener, thread, clientList, files, inbox, count>>

sendQUIT(t) ==
  /\ Goto(t, "sendQUIT", "handleQUIT")
  /\ sendto_TCPSocket(cl[t].fd, [op |-> "QUIT"])
  /\ UNCHANGED <<listener, thread, clientList, files, queue, count>>

handleQUIT(t) ==
  /\ Goto(t, "handleQUIT", "leave")
  /\ remove_Client(cl[t].idNum)
  /\ UNCHANGED <<listener, thread, queue, inbox, count>>

(* The leave takes the number after the session's last message.            *)
QueueLeave(t) ==
  /\ Goto(t, "leave", "exited")
  /\ msgQueue_add([op |-> "PLEAVE", who |-> t, nr |-> nmess[t] + 1])
  /\ UNCHANGED <<listener, thread, clientList, files, inbox, count>>

killConnection(t) ==
  /\ Goto(t, "kill", "exited")
  /\ remove_Client(cl[t].idNum)
  /\ UNCHANGED <<listener, thread, queue, inbox, count>>

(***************************************************************************)
(* The sender thread.                                                      *)
(***************************************************************************)
msgQueue_pop ==
  /\ messageQueue # <<>>
  /\ sending = <<>>
  /\ sending' = <<Head(messageQueue)>>
  /\ messageQueue' = Tail(messageQueue)
  /\ UNCHANGED <<listener, pc, thread, clientList, files, inbox, count>>

SendItem ==
  /\ sending # <<>>
  /\ sendMessage(sending[1])
  /\ sending' = <<>>
  /\ UNCHANGED <<listener, pc, thread, clientList, files, messageQueue, count>>

-----------------------------------------------------------------------------
Init ==
  /\ listener = "check"
  /\ pc = [t \in Conn |-> "none"]
  /\ cl = [t \in Conn |->
             [idNum |-> 0, name |-> NoName, hasJoined |-> FALSE, fd |-> NoFd]]
  /\ ident = [t \in Conn |-> NoName]
  /\ found = [t \in Conn |-> 1]
  /\ roster = [t \in Conn |-> {}]
  /\ clientList = [i \in Slots |-> FreeEntry]
  /\ files = [f \in Fds |-> IF f = 0 THEN "stdin" ELSE "closed"]
  /\ messageQueue = <<>>
  /\ sending = <<>>
  /\ inbox = [k \in Conn |-> <<>>]
  /\ nmess = [t \in Conn |-> 0]
  /\ njoin = [t \in Conn |-> 0]

(* A PDU arrives, or a connection: the peers' doing.                       *)
Arrives(t) ==
  \/ \E n \in Names : RecvJOIN(t, n)
  \/ RecvMESS(t) \/ RecvQUIT(t) \/ RecvBad(t) \/ RecvEOF(t)

(* What a thread does once it has something to do.                         *)
Handles(t) ==
  \/ BadFd(t) \/ clientHasJoined(t) \/ checkUserName(t) \/ RefuseName(t)
  \/ AnnounceJoin(t) \/ AppendClient(t) \/ MarkJoined(t)
  \/ ComposeParticipants(t) \/ sendParticipants(t)
  \/ handleMESS(t) \/ sendQUIT(t) \/ handleQUIT(t) \/ QueueLeave(t)
  \/ killConnection(t)

Sender == msgQueue_pop \/ SendItem

(* Every thread waits for its peer and the queue is empty.                 *)
AtRest ==
  /\ \A t \in Conn : pc[t] \in {"none", "run", "exited"}
  /\ messageQueue = <<>> /\ sending = <<>>
  /\ UNCHANGED vars

Next ==
  \/ SizeCheck
  \/ \E t \in Conn : Accept(t) \/ AcceptFails(t) \/ Arrives(t) \/ Handles(t)
  \/ Sender
  \/ AtRest

Spec == Init /\ [][Next]_vars

(* The threads that have work are scheduled; no peer owes the server       *)
(* anything.                                                               *)
FairSpec == Spec /\ WF_vars(Sender) /\ \A t \in Conn : WF_vars(Handles(t))

-----------------------------------------------------------------------------
(***************************************************************************)
(* Properties.                                                             *)
(***************************************************************************)
Pcs ==
  {"none", "run", "hasJoined", "checkName", "taken", "handleJOIN", "append",
   "setHasJoined", "participants", "sendParticipants", "handleMESS",
   "sendQUIT", "handleQUIT", "leave", "kill", "exited"}

Identity == Names \cup {NoName}

Client == [idNum : 0..MaxClients, name : Identity, hasJoined : BOOLEAN,
           fd : Fds \cup {NoFd}]

Entry == [idNum : 0..MaxClients, name : Identity, hasJoined : BOOLEAN,
          fd : Fds \cup {NoFd}, who : Conn \cup {Nobody}]

(* The values the variables range over; a slot's owner is a connection.    *)
TypeOK ==
  /\ listener \in {"check", "accept"}
  /\ pc \in [Conn -> Pcs]
  /\ cl \in [Conn -> Client]
  /\ ident \in [Conn -> Identity]
  /\ found \in [Conn -> Slots]
  /\ roster \in [Conn -> SUBSET Conn]
  /\ clientList \in [Slots -> Entry]
  /\ \A i \in Slots : Occupied(i) => clientList[i].who \in Conn
  /\ files \in [Fds -> Conn \cup {"stdin", "closed"}]
  /\ messageQueue \in Seq(Item)
  /\ sending \in Seq(Item) /\ Len(sending) <= 1
  /\ inbox \in [Conn -> Seq(Pdu)]
  /\ nmess \in [Conn -> Nat]
  /\ njoin \in [Conn -> Nat]

(* The thread has not given its slot and its socket back yet.              *)
Live(t) == pc[t] \notin {"none", "leave", "exited"}

Joining(t) == pc[t] \in {"checkName", "taken", "handleJOIN", "append"}

Owns(u, i) ==
  /\ Live(u) /\ cl[u].idNum = i
  /\ clientList[i].idNum = i
  /\ clientList[i].fd = cl[u].fd
  /\ clientList[i].name = cl[u].name
  /\ clientList[i].hasJoined

SlotKnowsOwner == \A i \in Slots : Occupied(i) => Owns(clientList[i].who, i)

FreeSlotIsClean ==
  \A i \in Slots : ~Occupied(i) =>
    clientList[i].name = NoName /\ clientList[i].fd = 0

OwnerKnowsSlot ==
  \A t \in Conn : Live(t) /\ cl[t].idNum # 0 =>
    Occupied(cl[t].idNum) /\ clientList[cl[t].idNum].who = t

NoSlotBeforeAppend ==
  \A t \in Conn :
    /\ Joining(t) => cl[t].idNum = 0
    /\ pc[t] = "hasJoined" /\ cl[t].idNum # 0 => found[t] = cl[t].idNum

(* append_Clientlist, remove_Client: slots and the threads that think they *)
(* have one agree on number, descriptor and name, no thread has two, a     *)
(* freed slot keeps nothing of its client, and a second JOIN never gets a  *)
(* member to append itself again, whatever interleaving cuts the two       *)
(* copies (`cl' and the table) apart.                                      *)
SlotOwnership ==
  SlotKnowsOwner /\ FreeSlotIsClean /\ OwnerKnowsSlot /\ NoSlotBeforeAppend

(* remove_Client closes the descriptor in the slot it clears, also when    *)
(* called by a thread without a slot: no thread loses its socket to that,  *)
(* and no two threads share one, for every descriptor but 0.               *)
OwnSocket ==
  \A t \in Conn : Live(t) /\ cl[t].fd > 0 => files[cl[t].fd] = t

(* A member's socket is closed once its thread has ended: leaving members  *)
(* do not use the descriptors up.                                          *)
SocketReleased ==
  \A t \in Conn : pc[t] = "exited" /\ cl[t].idNum # 0 =>
    \A f \in Fds : files[f] # t

Listed(t) == \E i \in Slots : Occupied(i) /\ clientList[i].who = t

Elems(s) == {s[n] : n \in DOMAIN s}

(* What session s said, of what was written to connection k.               *)
Said(pdu, s) == pdu.op \in {"MESS", "PLEAVE"} /\ pdu.who = s

(* handleMESS, handleQUIT and the sender: whatever part of a session a     *)
(* connection sees, it sees in the order of sending, without a gap or a    *)
(* repetition, and nothing after the PLEAVE.                               *)
InOrder(s, log) ==
  \A m, n \in DOMAIN log :
    (/\ m < n /\ Said(log[m], s) /\ Said(log[n], s)
     /\ \A j \in (m + 1)..(n - 1) : ~Said(log[j], s)) =>
      log[n].nr = log[m].nr + 1

SenderFifo == \A k, s \in Conn : cl[k].fd > 0 => InOrder(s, inbox[k])

(* The sessions connection k has been told are in the room.                *)
Told(k) ==
  roster[k]
    \cup (UNION {pdu.roster : pdu \in {p \in Elems(inbox[k]) : p.op = "PARTICIPANTS"}})
    \cup {pdu.who : pdu \in {p \in Elems(inbox[k]) : p.op = "PJOIN"}}

(* handleJOIN: although PJOIN, append and PARTICIPANTS are three sections   *)
(* of the lock, two members that have finished joining do not both miss    *)
(* each other: one at least has been told of the other.                    *)
Acquainted ==
  \A k, t \in Conn :
    k # t /\ Listed(k) /\ Listed(t) /\ pc[k] = "run" /\ pc[t] = "run"
          /\ cl[k].fd > 0 /\ cl[t].fd > 0 =>
      t \in Told(k) \/ k \in Told(t)

IsLeave(pdu, s) == pdu.op = "PLEAVE" /\ pdu.who = s

(* A member that has been told of a session which left the list gets its   *)
(* PLEAVE or has it coming, whether the session ended by QUIT, by an       *)
(* invalid PDU or by the end of the connection.  A client that joins again *)
(* is left out: with the table full its first JOIN is answered like any    *)
(* other, but the departures before it gets a slot pass it by.             *)
DeparturesReachMembers ==
  \A k \in Conn : Listed(k) /\ cl[k].fd > 0 /\ njoin[k] = 1 =>
    \A s \in Told(k) : cl[s].idNum # 0 =>
      \/ Listed(s)
      \/ pc[s] = "leave"
      \/ \E pdu \in Elems(messageQueue) \cup Elems(sending) \cup Elems(inbox[k]) :
           IsLeave(pdu, s)

(* userNameExists searches the free slots too: a name is refused only if a *)
(* member has it at that moment, so a name is free again once its owner's  *)
(* slot is.                                                                *)
NameReuse ==
  [][\A t \in Conn :
       pc[t] = "checkName" /\ pc'[t] = "taken" /\ ident[t] # NoName =>
         \E i \in Slots : Occupied(i) /\ clientList[i].name = ident[t]]_vars

(* The room as those see it whose descriptor is not 0: there another       *)
(* thread may close it and accept() give it to somebody else.              *)
StandingOf(t) ==
  CASE pc[t] = "none" -> "away"
    [] pc[t] = "leave" -> "leaving"
    [] pc[t] = "exited" -> "left"
    [] Live(t) /\ cl[t].idNum # 0 -> "in"
    [] Live(t) /\ cl[t].idNum = 0 /\ cl[t].hasJoined -> "announced"
    [] Live(t) /\ cl[t].idNum = 0 /\ ~cl[t].hasJoined -> "outside"

Standing == [t \in Conn |-> StandingOf(t)]

Hearing == {t \in Conn : cl[t].fd > 0}

Queued == [t \in Conn |-> IF pc[t] = "handleMESS" THEN nmess[t] - 1 ELSE nmess[t]]

Line == sending \o messageQueue

Log == [t \in Conn |-> IF t \in Hearing THEN inbox[t] ELSE <<>>]

R == INSTANCE ChatRoom WITH
       Person <- Conn, standing <- Standing, hearing <- Hearing, said <- Queued,
       list <- roster, line <- Line, log <- Log

(* The server as a whole, through slots, ids, descriptors, copied structs, *)
(* two locks and a second thread, is a room: all members hear everything   *)
(* that is said while they are in it, once and in one order.               *)
IsRoom == R!Spec

(* The session s is about to queue its n-th item: a message or its leave.  *)
Speaks(s, n) ==
  \/ pc[s] = "handleMESS" /\ nmess[s] = n
  \/ pc[s] = "leave" /\ nmess[s] + 1 = n

Hears(k, s, n) == \E m \in DOMAIN inbox[k] : Said(inbox[k][m], s) /\ inbox[k][m].nr = n

(* A message or a leave that is about to be queued reaches every other     *)
(* member that stays, through the queue and the sender.                    *)
ItemsDelivered ==
  \A s, k \in Conn : s # k => \A n \in 1..(MaxMess + 1) :
    (Speaks(s, n) /\ Listed(k) /\ cl[k].fd > 0) ~> (Hears(k, s, n) \/ ~Listed(k))

(* A JOIN is answered: by the participants, or by the QUIT that refuses    *)
(* it.                                                                     *)
JoinAnswered ==
  \A t \in Conn :
    (pc[t] \in {"hasJoined", "checkName"} /\ cl[t].fd > 0)
      ~> (\E pdu \in Elems(inbox[t]) : pdu.op \in {"PARTICIPANTS", "QUIT"})
=============================================================================
