--------------------------- MODULE SendPathProofs ---------------------------
(***************************************************************************)
(* The client list does not change under a broadcast, and the threads      *)
(* never all wait for each other, for any number of connections, slots and *)
(* room in the sockets.                                                    *)
(***************************************************************************)
EXTENDS SendPath, FiniteSetTheorems, TLAPS

HandlerPcs ==
  {"recv", "JOIN", "checkUserName", "taken", "refused", "handleJOIN", "PJOIN",
   "append", "setHasJoined", "participants", "sendParticipants",
   "MESS", "BAD", "QUIT", "leave", "kill", "ended"}

(* TypeOK, and that nobody broadcasts without the lock: it is held from    *)
(* the first turn of the loop to the last.                                 *)
LoopUnderLock == slot # 0 => listLock # Nobody

PathInv == TypeOK /\ LoopUnderLock

LEMMA PathInit == Init => PathInv
<1> SUFFICES ASSUME Init PROVE PathInv
  OBVIOUS
<1>1. MaxClients \in Nat /\ Room \in Nat /\ MaxPdus \in Nat
  BY PathAssumption
<1>2. 0 \in 0..(MaxClients + 1) /\ 0 \in 0..MaxPdus /\ 0 \in 0..Room
  BY <1>1
<1>3. QED
  BY <1>2 DEF Init, PathInv, LoopUnderLock, TypeOK

(* A send fills a client's socket no further than it goes.                 *)
LEMMA SendTypes ==
  ASSUME TypeOK, NEW c \in Conn, sendto_TCPSocket(c)
  PROVE  /\ server' \in {"up", "killed", "crashed"}
         /\ down' \in [Conn -> 0..Room]
         /\ life' \in [Conn -> {"open", "ended", "reset", "gone"}]
<1>1. Room \in Nat
  BY PathAssumption
<1>2. CASE UNCHANGED <<server, down, life>>
  BY <1>2 DEF TypeOK
<1>3. CASE /\ down[c] < Room /\ down' = [down EXCEPT ![c] = @ + 1]
           /\ UNCHANGED <<server, life>>
  <2>1. down[c] + 1 \in 0..Room
    BY <1>1, <1>3 DEF TypeOK
  <2>2. QED
    BY <1>3, <2>1 DEF TypeOK
<1>4. CASE life' = [life EXCEPT ![c] = "gone"] /\ UNCHANGED <<server, down>>
  BY <1>4 DEF TypeOK
<1>5. CASE server' = "killed" /\ UNCHANGED <<down, life>>
  BY <1>5 DEF TypeOK
<1>6. QED
  BY <1>2, <1>3, <1>4, <1>5 DEF sendto_TCPSocket

LEMMA GotoTypes ==
  ASSUME TypeOK, NEW t \in Conn, NEW a, NEW b \in HandlerPcs, Goto(t, a, b)
  PROVE  pc' \in [Conn -> HandlerPcs]
BY DEF Goto, TypeOK, HandlerPcs

LEMMA SendMessageStep ==
  ASSUME PathInv, sendMessage
  PROVE  PathInv' /\ UNCHANGED <<clientList, closed>>
<1>1. MaxClients \in Nat
  BY PathAssumption
<1>2. /\ slot \in Slots /\ slot' = slot + 1
      /\ UNCHANGED <<sender, pc, listLock, clientList, messageQueue, closed, typed, up>>
  BY DEF sendMessage, client
<1>3. slot' \in 0..(MaxClients + 1) /\ slot # 0
  BY <1>1, <1>2 DEF Slots
<1>4. /\ server' \in {"up", "killed", "crashed"}
      /\ down' \in [Conn -> 0..Room]
      /\ life' \in [Conn -> {"open", "ended", "reset", "gone"}]
  <2>1. CASE UNCHANGED <<server, down, life>>
    BY <2>1 DEF PathInv, TypeOK
  <2>2. CASE clientList[slot] # Nobody /\ sendto_TCPSocket(clientList[slot])
    <3>1. clientList[slot] \in Conn
      BY <1>2, <2>2 DEF PathInv, TypeOK
    <3>2. QED
      BY <2>2, <3>1, SendTypes DEF PathInv
  <2>3. QED
    BY <2>1, <2>2 DEF sendMessage
<1>5. TypeOK'
  BY <1>2, <1>3, <1>4 DEF PathInv, TypeOK
<1>6. QED
  BY <1>2, <1>3, <1>5 DEF PathInv, LoopUnderLock

(* What a step does to the list while a loop is under way.                 *)
Stays == slot \in Slots => clientList' = clientList /\ closed' = closed

LEMMA HandlerStep ==
  ASSUME PathInv, NEW t \in Conn, Handles(t)
  PROVE  PathInv' /\ Stays
<1> USE DEF PathInv, LoopUnderLock, Stays
<1>0. MaxClients \in Nat /\ 0 \notin Slots /\ Nobody # t /\ 1 \in 0..(MaxClients + 1)
      /\ 0 \in 0..(MaxClients + 1)
  BY PathAssumption DEF Slots
<1>1. CASE RecvPDU(t)
  <2>1. Case(t, up[t]) \in HandlerPcs
    BY <1>1 DEF RecvPDU, Case, TypeOK, HandlerPcs
  <2>2. pc' \in [Conn -> HandlerPcs]
    BY <1>1, <2>1, GotoTypes DEF RecvPDU
  <2>3. QED
    BY <1>1, <2>2 DEF RecvPDU, TypeOK, socket, HandlerPcs
<1>1f. CASE RecvFails(t)
  <2>1. pc' \in [Conn -> HandlerPcs] /\ server' \in {"up", "killed", "crashed"}
    <3>1. ASSUME NEW o \in {"JOIN", "MESS", "QUIT", "BAD"}, Goto(t, "recv", Case(t, o))
          PROVE  pc' \in [Conn -> HandlerPcs]
      <4>1. Case(t, o) \in HandlerPcs
        BY DEF Case, HandlerPcs
      <4>2. QED
        BY <3>1, <4>1, GotoTypes
    <3>2. UNCHANGED pc => pc' \in [Conn -> HandlerPcs]
      BY DEF TypeOK, HandlerPcs
    <3>3. QED
      BY <1>1f, <3>1, <3>2 DEF RecvFails, TypeOK
  <2>2. QED
    BY <1>1f, <2>1 DEF RecvFails, TypeOK, client, HandlerPcs
<1>2. CASE RecvEOF(t)
  <2>1. pc' \in [Conn -> HandlerPcs]
    BY <1>2, GotoTypes DEF RecvEOF, HandlerPcs
  <2>2. QED
    BY <1>2, <2>1 DEF RecvEOF, TypeOK, socket, client, HandlerPcs
<1>3. CASE killConnection(t)
  BY <1>3, GotoTypes DEF killConnection, TypeOK, socket, client, HandlerPcs
<1>4. CASE BeginPJOIN(t)
  BY <1>0, <1>4, GotoTypes DEF BeginPJOIN, BeginLoop, TypeOK, socket, client, HandlerPcs
<1>5. CASE listLock = t /\ sendMessage
  BY <1>5, SendMessageStep
<1>6. CASE EndPJOIN(t)
  BY <1>0, <1>6, GotoTypes DEF EndPJOIN, EndLoop, TypeOK, socket, client, HandlerPcs
<1>7. CASE append_Clientlist(t)
  <2>1. pc' \in [Conn -> HandlerPcs]
    BY <1>7, GotoTypes DEF append_Clientlist, HandlerPcs
  <2>2. listLock = Nobody /\ clientList' \in [Slots -> Conn \cup {Nobody}]
    BY <1>7 DEF append_Clientlist, TypeOK
  <2>3. QED
    BY <1>0, <1>7, <2>1, <2>2 DEF append_Clientlist, TypeOK, socket, client, HandlerPcs
<1>8. CASE setHasJoined(t)
  BY <1>8, GotoTypes DEF setHasJoined, TypeOK, socket, client, HandlerPcs
<1>9. CASE ComposeParticipants(t)
  BY <1>9, GotoTypes DEF ComposeParticipants, TypeOK, socket, client, HandlerPcs
<1>9j. CASE clientHasJoined(t)
  <2>1. pc' \in [Conn -> HandlerPcs]
    BY <1>9j, GotoTypes DEF clientHasJoined, HandlerPcs
  <2>2. QED
    BY <1>9j, <2>1 DEF clientHasJoined, TypeOK, socket, client, HandlerPcs
<1>9u. CASE checkUserName(t)
  <2>1. pc' \in [Conn -> HandlerPcs]
    BY <1>9u, GotoTypes DEF checkUserName, HandlerPcs
  <2>2. QED
    BY <1>9u, <2>1 DEF checkUserName, TypeOK, socket, client, HandlerPcs
<1>10. ASSUME NEW a, NEW b \in HandlerPcs, SendAlone(t, a, b) PROVE PathInv' /\ Stays
  <2>1. pc' \in [Conn -> HandlerPcs]
    BY <1>10, GotoTypes DEF SendAlone
  <2>2. QED
    BY <1>10, <2>1, SendTypes DEF SendAlone, TypeOK, client, HandlerPcs
<1>10a. CASE sendParticipants(t) \/ sendQUIT(t) \/ RefuseName(t)
  BY <1>10, <1>10a DEF sendParticipants, sendQUIT, RefuseName, HandlerPcs
<1>11. CASE handleMESS(t)
  <2>1. pc' \in [Conn -> HandlerPcs]
    BY <1>11, GotoTypes DEF handleMESS, HandlerPcs
  <2>2. QED
    BY <1>11, <2>1 DEF handleMESS, msgQueue_add, TypeOK, socket, client, HandlerPcs
<1>12. CASE remove_Client(t)
  <2>1. pc' \in [Conn -> HandlerPcs]
    BY <1>12, GotoTypes DEF remove_Client, HandlerPcs
  <2>2. /\ listLock = Nobody
        /\ clientList' \in [Slots -> Conn \cup {Nobody}]
        /\ closed' \in [Conn -> BOOLEAN]
    BY <1>12 DEF remove_Client, Remove, TypeOK
  <2>3. QED
    BY <1>0, <1>12, <2>1, <2>2 DEF remove_Client, TypeOK, client, HandlerPcs
<1>13. CASE handleQUIT(t)
  <2>1. pc' \in [Conn -> HandlerPcs]
    BY <1>13, GotoTypes DEF handleQUIT, HandlerPcs
  <2>2. QED
    BY <1>13, <2>1 DEF handleQUIT, msgQueue_add, TypeOK, socket, client, HandlerPcs
<1>14. QED
  BY <1>1, <1>1f, <1>2, <1>3, <1>4, <1>5, <1>6, <1>7, <1>8, <1>9, <1>9j, <1>9u, <1>10a,
     <1>11, <1>12, <1>13
  DEF Handles

LEMMA SenderStep ==
  ASSUME PathInv, sender_thread_func
  PROVE  PathInv' /\ Stays
<1> USE DEF PathInv, LoopUnderLock, Stays
<1>0. MaxClients \in Nat /\ 0 \notin Slots /\ Nobody # "sender" /\ 1 \in 0..(MaxClients + 1)
      /\ 0 \in 0..(MaxClients + 1)
  BY PathAssumption DEF Slots
<1>1. CASE msgQueue_pop
  BY <1>1 DEF msgQueue_pop, TypeOK, socket, client
<1>2. CASE BeginItem
  BY <1>0, <1>2 DEF BeginItem, BeginLoop, TypeOK, socket, client
<1>3. CASE listLock = "sender" /\ sendMessage
  BY <1>3, SendMessageStep
<1>4. CASE EndItem
  BY <1>0, <1>4 DEF EndItem, EndLoop, TypeOK, socket, client
<1>5. QED
  BY <1>1, <1>2, <1>3, <1>4 DEF sender_thread_func

LEMMA ClientStep ==
  ASSUME PathInv, NEW c \in Conn, Writes(c) \/ Reads(c) \/ Ends(c)
  PROVE  PathInv' /\ Stays
<1> USE DEF PathInv, LoopUnderLock, Stays
<1>0. MaxPdus \in Nat /\ Room \in Nat
  BY PathAssumption
<1>1. CASE Writes(c)
  <2>1. PICK o \in {"JOIN", "MESS", "QUIT"} :
          /\ up' = [up EXCEPT ![c] = o]
          /\ typed' = [typed EXCEPT ![c] = IF o = "QUIT" THEN MaxPdus ELSE @ + 1]
    BY <1>1 DEF Writes
  <2>2. typed[c] \in 0..MaxPdus /\ typed[c] < MaxPdus
    BY <1>1 DEF Writes, TypeOK
  <2>3. (IF o = "QUIT" THEN MaxPdus ELSE typed[c] + 1) \in 0..MaxPdus
    BY <1>0, <2>2
  <2>4. up' \in [Conn -> {"nothing", "JOIN", "MESS", "QUIT"}] /\ typed' \in [Conn -> 0..MaxPdus]
    BY <2>1, <2>3 DEF TypeOK
  <2>5. QED
    BY <1>1, <2>4 DEF Writes, TypeOK, socket
<1>2. CASE Reads(c)
  BY <1>0, <1>2 DEF Reads, TypeOK, client
<1>3. CASE Ends(c)
  BY <1>0, <1>3 DEF Ends, TypeOK, client
<1>4. QED
  BY <1>1, <1>2, <1>3

LEMMA PathStep == PathInv /\ [Next]_vars => PathInv' /\ Stays
<1> SUFFICES ASSUME PathInv, [Next]_vars PROVE PathInv' /\ Stays
  OBVIOUS
<1>1. CASE UNCHANGED vars
  BY <1>1 DEF vars, socket, client, PathInv, LoopUnderLock, TypeOK, Stays
<1>2. CASE AtRest
  BY <1>1, <1>2 DEF AtRest
<1>3. QED
  BY <1>1, <1>2, HandlerStep, SenderStep, ClientStep DEF Next

(* chat_server.c: the values the variables range over, for every instance. *)
THEOREM PathTypes == Spec => []TypeOK
<1>1. PathInv => TypeOK
  BY DEF PathInv
<1>2. QED
  BY PathInit, PathStep, <1>1, PTL DEF Spec

(* sendMessage, handleJOIN, remove_Client: while a broadcast is under way  *)
(* no slot is taken or freed and no descriptor closed.                     *)
THEOREM ListIsStable == Spec => ListStays
<1>1. PathInv /\ [Next]_vars
        => [(slot \in Slots) => (clientList' = clientList /\ closed' = closed)]_vars
  BY PathStep DEF Stays
<1>2. QED
  BY PathInit, PathStep, <1>1, PTL DEF Spec, ListStays
-----------------------------------------------------------------------------
(***************************************************************************)
(* The threads never all wait for each other.  Who holds a lock is in a    *)
(* loop, so a lock that is held can be followed to a thread that can go on *)
(* or is in a send; and a thread that is to append finds a free slot,      *)
(* because the others have one each at most and it has none.               *)
(***************************************************************************)
Holders ==
  /\ slot # 0 <=> listLock # Nobody
  /\ sender = "sending" <=> listLock = "sender"
  /\ \A t \in Conn : pc[t] = "PJOIN" <=> listLock = t

(* Whoever is found not to have joined is not in the list until appended.  *)
JoinsOnce ==
  \A t \in Conn :
    pc[t] \in {"checkUserName", "handleJOIN", "PJOIN", "append"} => ~Listed(t)

OneSlot ==
  \A i, j \in Slots : clientList[i] = clientList[j] /\ clientList[i] # Nobody => i = j

LockInv == PathInv /\ Holders /\ JoinsOnce /\ OneSlot

LEMMA LockInit == Init => LockInv
<1> SUFFICES ASSUME Init PROVE LockInv
  OBVIOUS
<1>1. "sender" # Nobody /\ \A t \in Conn : t # Nobody
  BY PathAssumption
<1>2. Holders
  BY <1>1 DEF Init, Holders
<1>3. JoinsOnce
  <2>1. \A t \in Conn : ~Listed(t)
    BY <1>1 DEF Init, Listed
  <2>2. QED
    BY <2>1 DEF Init, JoinsOnce
<1>4. OneSlot
  BY DEF Init, OneSlot
<1>5. QED
  BY PathInit, <1>2, <1>3, <1>4 DEF LockInv

LEMMA TurnKeeps ==
  ASSUME LockInv, sendMessage
  PROVE  Holders' /\ JoinsOnce' /\ OneSlot'
<1>1. MaxClients \in Nat
  BY PathAssumption
<1>2. /\ slot \in Slots /\ slot' = slot + 1
      /\ UNCHANGED <<sender, pc, listLock, clientList, typed, up>>
  BY DEF sendMessage, client
<1>3. slot # 0 /\ slot' # 0
  BY <1>1, <1>2 DEF Slots
<1>4. QED
  BY <1>2, <1>3 DEF LockInv, Holders, JoinsOnce, OneSlot, Listed

(* A step of a handler that takes and leaves no slot, does not enter or    *)
(* leave its loop and does not begin a JOIN.                               *)
LEMMA HandlerMoves ==
  ASSUME LockInv, NEW t \in Conn, NEW a \in HandlerPcs, NEW b \in HandlerPcs, Goto(t, a, b),
         a # "PJOIN", b \notin {"PJOIN", "append"},
         b \in {"checkUserName", "handleJOIN"} => ~Listed(t),
         UNCHANGED <<sender, listLock, slot, clientList>>
  PROVE  Holders' /\ JoinsOnce' /\ OneSlot'
<1>1. /\ pc[t] = a /\ pc'[t] = b
      /\ \A s \in Conn : s # t => pc'[s] = pc[s]
      /\ \A s \in Conn : Listed(s)' <=> Listed(s)
  BY DEF Goto, LockInv, PathInv, TypeOK, Listed
<1>2. Holders'
  BY <1>1 DEF LockInv, Holders
<1>3. JoinsOnce'
  BY <1>1 DEF LockInv, JoinsOnce
<1>4. QED
  BY <1>2, <1>3 DEF LockInv, OneSlot

LEMMA HandlerLocks ==
  ASSUME LockInv, NEW t \in Conn, Handles(t)
  PROVE  Holders' /\ JoinsOnce' /\ OneSlot'
<1>0. /\ MaxClients \in Nat /\ Nobody # t /\ t # "sender" /\ Nobody # "sender"
      /\ Nobody \notin Conn /\ "sender" \notin Conn
  BY PathAssumption
<1>00. pc \in [Conn -> HandlerPcs] /\ up \in [Conn -> {"nothing", "JOIN", "MESS", "QUIT"}]
  BY DEF LockInv, PathInv, TypeOK, HandlerPcs
<1>1. CASE RecvPDU(t)
  <2>1. Case(t, up[t]) \in {"JOIN", "MESS", "QUIT", "BAD"}
    BY <1>1, <1>00 DEF RecvPDU, Case
  <2>2. QED
    BY <1>1, <2>1, HandlerMoves DEF RecvPDU, HandlerPcs
<1>1f. CASE RecvFails(t)
  <2>1. UNCHANGED <<sender, listLock, slot, clientList>>
    BY <1>1f DEF RecvFails
  <2>2. CASE UNCHANGED pc
    BY <2>1, <2>2 DEF LockInv, Holders, JoinsOnce, OneSlot, Listed
  <2>3. ASSUME NEW o \in {"JOIN", "MESS", "QUIT", "BAD"}, Goto(t, "recv", Case(t, o))
        PROVE  Holders' /\ JoinsOnce' /\ OneSlot'
    <3>1. Case(t, o) \in {"JOIN", "MESS", "QUIT", "BAD"}
      BY DEF Case
    <3>2. QED
      BY <2>1, <2>3, <3>1, HandlerMoves DEF HandlerPcs
  <2>4. QED
    BY <1>1f, <2>2, <2>3 DEF RecvFails
<1>2. CASE RecvEOF(t)
  BY <1>2, HandlerMoves DEF RecvEOF, HandlerPcs
<1>3. CASE killConnection(t)
  BY <1>3, HandlerMoves DEF killConnection, client, HandlerPcs
<1>4. CASE BeginPJOIN(t)
  <2>1. /\ pc[t] = "handleJOIN" /\ pc'[t] = "PJOIN" /\ listLock = Nobody /\ listLock' = t /\ slot' = 1
        /\ \A s \in Conn : s # t => pc'[s] = pc[s]
        /\ UNCHANGED <<sender, clientList, typed, up>>
    BY <1>4, <1>00 DEF BeginPJOIN, BeginLoop, Goto, client
  <2>2. \A s \in Conn : Listed(s)' <=> Listed(s)
    BY <2>1 DEF Listed
  <2>3. Holders'
    BY <1>0, <2>1 DEF LockInv, Holders
  <2>4. JoinsOnce'
    BY <2>1, <2>2 DEF LockInv, JoinsOnce
  <2>5. QED
    BY <2>1, <2>3, <2>4 DEF LockInv, OneSlot
<1>5. CASE listLock = t /\ sendMessage
  BY <1>5, TurnKeeps
<1>6. CASE EndPJOIN(t)
  <2>1. /\ pc[t] = "PJOIN" /\ pc'[t] = "append" /\ listLock = t /\ listLock' = Nobody /\ slot' = 0
        /\ \A s \in Conn : s # t => pc'[s] = pc[s]
        /\ UNCHANGED <<sender, clientList, typed, up>>
    BY <1>6, <1>00 DEF EndPJOIN, EndLoop, Goto, client
  <2>2. \A s \in Conn : Listed(s)' <=> Listed(s)
    BY <2>1 DEF Listed
  <2>3. Holders'
    BY <1>0, <2>1 DEF LockInv, Holders
  <2>4. JoinsOnce'
    BY <2>1, <2>2 DEF LockInv, JoinsOnce
  <2>5. QED
    BY <2>1, <2>3, <2>4 DEF LockInv, OneSlot
<1>7. CASE append_Clientlist(t)
  <2>1. /\ pc[t] = "append" /\ pc'[t] = "setHasJoined"
        /\ \A s \in Conn : s # t => pc'[s] = pc[s]
        /\ UNCHANGED <<sender, listLock, slot, typed, up>>
    BY <1>7, <1>00 DEF append_Clientlist, Goto, client
  <2>2. PICK i \in Slots : clientList[i] = Nobody /\ clientList' = [clientList EXCEPT ![i] = t]
    BY <1>7 DEF append_Clientlist
  <2>3. clientList \in [Slots -> Conn \cup {Nobody}]
    BY DEF LockInv, PathInv, TypeOK
  <2>4. ~Listed(t)
    BY <2>1 DEF LockInv, JoinsOnce
  <2>5. \A s \in Conn : s # t => (Listed(s)' <=> Listed(s))
    BY <1>0, <2>2, <2>3 DEF Listed
  <2>6. Holders'
    BY <2>1 DEF LockInv, Holders
  <2>7. JoinsOnce'
    BY <2>1, <2>5 DEF LockInv, JoinsOnce
  <2>8. OneSlot'
    BY <2>2, <2>3, <2>4 DEF LockInv, OneSlot, Listed
  <2>9. QED
    BY <2>6, <2>7, <2>8
<1>8. CASE setHasJoined(t)
  BY <1>8, HandlerMoves DEF setHasJoined, client, HandlerPcs
<1>9. CASE ComposeParticipants(t)
  BY <1>9, HandlerMoves DEF ComposeParticipants, client, HandlerPcs
<1>9j. CASE clientHasJoined(t)
  BY <1>9j, HandlerMoves DEF clientHasJoined, HandlerPcs
<1>9u. CASE checkUserName(t)
  <2>1. pc[t] = "checkUserName"
    BY <1>9u DEF checkUserName, Goto
  <2>2. ~Listed(t)
    BY <2>1 DEF LockInv, JoinsOnce
  <2>3. QED
    BY <1>9u, <2>2, HandlerMoves DEF checkUserName, HandlerPcs
<1>10. CASE sendParticipants(t) \/ sendQUIT(t) \/ RefuseName(t)
  BY <1>10, HandlerMoves
  DEF sendParticipants, sendQUIT, RefuseName, SendAlone, HandlerPcs
<1>11. CASE handleMESS(t)
  BY <1>11, HandlerMoves DEF handleMESS, client, HandlerPcs
<1>12. CASE remove_Client(t)
  <2>1. /\ pc[t] = "QUIT" /\ pc'[t] = "leave"
        /\ \A s \in Conn : s # t => pc'[s] = pc[s]
        /\ clientList' = [i \in Slots |-> IF clientList[i] = t THEN Nobody ELSE clientList[i]]
        /\ UNCHANGED <<sender, listLock, slot, typed, up>>
    BY <1>12, <1>00 DEF remove_Client, Remove, Goto, client
  <2>2. \A s \in Conn : Listed(s)' => Listed(s)
    BY <1>0, <2>1 DEF Listed
  <2>3. Holders'
    BY <2>1 DEF LockInv, Holders
  <2>4. JoinsOnce'
    BY <2>1, <2>2 DEF LockInv, JoinsOnce
  <2>5. OneSlot'
    BY <2>1 DEF LockInv, OneSlot
  <2>6. QED
    BY <2>3, <2>4, <2>5
<1>13. CASE handleQUIT(t)
  BY <1>13, HandlerMoves DEF handleQUIT, client, HandlerPcs
<1>14. QED
  BY <1>1, <1>1f, <1>2, <1>3, <1>4, <1>5, <1>6, <1>7, <1>8, <1>9, <1>9j, <1>9u, <1>10,
     <1>11, <1>12, <1>13
  DEF Handles

LEMMA SenderLocks ==
  ASSUME LockInv, sender_thread_func
  PROVE  Holders' /\ JoinsOnce' /\ OneSlot'
<1>0. "sender" # Nobody /\ \A t \in Conn : t # "sender" /\ t # Nobody
  BY PathAssumption
<1>1. CASE listLock = "sender" /\ sendMessage
  BY <1>1, TurnKeeps
<1>2. CASE msgQueue_pop \/ BeginItem \/ EndItem
  <2>1. UNCHANGED <<pc, clientList, typed, up>>
    BY <1>2 DEF msgQueue_pop, BeginItem, EndItem, client
  <2>2. JoinsOnce' /\ OneSlot'
    BY <2>1 DEF LockInv, JoinsOnce, OneSlot, Listed
  <2>3. Holders'
    BY <1>0, <1>2 DEF msgQueue_pop, BeginItem, EndItem, BeginLoop, EndLoop, LockInv, Holders
  <2>4. QED
    BY <2>2, <2>3
<1>3. QED
  BY <1>1, <1>2 DEF sender_thread_func

LEMMA ClientLocks ==
  ASSUME LockInv, NEW c \in Conn, Writes(c) \/ Reads(c) \/ Ends(c)
  PROVE  Holders' /\ JoinsOnce' /\ OneSlot'
<1>1. UNCHANGED <<pc, sender, listLock, slot, clientList>>
  BY DEF Writes, Reads, Ends
<1>2. Holders' /\ OneSlot'
  BY <1>1 DEF LockInv, Holders, OneSlot
<1>3. JoinsOnce'
  BY <1>1 DEF LockInv, JoinsOnce, Listed
<1>4. QED
  BY <1>2, <1>3

LEMMA LockStep == LockInv /\ [Next]_vars => LockInv'
<1> SUFFICES ASSUME LockInv, [Next]_vars PROVE Holders' /\ JoinsOnce' /\ OneSlot'
  BY PathStep DEF LockInv
<1>1. CASE UNCHANGED vars
  BY <1>1 DEF vars, client, LockInv, Holders, JoinsOnce, OneSlot, Listed
<1>2. CASE AtRest
  BY <1>1, <1>2 DEF AtRest
<1>3. QED
  BY <1>1, <1>2, HandlerLocks, SenderLocks, ClientLocks DEF Next

(* A thread that has no slot leaves one free: the others have one each at  *)
(* most, and there are slots for all.                                      *)
LEMMA FreeSlot ==
  ASSUME LockInv, NEW t \in Conn, ~Listed(t)
  PROVE  \E i \in Slots : clientList[i] = Nobody
<1> SUFFICES ASSUME \A i \in Slots : clientList[i] # Nobody PROVE FALSE
  OBVIOUS
<1> DEFINE Others == Conn \ {t}
<1>1. /\ IsFiniteSet(Conn) /\ MaxClients \in Nat /\ MaxClients >= Cardinality(Conn)
  BY PathAssumption
<1>2. clientList \in [Slots -> Others]
  BY DEF LockInv, PathInv, TypeOK, Listed
<1>3. /\ IsFiniteSet(Others) /\ Cardinality(Others) = Cardinality(Conn) - 1
      /\ Cardinality(Conn) \in Nat
  BY <1>1, FS_RemoveElement, FS_CardinalityType
<1>4. IsFiniteSet(Slots) /\ Cardinality(Slots) = MaxClients
  BY <1>1, FS_Interval DEF Slots
<1>5. Cardinality(Slots) > Cardinality(Others)
  BY <1>1, <1>3, <1>4
<1>6. PICK i, j \in Slots : i # j /\ clientList[i] = clientList[j]
  BY <1>2, <1>3, <1>4, <1>5, FS_PigeonHole
<1>7. QED
  BY <1>6 DEF LockInv, OneSlot

LEMMA NotAllWait == LockInv => OnlyClientsBlock
<1> SUFFICES ASSUME LockInv, Up, sender # "idle" \/ \E t \in Conn : Works(t),
                    ~SendBlocks,
                    \A t \in Conn : ~(pc[t] \in Answers /\ Full(t))
             PROVE  SenderGoesOn \/ \E t \in Conn : GoesOn(t)
  BY DEF OnlyClientsBlock
<1>0. TypeOK /\ Holders /\ MaxClients \in Nat /\ Nobody \notin Conn /\ Nobody # "sender"
  BY PathAssumption DEF LockInv, PathInv
<1>1. ASSUME listLock # Nobody PROVE slot > MaxClients \/ slot \in Slots
  BY <1>0, <1>1 DEF Holders, TypeOK, Slots
<1>2. CASE listLock = "sender"
  <2>1. SenderGoesOn
    BY <1>0, <1>1, <1>2 DEF Holders, SenderGoesOn, LoopGoesOn
  <2>2. QED
    BY <2>1
<1>3. CASE listLock \in Conn
  <2>1. GoesOn(listLock)
    BY <1>0, <1>1, <1>3 DEF Holders, GoesOn, LoopGoesOn
  <2>2. QED
    BY <1>3, <2>1
<1>4. CASE listLock = Nobody
  <2>1. CASE sender # "idle"
    <3>1. sender = "popped"
      BY <1>0, <1>4, <2>1 DEF Holders, TypeOK
    <3>2. QED
      BY <1>4, <3>1 DEF SenderGoesOn
  <2>2. CASE sender = "idle"
    <3>1. PICK t \in Conn : Works(t)
      BY <2>2
    <3>2. pc[t] \in HandlerPcs \ {"recv", "ended", "PJOIN"}
      BY <1>0, <1>4, <3>1 DEF Works, Holders, TypeOK, HandlerPcs
    <3>3. ASSUME pc[t] = "append" PROVE \E i \in Slots : clientList[i] = Nobody
      BY <3>3, FreeSlot DEF LockInv, JoinsOnce
    <3>4. GoesOn(t)
      BY <1>4, <2>2, <3>2, <3>3 DEF GoesOn, Answers, HandlerPcs
    <3>5. QED
      BY <3>4
  <2>3. QED
    BY <2>1, <2>2
<1>5. QED
  BY <1>0, <1>2, <1>3, <1>4 DEF TypeOK

(* sender_thread_func and the handlers: as long as one of the threads has  *)
(* something to do, one can go on or is in a send to a client that does    *)
(* not read, for any number of clients, slots and room in the sockets.     *)
THEOREM ThreadsGoOn == Spec => []OnlyClientsBlock
<1>1. QED
  BY LockInit, LockStep, NotAllWait, PTL DEF Spec
=============================================================================
