------------------------ MODULE ChatServerRoomProofs ------------------------
(***************************************************************************)
(* The chat server implements the chat room, for any number of             *)
(* connections, slots, names and descriptors; and what is heard in a room  *)
(* is in order.                                                            *)
(***************************************************************************)
EXTENDS ChatServerProofs

USE DEF Slots, Fds, NoFd

(***************************************************************************)
(* Where a thread is, as a person's standing in the room.                  *)
(***************************************************************************)
Outsider(t) == Live(t) /\ cl[t].idNum = 0

LEMMA StandingIs ==
  ASSUME NEW t
  PROVE  /\ pc[t] = "none" => StandingOf(t) = "away"
         /\ pc[t] = "leave" => StandingOf(t) = "leaving"
         /\ pc[t] = "exited" => StandingOf(t) = "left"
         /\ Live(t) /\ cl[t].idNum # 0 => StandingOf(t) = "in"
         /\ Outsider(t) /\ cl[t].hasJoined => StandingOf(t) = "announced"
         /\ Outsider(t) /\ ~cl[t].hasJoined => StandingOf(t) = "outside"
BY DEF StandingOf, Live, Outsider

LEMMA StandingNext ==
  ASSUME NEW t
  PROVE  /\ pc'[t] = "none" => StandingOf(t)' = "away"
         /\ pc'[t] = "leave" => StandingOf(t)' = "leaving"
         /\ pc'[t] = "exited" => StandingOf(t)' = "left"
         /\ Live(t)' /\ cl'[t].idNum # 0 => StandingOf(t)' = "in"
         /\ Outsider(t)' /\ cl'[t].hasJoined => StandingOf(t)' = "announced"
         /\ Outsider(t)' /\ ~cl'[t].hasJoined => StandingOf(t)' = "outside"
BY DEF StandingOf, Live, Outsider

LEMMA OthersStand ==
  ASSUME NEW t \in Conn, \A u \in Conn : u # t => Same(u)
  PROVE  Standing' = [Standing EXCEPT ![t] = StandingOf(t)']
<1>1. ASSUME NEW u \in Conn, u # t PROVE StandingOf(u)' = StandingOf(u)
  BY <1>1 DEF Same, StandingOf, Live
<1>2. QED
  BY <1>1 DEF Standing

LEMMA AllStand ==
  ASSUME \A u \in Conn : StandingOf(u)' = StandingOf(u)
  PROVE  Standing' = Standing
BY DEF Standing

LEMMA InsideIsListed ==
  ASSUME OwnershipInv, NEW k \in Conn
  PROVE  k \in R!Inside <=> Listed(k)
<1>1. Listed(k) <=> Live(k) /\ cl[k].idNum # 0
  BY ListedIff
<1>2. StandingOf(k) = "in" <=> Live(k) /\ cl[k].idNum # 0
  BY DEF StandingOf, Live
<1>3. QED
  BY <1>1, <1>2 DEF R!Inside, Standing

-----------------------------------------------------------------------------
(***************************************************************************)
(* What is heard: a broadcast reaches those inside, a thread's own send    *)
(* its person, and a person who is away has heard nothing.                 *)
(***************************************************************************)
LEMMA ReachOnce ==
  ASSUME SocketInv, NEW k \in Conn, cl[k].fd # 0, NEW i \in Reach(k)
  PROVE  i = cl[k].idNum
<1> USE DEF SocketInv, OwnershipInv
<1>1. PICK u \in Conn : u = clientList[i].who /\ Owns(u, i)
  BY DEF Reach, TypeOK, SlotOwnership, SlotKnowsOwner
<1>2. u = k
  BY <1>1, OwnWriter DEF Owns, Reach
<1>3. QED
  BY <1>1, <1>2 DEF Owns

LEMMA CopiesMade ==
  ASSUME SocketInv, NEW k \in Conn, cl[k].fd > 0, NEW pdu
  PROVE  Copies(k, pdu) = IF Listed(k) THEN <<pdu>> ELSE <<>>
<1>1. CASE Listed(k)
  <2>1. PICK i \in Reach(k) : TRUE
    BY <1>1, MemberReached
  <2>2. Reach(k) = {i}
    BY <2>1, ReachOnce
  <2>3. Cardinality(Reach(k)) = 1
    BY <2>2, FS_Singleton
  <2>4. Copies(k, pdu) = [n \in 1..1 |-> pdu]
    BY <2>3 DEF Copies, Reach
  <2>5. QED
    BY <1>1, <2>4
<1>2. CASE ~Listed(k)
  <2>1. Reach(k) = {}
    BY <1>2, ReachOwner
  <2>2. Cardinality(Reach(k)) = 0
    BY <2>1, FS_EmptySet
  <2>3. Copies(k, pdu) = [n \in 1..0 |-> pdu]
    BY <2>2 DEF Copies, Reach
  <2>4. QED
    BY <1>2, <2>3
<1>3. QED
  BY <1>1, <1>2

LEMMA BroadcastHeard ==
  ASSUME SocketInv, NEW pdu \in Pdu, sendMessage(pdu), Hearing' = Hearing
  PROVE  R!Hears(R!Inside, <<pdu>>)
<1> USE DEF SocketInv, OwnershipInv
<1> SUFFICES ASSUME NEW k \in Conn
             PROVE  Log'[k] = IF k \in R!Inside \cap Hearing THEN Log[k] \o <<pdu>> ELSE Log[k]
  BY DEF R!Hears, Log
<1>1. CASE k \notin Hearing
  BY <1>1 DEF Log
<1>2. CASE k \in Hearing
  <2>1. /\ Log[k] = inbox[k] /\ Log'[k] = inbox[k] \o Copies(k, pdu)
        /\ cl[k].fd > 0 /\ inbox[k] \in Seq(Pdu)
    BY <1>2 DEF Log, Hearing, sendMessage, TypeOK
  <2>2. Copies(k, pdu) = IF k \in R!Inside THEN <<pdu>> ELSE <<>>
    BY <2>1, CopiesMade, InsideIsListed
  <2>3. inbox[k] \o <<>> = inbox[k]
    BY <2>1, ConcatEmptySeq
  <2>4. QED
    BY <1>2, <2>1, <2>2, <2>3
<1>3. QED
  BY <1>1, <1>2

LEMMA SendHeard ==
  ASSUME SocketInv, NEW t \in Conn, Live(t), Hearing' = Hearing, NEW words,
         inbox' = IF Peer(cl[t].fd) \in Conn
                    THEN [inbox EXCEPT ![Peer(cl[t].fd)] = @ \o words]
                    ELSE inbox
  PROVE  R!Hears({t}, words)
<1> USE DEF SocketInv, OwnershipInv
<1> SUFFICES ASSUME NEW k \in Conn
             PROVE  Log'[k] = IF k \in {t} \cap Hearing THEN Log[k] \o words ELSE Log[k]
  BY DEF R!Hears, Log
<1>1. CASE k \notin Hearing
  BY <1>1 DEF Log
<1>2. CASE k \in Hearing
  <2>1. /\ Log[k] = inbox[k] /\ Log'[k] = inbox'[k] /\ cl[k].fd > 0
        /\ inbox \in [Conn -> Seq(Pdu)]
    BY <1>2 DEF Log, Hearing, TypeOK
  <2>2. CASE k = t
    <3>1. cl[t].fd > 0 /\ cl[t].fd \in Fds /\ files[cl[t].fd] = t
      <4>1. cl[t].fd > 0 /\ cl[t] \in Client
        BY <2>1, <2>2 DEF TypeOK
      <4>2. QED
        BY <4>1 DEF Client, Sockets, OwnSocket
    <3>2. Peer(cl[t].fd) = t
      BY <3>1 DEF Peer
    <3>3. QED
      BY <1>2, <2>1, <2>2, <3>2
  <2>3. CASE k # t
    <3>1. Peer(cl[t].fd) # k
      BY <2>1, <2>3, OwnWriter
    <3>2. QED
      BY <2>1, <2>3, <3>1
  <2>4. QED
    BY <2>2, <2>3
<1>3. QED
  BY <1>1, <1>2

LEMMA SendtoHeard ==
  ASSUME SocketInv, NEW t \in Conn, Live(t), Hearing' = Hearing, NEW pdu \in Pdu,
         sendto_TCPSocket(cl[t].fd, pdu)
  PROVE  R!Hears({t}, <<pdu>>)
<1>1. inbox' = IF Peer(cl[t].fd) \in Conn
                 THEN [inbox EXCEPT ![Peer(cl[t].fd)] = @ \o <<pdu>>]
                 ELSE inbox
  <2>1. \A k \in Conn : Append(inbox[k], pdu) = inbox[k] \o <<pdu>>
    BY AppendIsConcat DEF SocketInv, OwnershipInv, TypeOK
  <2>2. QED
    BY <2>1 DEF sendto_TCPSocket
<1>2. QED
  BY <1>1, SendHeard

-----------------------------------------------------------------------------
(***************************************************************************)
(* The invariant: besides what is known of members, that a thread past the *)
(* announcement has its flag, and that a connection not accepted yet has   *)
(* been written nothing.                                                   *)
(***************************************************************************)
PastAnnouncement == {"append", "setHasJoined", "participants", "sendParticipants", "handleMESS"}

Flagged(t) == pc[t] \in PastAnnouncement => cl[t].hasJoined

Fresh(t) == pc[t] = "none" => inbox[t] = <<>>

RoomInv == ToldInv /\ \A t \in Conn : Flagged(t) /\ Fresh(t)

LEMMA FlaggedStep ==
  ASSUME OwnershipInv, \A t \in Conn : Flagged(t), [Next]_vars
  PROVE  \A t \in Conn : Flagged(t)'
<1> USE DEF OwnershipInv, TypeOK, Flagged, PastAnnouncement, Goto, thread, count
<1>1. CASE SizeCheck \/ Sender \/ AtRest \/ UNCHANGED vars
  BY <1>1, IdleSame DEF Same
<1>2. ASSUME NEW t \in Conn, Accept(t) \/ AcceptFails(t) \/ Arrives(t) \/ Handles(t)
      PROVE  \A u \in Conn : Flagged(u)'
  <2>1. ASSUME NEW u \in Conn, u # t PROVE Flagged(u)'
    BY <1>2, <2>1, OthersSame DEF Same
  <2>2. CASE Accept(t) \/ AcceptFails(t)
    BY <2>1, <2>2 DEF Accept, AcceptFails, NewClient
  <2>3. CASE Arrives(t)
    BY <2>1, <2>3 DEF Arrives, RecvJOIN, RecvMESS, RecvQUIT, RecvBad, RecvEOF
  <2>4. CASE BadFd(t) \/ clientHasJoined(t) \/ checkUserName(t) \/ RefuseName(t)
    BY <2>1, <2>4 DEF BadFd, clientHasJoined, checkUserName, RefuseName
  <2>5. CASE AnnounceJoin(t)
    BY <2>1, <2>5 DEF AnnounceJoin, Client
  <2>6. CASE AppendClient(t)
    <3>1. cl'[t].hasJoined = cl[t].hasJoined /\ cl[t].hasJoined
      BY <2>6 DEF AppendClient, append_Clientlist, Client, FlagSetBeforeAppend
    <3>2. QED
      BY <2>1, <3>1
  <2>7. CASE MarkJoined(t) \/ ComposeParticipants(t) \/ sendParticipants(t)
    BY <2>1, <2>7 DEF MarkJoined, ComposeParticipants, sendParticipants
  <2>8. CASE handleMESS(t) \/ sendQUIT(t) \/ handleQUIT(t) \/ QueueLeave(t) \/ killConnection(t)
    BY <2>1, <2>8 DEF handleMESS, sendQUIT, handleQUIT, QueueLeave, killConnection
  <2>9. QED
    BY <1>2, <2>2, <2>3, <2>4, <2>5, <2>6, <2>7, <2>8 DEF Handles
<1>3. QED
  BY <1>1, <1>2 DEF Next

LEMMA NotWrittenTo ==
  ASSUME SocketInv, NEW k \in Conn, pc[k] = "none"
  PROVE  /\ \A f : Peer(f) # k
         /\ \A pdu : Copies(k, pdu) = <<>>
<1>1. \A f : Peer(f) # k
  BY ServerAssumption DEF SocketInv, Sockets, OneDescriptor, Peer
<1>2. Reach(k) = {}
  BY <1>1 DEF Reach
<1>3. Cardinality(Reach(k)) = 0
  BY <1>2, FS_EmptySet
<1>4. ASSUME NEW pdu PROVE Copies(k, pdu) = <<>>
  <2>1. Copies(k, pdu) = [n \in 1..0 |-> pdu]
    BY <1>3 DEF Copies, Reach
  <2>2. QED
    BY <2>1
<1>5. QED
  BY <1>1, <1>4

LEMMA FreshStep ==
  ASSUME SocketInv, [Next]_vars, NEW k \in Conn, Fresh(k)
  PROVE  Fresh(k)'
<1> SUFFICES ASSUME pc'[k] = "none" PROVE inbox'[k] = <<>>
  BY DEF Fresh
<1> USE DEF SocketInv, OwnershipInv, TypeOK, Goto, thread, count
<1>1. pc[k] = "none"
  <2>1. CASE SizeCheck \/ Sender \/ AtRest \/ UNCHANGED vars
    BY <2>1, IdleSame DEF Same
  <2>2. ASSUME NEW t \in Conn, Accept(t) \/ AcceptFails(t) \/ Arrives(t) \/ Handles(t)
        PROVE  pc[k] = "none"
    <3>1. CASE k # t
      BY <2>2, <3>1, OthersSame DEF Same
    <3>2. CASE Accept(t) \/ AcceptFails(t) \/ Arrives(t)
      BY <3>2 DEF Accept, AcceptFails, NewClient, Arrives, RecvJOIN, RecvMESS, RecvQUIT,
         RecvBad, RecvEOF
    <3>3. CASE Handles(t)
      BY <3>3 DEF Handles, BadFd, clientHasJoined, checkUserName, RefuseName, AnnounceJoin,
         AppendClient, MarkJoined, ComposeParticipants, sendParticipants, handleMESS,
         sendQUIT, handleQUIT, QueueLeave, killConnection
    <3>4. QED
      BY <2>2, <3>2, <3>3
  <2>3. QED
    BY <2>1, <2>2 DEF Next
<1>2. inbox[k] = <<>> /\ <<>> \o <<>> = <<>>
  BY <1>1 DEF Fresh
<1>3. ASSUME NEW pdu, sendMessage(pdu) PROVE inbox'[k] = <<>>
  BY <1>1, <1>2, <1>3, NotWrittenTo DEF sendMessage
<1>4. ASSUME NEW t \in Conn, RefuseName(t) \/ sendParticipants(t) \/ sendQUIT(t)
      PROVE  inbox'[k] = <<>>
  BY <1>1, <1>2, <1>4, NotWrittenTo DEF RefuseName, sendParticipants, sendQUIT, sendto_TCPSocket
<1>5. ASSUME UNCHANGED inbox PROVE inbox'[k] = <<>>
  BY <1>2, <1>5
<1>6. CASE SizeCheck \/ Sender \/ AtRest \/ UNCHANGED vars
  BY <1>3, <1>5, <1>6 DEF SizeCheck, Sender, msgQueue_pop, SendItem, AtRest, vars
<1>7. ASSUME NEW t \in Conn, Accept(t) \/ AcceptFails(t) \/ Arrives(t) PROVE inbox'[k] = <<>>
  BY <1>5, <1>7 DEF Accept, AcceptFails, NewClient, Arrives, RecvJOIN, RecvMESS, RecvQUIT,
     RecvBad, RecvEOF
<1>8. ASSUME NEW t \in Conn, Handles(t) PROVE inbox'[k] = <<>>
  BY <1>3, <1>4, <1>5, <1>8 DEF Handles, BadFd, clientHasJoined, checkUserName, AnnounceJoin,
     AppendClient, MarkJoined, ComposeParticipants, handleMESS, handleQUIT, QueueLeave,
     killConnection
<1>9. QED
  BY <1>6, <1>7, <1>8 DEF Next

LEMMA RoomInvStep == RoomInv /\ [Next]_vars => RoomInv'
<1> SUFFICES ASSUME RoomInv, [Next]_vars PROVE RoomInv'
  OBVIOUS
<1>1. ToldInv'
  BY UntoldStep DEF RoomInv
<1>2. \A t \in Conn : Flagged(t)'
  BY FlaggedStep DEF RoomInv, ToldInv, SocketInv
<1>3. \A t \in Conn : Fresh(t)'
  BY FreshStep DEF RoomInv, ToldInv
<1>4. QED
  BY <1>1, <1>2, <1>3 DEF RoomInv

LEMMA RoomInvInit == Init => RoomInv
<1> SUFFICES ASSUME Init PROVE RoomInv
  OBVIOUS
<1>1. ToldInv
  BY DepartureInit DEF DepartureInv
<1>2. QED
  BY <1>1 DEF Init, RoomInv, Flagged, Fresh, PastAnnouncement

-----------------------------------------------------------------------------
(***************************************************************************)
(* Every step is a step of the room, or leaves the room alone.             *)
(***************************************************************************)
roomVars == <<Standing, Hearing, Queued, roster, Line, Log>>

LEMMA HearingSame ==
  ASSUME \A u \in Conn : cl'[u].fd = cl[u].fd PROVE Hearing' = Hearing
BY DEF Hearing

LEMMA QueuedSame ==
  ASSUME UNCHANGED nmess, \A u \in Conn : pc'[u] = "handleMESS" <=> pc[u] = "handleMESS"
  PROVE  Queued' = Queued
BY DEF Queued

LEMMA LineSame == ASSUME UNCHANGED queue PROVE Line' = Line
BY DEF queue, Line

LEMMA LogSame ==
  ASSUME UNCHANGED inbox, Hearing' = Hearing PROVE Log' = Log
BY DEF Log

LEMMA ArriveStep ==
  ASSUME RoomInv, NEW t \in Conn, Accept(t) \/ AcceptFails(t)
  PROVE  R!Arrive(t)
<1> USE DEF RoomInv, ToldInv, SocketInv, OwnershipInv
<1>1. /\ pc[t] = "none" /\ pc'[t] = "run" /\ cl[t].fd = -1
      /\ cl'[t].idNum = 0 /\ ~cl'[t].hasJoined
      /\ UNCHANGED <<roster, queue, inbox, nmess>>
  BY DEF Accept, AcceptFails, NewClient, Goto, ThreadInv, TypeOK, count
<1>2. \A u \in Conn : u # t => Same(u)
  BY OthersSame
<1>3. /\ R!Becomes(t, {"away"}, "outside")
  <2>1. StandingOf(t) = "away" /\ StandingOf(t)' = "outside"
    BY <1>1, StandingIs, StandingNext DEF Outsider, Live
  <2>2. Standing' = [Standing EXCEPT ![t] = StandingOf(t)']
    BY <1>2, OthersStand
  <2>3. QED
    BY <2>1, <2>2 DEF R!Becomes, R!Is, Standing
<1>4. Hearing' \in {Hearing, Hearing \cup {t}}
  <2>1. Hearing' \ {t} = Hearing /\ t \notin Hearing
    BY <1>1, <1>2 DEF Hearing, Same
  <2>2. QED
    BY <2>1
<1>5. Log' = Log
  <2>1. \A u \in Conn : u # t => (u \in Hearing' <=> u \in Hearing)
    BY <1>4
  <2>2. inbox[t] = <<>>
    BY <1>1 DEF Fresh
  <2>3. QED
    BY <1>1, <2>1, <2>2 DEF Log
<1>6. Queued' = Queued
  <2>1. \A u \in Conn : pc'[u] = "handleMESS" <=> pc[u] = "handleMESS"
    BY <1>1, <1>2 DEF Same
  <2>2. QED
    BY <1>1, <2>1, QueuedSame
<1>7. Line' = Line
  BY <1>1, LineSame
<1>8. QED
  BY <1>1, <1>3, <1>4, <1>5, <1>6, <1>7 DEF R!Arrive

LEMMA ReceiveStep ==
  ASSUME RoomInv, NEW t \in Conn, Arrives(t)
  PROVE  UNCHANGED roomVars
<1> USE DEF RoomInv, ToldInv, SocketInv, OwnershipInv
<1>1. /\ pc[t] = "run" /\ cl' = cl /\ Live(t)'
      /\ UNCHANGED <<roster, queue, inbox>>
  BY DEF Arrives, RecvJOIN, RecvMESS, RecvQUIT, RecvBad, RecvEOF, Goto, TypeOK, thread,
     count, Live
<1>2. \A u \in Conn : u # t => Same(u)
  BY OthersSame
<1>3. Standing' = Standing
  <2>1. ASSUME NEW u \in Conn, u # t PROVE StandingOf(u)' = StandingOf(u)
    BY <1>2, <2>1 DEF StandingOf, Same, Live
  <2>2. StandingOf(t)' = StandingOf(t)
    BY <1>1 DEF StandingOf, Live
  <2>3. QED
    BY <2>1, <2>2, AllStand
<1>4. Hearing' = Hearing /\ Log' = Log /\ Line' = Line
  BY <1>1, HearingSame, LogSame, LineSame
<1>5. Queued' = Queued
  <2>1. ASSUME NEW u \in Conn, u # t PROVE nmess'[u] = nmess[u] /\ pc'[u] = pc[u]
    BY <1>2, <2>1 DEF Same, Arrives, RecvJOIN, RecvMESS, RecvQUIT, RecvBad, RecvEOF, TypeOK, count
  <2>2. CASE RecvMESS(t) /\ pc'[t] = "handleMESS"
    <3>1. nmess'[t] = nmess[t] + 1 /\ nmess[t] \in Nat
      BY <2>2 DEF RecvMESS, TypeOK, Goto
    <3>2. nmess'[t] - 1 = nmess[t]
      BY <3>1
    <3>3. QED
      BY <1>1, <2>1, <2>2, <3>2 DEF Queued
  <2>3. CASE pc'[t] # "handleMESS"
    <3>1. nmess' = nmess
      BY <2>3 DEF Arrives, RecvJOIN, RecvMESS, RecvQUIT, RecvBad, RecvEOF, TypeOK, count, Goto
    <3>2. QED
      BY <1>1, <2>1, <2>3, <3>1 DEF Queued
  <2>4. pc'[t] = "handleMESS" => RecvMESS(t)
    BY DEF Arrives, RecvJOIN, RecvQUIT, RecvBad, RecvEOF, Goto, TypeOK
  <2>5. QED
    BY <2>2, <2>3, <2>4
<1>6. QED
  BY <1>1, <1>3, <1>4, <1>5 DEF roomVars

(* A thread that goes from one place to another.                           *)
Passes(t, S, to) == Standing[t] \in S /\ StandingOf(t)' = to

LEMMA PassesInRoom ==
  ASSUME TypeOK, NEW t \in Conn, Handles(t), NEW S, NEW to, Passes(t, S, to)
  PROVE  R!Becomes(t, S, to)
<1>1. \A u \in Conn : u # t => Same(u)
  BY OthersSame
<1>2. QED
  BY <1>1, OthersStand DEF Passes, R!Becomes, R!Is

LEMMA HandlesFrame ==
  ASSUME TypeOK, NEW t \in Conn, Handles(t)
  PROVE  /\ Hearing' = Hearing
         /\ handleMESS(t) \/ Queued' = Queued
<1> USE DEF TypeOK, Goto, thread, count
<1>1. \A u \in Conn : u # t => Same(u)
  BY OthersSame
<1>2. CASE AnnounceJoin(t)
  <2>1. cl'[t].fd = cl[t].fd /\ pc[t] = "handleJOIN" /\ pc'[t] = "append" /\ nmess' = nmess
    BY <1>2 DEF AnnounceJoin, Client
  <2>2. QED
    BY <1>1, <2>1, HearingSame, QueuedSame DEF Same
<1>3. CASE AppendClient(t)
  <2>1. /\ cl'[t].fd = cl[t].fd /\ pc[t] = "append" /\ pc'[t] = "setHasJoined"
        /\ nmess' = nmess
    BY <1>3 DEF AppendClient, append_Clientlist, Client
  <2>2. QED
    BY <1>1, <2>1, HearingSame, QueuedSame DEF Same
<1>4. CASE handleMESS(t)
  <2>1. cl' = cl
    BY <1>4 DEF handleMESS
  <2>2. QED
    BY <1>4, <2>1, HearingSame
<1>5. CASE BadFd(t) \/ clientHasJoined(t) \/ checkUserName(t) \/ RefuseName(t)
  <2>1. cl' = cl /\ nmess' = nmess /\ pc[t] # "handleMESS" /\ pc'[t] # "handleMESS"
    BY <1>5 DEF BadFd, clientHasJoined, checkUserName, RefuseName
  <2>2. QED
    BY <1>1, <2>1, HearingSame, QueuedSame DEF Same
<1>6. CASE MarkJoined(t) \/ ComposeParticipants(t) \/ sendParticipants(t)
  <2>1. cl' = cl /\ nmess' = nmess /\ pc[t] # "handleMESS" /\ pc'[t] # "handleMESS"
    BY <1>6 DEF MarkJoined, ComposeParticipants, sendParticipants
  <2>2. QED
    BY <1>1, <2>1, HearingSame, QueuedSame DEF Same
<1>7. CASE sendQUIT(t) \/ handleQUIT(t) \/ QueueLeave(t) \/ killConnection(t)
  <2>1. cl' = cl /\ nmess' = nmess /\ pc[t] # "handleMESS" /\ pc'[t] # "handleMESS"
    BY <1>7 DEF sendQUIT, handleQUIT, QueueLeave, killConnection
  <2>2. QED
    BY <1>1, <2>1, HearingSame, QueuedSame DEF Same
<1>8. QED
  BY <1>2, <1>3, <1>4, <1>5, <1>6, <1>7 DEF Handles

(* Steps of a thread that its person does not notice.                      *)
LEMMA UnnoticedStep ==
  ASSUME TypeOK, NEW t \in Conn,
         BadFd(t) \/ clientHasJoined(t) \/ checkUserName(t) \/ MarkJoined(t)
  PROVE  UNCHANGED roomVars
<1>1. Handles(t)
  BY DEF Handles
<1>2. cl' = cl /\ Live(t) /\ Live(t)' /\ UNCHANGED <<roster, queue, inbox>>
  BY DEF BadFd, clientHasJoined, checkUserName, MarkJoined, Goto, TypeOK, thread, Live
<1>3. Standing' = Standing
  <2>1. ASSUME NEW u \in Conn, u # t PROVE StandingOf(u)' = StandingOf(u)
    BY <1>1, <2>1, OthersSame DEF StandingOf, Same, Live
  <2>2. StandingOf(t)' = StandingOf(t)
    BY <1>2 DEF StandingOf, Live
  <2>3. QED
    BY <2>1, <2>2, AllStand
<1>4. Hearing' = Hearing /\ (handleMESS(t) \/ Queued' = Queued)
  BY <1>1, HandlesFrame
<1>5. ~handleMESS(t)
  BY DEF BadFd, clientHasJoined, checkUserName, MarkJoined, handleMESS, Goto, TypeOK
<1>6. QED
  BY <1>2, <1>3, <1>4, <1>5, LogSame, LineSame DEF roomVars

LEMMA RefuseStep ==
  ASSUME RoomInv, NEW t \in Conn, RefuseName(t)
  PROVE  R!Refuse(t)
<1> USE DEF RoomInv, ToldInv, SocketInv, OwnershipInv
<1>1. Handles(t)
  BY DEF Handles
<1>2. /\ pc[t] = "taken" /\ pc'[t] = "exited" /\ Outsider(t) /\ cl[t].idNum = 0
      /\ UNCHANGED <<roster, queue, nmess>>
  BY DEF RefuseName, Goto, TypeOK, count, Outsider, Live, SlotOwnership, NoSlotBeforeAppend,
     Joining
<1>3. Passes(t, {"outside", "announced"}, "left")
  BY <1>2, StandingIs, StandingNext DEF Passes, Standing
<1>4. R!Becomes(t, {"outside", "announced"}, "left")
  BY <1>1, <1>3, PassesInRoom
<1>5. Hearing' = Hearing /\ Queued' = Queued
  BY <1>1, <1>2, HandlesFrame DEF handleMESS, Goto
<1>6. R!Hears({t}, <<[op |-> "TAKEN"], [op |-> "QUIT"]>>)
  BY <1>2, <1>5, SendHeard DEF RefuseName, Outsider
<1>7. QED
  BY <1>2, <1>4, <1>5, <1>6, LineSame DEF R!Refuse

LEMMA AnnounceStep ==
  ASSUME RoomInv, NEW t \in Conn, AnnounceJoin(t)
  PROVE  R!Announce(t)
<1> USE DEF RoomInv, ToldInv, SocketInv, OwnershipInv
<1>1. Handles(t)
  BY DEF Handles
<1>2. /\ pc[t] = "handleJOIN" /\ pc'[t] = "append"
      /\ UNCHANGED <<roster, queue, nmess>>
  BY DEF AnnounceJoin, Goto, TypeOK, count
<1>3. cl[t].idNum = 0 /\ Outsider(t)
  BY <1>2 DEF Outsider, Live, SlotOwnership, NoSlotBeforeAppend, Joining
<1>4. cl'[t].idNum = 0 /\ cl'[t].hasJoined
  BY <1>3 DEF AnnounceJoin, TypeOK, Client
<1>5. Passes(t, {"outside", "announced"}, "announced")
  <2>1. Outsider(t)'
    BY <1>2, <1>4 DEF Outsider, Live
  <2>2. QED
    BY <1>3, <1>4, <2>1, StandingIs, StandingNext DEF Passes, Standing
<1>6. R!Becomes(t, {"outside", "announced"}, "announced")
  BY <1>1, <1>5, PassesInRoom
<1>7. Hearing' = Hearing /\ Queued' = Queued
  BY <1>1, <1>2, HandlesFrame DEF handleMESS, Goto
<1>8. R!Hears(R!Inside, <<[op |-> "PJOIN", who |-> t]>>)
  <2>1. [op |-> "PJOIN", who |-> t] \in Pdu
    BY DEF Pdu
  <2>2. QED
    BY <1>7, <2>1, BroadcastHeard DEF AnnounceJoin
<1>9. QED
  BY <1>2, <1>6, <1>7, <1>8, LineSame DEF R!Announce

LEMMA EnterStep ==
  ASSUME RoomInv, NEW t \in Conn, AppendClient(t)
  PROVE  R!Enter(t) \/ UNCHANGED roomVars
<1> USE DEF RoomInv, ToldInv, SocketInv, OwnershipInv
<1>1. Handles(t)
  BY DEF Handles
<1>2. /\ pc[t] = "append" /\ pc'[t] = "setHasJoined" /\ cl[t].hasJoined
      /\ UNCHANGED <<roster, queue, nmess, inbox>>
  BY DEF AppendClient, Goto, TypeOK, count, FlagSetBeforeAppend
<1>3. Outsider(t) /\ Live(t)'
  BY <1>2 DEF Outsider, Live, SlotOwnership, NoSlotBeforeAppend, Joining
<1>4. Hearing' = Hearing /\ Queued' = Queued
  BY <1>1, <1>2, HandlesFrame DEF handleMESS, Goto
<1>5. Log' = Log /\ Line' = Line
  BY <1>2, <1>4, LogSame, LineSame
<1>6. ASSUME cl'[t].idNum # 0 PROVE R!Enter(t)
  <2>1. Passes(t, {"announced"}, "in")
    BY <1>2, <1>3, <1>6, StandingIs, StandingNext DEF Passes, Standing
  <2>2. R!Becomes(t, {"announced"}, "in")
    BY <1>1, <2>1, PassesInRoom
  <2>3. QED
    BY <1>2, <1>4, <1>5, <2>2 DEF R!Enter
<1>7. ASSUME cl' = cl PROVE UNCHANGED roomVars
  <2>1. ASSUME NEW u \in Conn, u # t PROVE StandingOf(u)' = StandingOf(u)
    BY <1>1, <2>1, OthersSame DEF StandingOf, Same, Live
  <2>2. StandingOf(t)' = StandingOf(t)
    BY <1>3, <1>7 DEF StandingOf, Outsider, Live
  <2>3. QED
    BY <1>2, <1>4, <1>5, <2>1, <2>2, AllStand DEF roomVars
<1>8. cl' = cl \/ cl'[t].idNum # 0
  BY DEF AppendClient, append_Clientlist, TypeOK, Client
<1>9. QED
  BY <1>6, <1>7, <1>8

LEMMA ListStep ==
  ASSUME RoomInv, NEW t \in Conn, ComposeParticipants(t)
  PROVE  R!List(t) \/ UNCHANGED roomVars
<1> USE DEF RoomInv, ToldInv, SocketInv, OwnershipInv
<1>1. Handles(t)
  BY DEF Handles
<1>2. /\ pc[t] = "participants" /\ Live(t) /\ Live(t)' /\ cl[t].hasJoined /\ cl' = cl
      /\ UNCHANGED <<queue, nmess, inbox>>
  BY DEF ComposeParticipants, Goto, TypeOK, count, Live, Flagged, PastAnnouncement
<1>3. Hearing' = Hearing /\ Queued' = Queued
  BY <1>1, <1>2, HandlesFrame DEF handleMESS, Goto
<1>4. Log' = Log /\ Line' = Line
  BY <1>2, <1>3, LogSame, LineSame
<1>5. Standing' = Standing
  <2>1. ASSUME NEW u \in Conn, u # t PROVE StandingOf(u)' = StandingOf(u)
    BY <1>1, <2>1, OthersSame DEF StandingOf, Same, Live
  <2>2. StandingOf(t)' = StandingOf(t)
    BY <1>2 DEF StandingOf, Live
  <2>3. QED
    BY <2>1, <2>2, AllStand
<1>6. Standing[t] \in {"announced", "in"}
  BY <1>2, StandingIs DEF Standing, Outsider
<1>7. {clientList[i].who : i \in {j \in Slots : Occupied(j)}} = R!Inside
  <2>1. \A k \in Conn : k \in R!Inside <=> Listed(k)
    BY InsideIsListed
  <2>2. R!Inside \subseteq Conn
    BY DEF R!Inside
  <2>3. {clientList[i].who : i \in {j \in Slots : Occupied(j)}} \subseteq Conn
    BY DEF TypeOK
  <2>4. QED
    BY <2>1, <2>2, <2>3 DEF Listed
<1>8. CASE UNCHANGED roster
  BY <1>3, <1>4, <1>5, <1>8 DEF roomVars
<1>9. CASE roster' = [roster EXCEPT ![t] = R!Inside]
  BY <1>3, <1>4, <1>5, <1>6, <1>9 DEF R!List, R!Is
<1>10. QED
  BY <1>7, <1>8, <1>9 DEF ComposeParticipants

(* A thread's own sends.                                                   *)
LEMMA TellStep ==
  ASSUME RoomInv, NEW t \in Conn, sendParticipants(t) \/ sendQUIT(t)
  PROVE  R!Welcome(t) \/ R!Warn(t)
<1> USE DEF RoomInv, ToldInv, SocketInv, OwnershipInv
<1>1. Handles(t)
  BY DEF Handles
<1>2. /\ pc[t] \in {"sendParticipants", "sendQUIT"} /\ Live(t) /\ Live(t)' /\ cl' = cl
      /\ UNCHANGED <<queue, nmess>>
  BY DEF sendParticipants, sendQUIT, Goto, TypeOK, thread, count, Live
<1>3. Hearing' = Hearing /\ Queued' = Queued /\ Line' = Line
  BY <1>1, <1>2, HandlesFrame, LineSame DEF handleMESS, Goto
<1>4. Standing' = Standing
  <2>1. ASSUME NEW u \in Conn, u # t PROVE StandingOf(u)' = StandingOf(u)
    BY <1>1, <2>1, OthersSame DEF StandingOf, Same, Live
  <2>2. StandingOf(t)' = StandingOf(t)
    BY <1>2 DEF StandingOf, Live
  <2>3. QED
    BY <2>1, <2>2, AllStand
<1>5. CASE sendParticipants(t)
  <2>1. cl[t].hasJoined /\ roster' = [roster EXCEPT ![t] = {}]
    BY <1>5 DEF sendParticipants, Goto, Flagged, PastAnnouncement
  <2>2. Standing[t] \in {"announced", "in"}
    BY <1>2, <2>1, StandingIs DEF Standing, Outsider
  <2>3. [op |-> "PARTICIPANTS", roster |-> roster[t]] \in Pdu
    BY DEF Pdu, TypeOK
  <2>4. R!Hears({t}, <<[op |-> "PARTICIPANTS", roster |-> roster[t]]>>)
    BY <1>2, <1>3, <1>5, <2>3, SendtoHeard DEF sendParticipants
  <2>5. QED
    BY <1>3, <1>4, <2>1, <2>2, <2>4 DEF R!Welcome, R!Is
<1>6. CASE sendQUIT(t)
  <2>1. roster' = roster
    BY <1>6 DEF sendQUIT, thread
  <2>2. Standing[t] \in {"outside", "announced", "in"}
    BY <1>2, StandingIs DEF Standing, Outsider
  <2>3. [op |-> "QUIT"] \in Pdu
    BY DEF Pdu
  <2>4. R!Hears({t}, <<[op |-> "QUIT"]>>)
    BY <1>2, <1>3, <1>6, <2>3, SendtoHeard DEF sendQUIT
  <2>5. QED
    BY <1>3, <1>4, <2>1, <2>2, <2>4 DEF R!Warn, R!Is
<1>7. QED
  BY <1>5, <1>6

LEMMA LineGrows ==
  ASSUME TypeOK, NEW it \in Item, msgQueue_add(it)
  PROVE  Line' = Append(Line, it)
<1>1. sending = <<>> /\ sending' = <<>> /\ messageQueue \in Seq(Item)
      /\ messageQueue' = Append(messageQueue, it) /\ messageQueue' \in Seq(Item)
  BY AppendProperties DEF msgQueue_add, TypeOK
<1>2. QED
  BY <1>1, ConcatEmptySeq DEF Line

LEMMA SayStep ==
  ASSUME RoomInv, NEW t \in Conn, handleMESS(t)
  PROVE  R!Say(t)
<1> USE DEF RoomInv, ToldInv, SocketInv, OwnershipInv
<1> DEFINE it == [op |-> "MESS", who |-> t, nr |-> nmess[t]]
<1>1. Handles(t)
  BY DEF Handles
<1>2. /\ pc[t] = "handleMESS" /\ pc' = [pc EXCEPT ![t] = "run"] /\ pc'[t] = "run"
      /\ Live(t) /\ Live(t)' /\ cl' = cl /\ cl[t].hasJoined
      /\ UNCHANGED <<roster, inbox, nmess>> /\ nmess[t] \in Nat
      /\ it \in Item /\ msgQueue_add(it)
  BY DEF handleMESS, Goto, TypeOK, thread, count, Live, Flagged, PastAnnouncement, Item
<1>3. Hearing' = Hearing /\ Log' = Log
  BY <1>1, <1>2, HandlesFrame, LogSame
<1>4. Standing' = Standing
  <2>1. ASSUME NEW u \in Conn, u # t PROVE StandingOf(u)' = StandingOf(u)
    BY <1>1, <2>1, OthersSame DEF StandingOf, Same, Live
  <2>2. StandingOf(t)' = StandingOf(t)
    BY <1>2 DEF StandingOf, Live
  <2>3. QED
    BY <2>1, <2>2, AllStand
<1>5. Standing[t] \in {"announced", "in"}
  BY <1>2, StandingIs DEF Standing, Outsider
<1>6. Queued[t] = nmess[t] - 1 /\ nmess[t] = Queued[t] + 1
  BY <1>2 DEF Queued
<1>7. Queued' = [Queued EXCEPT ![t] = Queued[t] + 1]
  BY <1>2, <1>6 DEF Queued, TypeOK
<1>8. Line' = Append(Line, it)
  BY <1>2, LineGrows
<1>9. QED
  BY <1>2, <1>3, <1>4, <1>5, <1>6, <1>7, <1>8 DEF R!Say, R!Puts, R!Is

LEMMA ByeStep ==
  ASSUME RoomInv, NEW t \in Conn, QueueLeave(t)
  PROVE  R!Bye(t)
<1> USE DEF RoomInv, ToldInv, SocketInv, OwnershipInv
<1> DEFINE it == [op |-> "PLEAVE", who |-> t, nr |-> nmess[t] + 1]
<1>1. Handles(t)
  BY DEF Handles
<1>2. /\ pc[t] = "leave" /\ pc'[t] = "exited"
      /\ UNCHANGED <<roster, inbox, nmess>> /\ nmess[t] \in Nat
      /\ it \in Item /\ msgQueue_add(it)
  BY DEF QueueLeave, Goto, TypeOK, thread, count, Item
<1>3. Hearing' = Hearing /\ Queued' = Queued /\ Log' = Log
  BY <1>1, <1>2, HandlesFrame, LogSame DEF handleMESS, Goto
<1>4. Passes(t, {"leaving"}, "left")
  BY <1>2, StandingIs, StandingNext DEF Passes, Standing
<1>5. R!Becomes(t, {"leaving"}, "left")
  BY <1>1, <1>4, PassesInRoom
<1>6. Queued[t] = nmess[t]
  BY <1>2 DEF Queued
<1>7. Line' = Append(Line, it)
  BY <1>2, LineGrows
<1>8. QED
  BY <1>2, <1>3, <1>5, <1>6, <1>7 DEF R!Bye, R!Puts

LEMMA LeaveStep ==
  ASSUME RoomInv, NEW t \in Conn, handleQUIT(t) \/ killConnection(t)
  PROVE  R!Leave(t) \/ R!Go(t)
<1> USE DEF RoomInv, ToldInv, SocketInv, OwnershipInv
<1>1. Handles(t)
  BY DEF Handles
<1>2. /\ pc[t] \in {"handleQUIT", "kill"} /\ Live(t)
      /\ UNCHANGED <<roster, inbox, nmess, queue>>
  BY DEF handleQUIT, killConnection, Goto, TypeOK, thread, count, Live
<1>3. Hearing' = Hearing /\ Queued' = Queued /\ Log' = Log /\ Line' = Line
  BY <1>1, <1>2, HandlesFrame, LogSame, LineSame DEF handleMESS, Goto
<1>4. CASE handleQUIT(t)
  <2>1. pc'[t] = "leave"
    BY <1>4 DEF handleQUIT, Goto, TypeOK
  <2>2. Passes(t, {"outside", "announced", "in"}, "leaving")
    BY <1>2, <2>1, StandingIs, StandingNext DEF Passes, Standing, Outsider
  <2>3. QED
    BY <1>1, <1>2, <1>3, <2>2, PassesInRoom DEF R!Leave
<1>5. CASE killConnection(t)
  <2>1. pc[t] = "kill" /\ pc'[t] = "exited" /\ cl[t].idNum = 0
    BY <1>5 DEF killConnection, Goto, TypeOK, ThreadInv
  <2>2. Passes(t, {"outside", "announced"}, "left")
    BY <1>2, <2>1, StandingIs, StandingNext DEF Passes, Standing, Outsider
  <2>3. QED
    BY <1>1, <1>2, <1>3, <2>2, PassesInRoom DEF R!Go
<1>6. QED
  BY <1>4, <1>5

LEMMA SenderStep ==
  ASSUME RoomInv, Sender
  PROVE  R!Hear \/ UNCHANGED roomVars
<1> USE DEF RoomInv, ToldInv, SocketInv, OwnershipInv
<1>1. UNCHANGED <<pc, cl, roster, nmess>>
  BY DEF Sender, msgQueue_pop, SendItem, thread, count
<1>2. Standing' = Standing /\ Hearing' = Hearing /\ Queued' = Queued
  BY <1>1, AllStand, HearingSame, QueuedSame DEF StandingOf, Live
<1>3. CASE msgQueue_pop
  <2>1. /\ messageQueue \in Seq(Item) /\ messageQueue # <<>> /\ sending = <<>>
        /\ sending' = <<Head(messageQueue)>> /\ messageQueue' = Tail(messageQueue)
        /\ inbox' = inbox
    BY <1>3 DEF msgQueue_pop, TypeOK
  <2>2. <<Head(messageQueue)>> \o Tail(messageQueue) = messageQueue
    BY <2>1, HeadTailProperties, ConcatProperties, SeqEqual
  <2>3. <<>> \o messageQueue = messageQueue
    BY <2>1, ConcatEmptySeq
  <2>4. Line' = Line
    BY <2>1, <2>2, <2>3 DEF Line
  <2>5. QED
    BY <1>1, <1>2, <2>1, <2>4, LogSame DEF roomVars
<1>4. CASE SendItem
  <2>1. /\ sending \in Seq(Item) /\ Len(sending) = 1 /\ sending[1] \in Item
        /\ sending[1] \in Pdu /\ sendMessage(sending[1]) /\ sending' = <<>>
        /\ messageQueue' = messageQueue /\ messageQueue \in Seq(Item)
    <3>1. /\ sending # <<>> /\ sendMessage(sending[1]) /\ sending' = <<>>
          /\ messageQueue' = messageQueue
      BY <1>4 DEF SendItem
    <3>2. sending \in Seq(Item) /\ Len(sending) <= 1 /\ messageQueue \in Seq(Item)
      BY DEF TypeOK
    <3>3. Len(sending) = 1 /\ sending[1] \in Item
      <4>1. Len(sending) \in Nat /\ Len(sending) # 0
        BY <3>1, <3>2, EmptySeq
      <4>2. \A n \in Nat : n # 0 /\ n <= 1 => n = 1
        OBVIOUS
      <4>3. Len(sending) = 1
        BY <3>2, <4>1, <4>2, Zenon
      <4>4. QED
        BY <3>2, <4>3, ElementOfSeq
    <3>4. Item \subseteq Pdu
      BY DEF Pdu
    <3>5. QED
      BY <3>1, <3>2, <3>3, <3>4
  <2>2. /\ Line \in Seq(Item) /\ Len(Line) = 1 + Len(messageQueue) /\ Line[1] = sending[1]
        /\ \A i \in 1..Len(messageQueue) : Line[1 + i] = messageQueue[i]
    <3>1. Line = sending \o messageQueue
      BY DEF Line
    <3>2. /\ Line \in Seq(Item) /\ Len(Line) = Len(sending) + Len(messageQueue)
          /\ \A i \in 1..(Len(sending) + Len(messageQueue)) :
               Line[i] = IF i <= Len(sending) THEN sending[i]
                                              ELSE messageQueue[i - Len(sending)]
      BY <2>1, <3>1, ConcatProperties
    <3>3. Len(messageQueue) \in Nat
      BY <2>1
    <3>4. QED
      BY <2>1, <3>2, <3>3
  <2>3. Line # <<>> /\ Head(Line) = sending[1]
    BY <2>2
  <2>4. Line' = messageQueue
    BY <2>1, ConcatEmptySeq DEF Line
  <2>5. Tail(Line) = messageQueue
    <3>1. /\ Tail(Line) \in Seq(Item) /\ Len(Tail(Line)) = Len(messageQueue)
          /\ \A i \in 1..Len(messageQueue) : Tail(Line)[i] = Line[i + 1]
      BY <2>2, <2>3, HeadTailProperties
    <3>2. QED
      BY <2>1, <2>2, <3>1, SeqEqual
  <2>6. R!Hears(R!Inside, <<sending[1]>>)
    BY <1>2, <2>1, BroadcastHeard
  <2>7. QED
    BY <1>1, <1>2, <2>3, <2>4, <2>5, <2>6 DEF R!Hear
<1>5. QED
  BY <1>3, <1>4 DEF Sender

LEMMA IdleStep ==
  ASSUME SizeCheck \/ AtRest \/ UNCHANGED vars
  PROVE  UNCHANGED roomVars
<1>1. UNCHANGED <<pc, cl, roster, nmess, queue, inbox>>
  BY DEF SizeCheck, AtRest, vars, thread, count
<1>2. Standing' = Standing /\ Hearing' = Hearing /\ Queued' = Queued
  BY <1>1, AllStand, HearingSame, QueuedSame DEF StandingOf, Live
<1>3. QED
  BY <1>1, <1>2, LogSame, LineSame DEF roomVars

LEMMA RoomStep == RoomInv /\ [Next]_vars => [R!Next]_roomVars
<1> SUFFICES ASSUME RoomInv, [Next]_vars PROVE R!Next \/ UNCHANGED roomVars
  OBVIOUS
<1>1. CASE SizeCheck \/ AtRest \/ UNCHANGED vars
  BY <1>1, IdleStep
<1>2. CASE Sender
  BY <1>2, SenderStep DEF R!Next
<1>3. ASSUME NEW t \in Conn, Accept(t) \/ AcceptFails(t) PROVE R!Next
  BY <1>3, ArriveStep DEF R!Next
<1>4. ASSUME NEW t \in Conn, Arrives(t) PROVE UNCHANGED roomVars
  BY <1>4, ReceiveStep
<1>5. ASSUME NEW t \in Conn, Handles(t) PROVE R!Next \/ UNCHANGED roomVars
  <2>1. CASE BadFd(t) \/ clientHasJoined(t) \/ checkUserName(t) \/ MarkJoined(t)
    BY <2>1, UnnoticedStep DEF RoomInv, ToldInv, SocketInv, OwnershipInv
  <2>2. CASE RefuseName(t)
    BY <2>2, RefuseStep DEF R!Next
  <2>3. CASE AnnounceJoin(t)
    BY <2>3, AnnounceStep DEF R!Next
  <2>4. CASE AppendClient(t)
    BY <2>4, EnterStep DEF R!Next
  <2>5. CASE ComposeParticipants(t)
    BY <2>5, ListStep DEF R!Next
  <2>6. CASE sendParticipants(t) \/ sendQUIT(t)
    BY <2>6, TellStep DEF R!Next
  <2>7. CASE handleMESS(t)
    BY <2>7, SayStep DEF R!Next
  <2>8. CASE QueueLeave(t)
    BY <2>8, ByeStep DEF R!Next
  <2>9. CASE handleQUIT(t) \/ killConnection(t)
    BY <2>9, LeaveStep DEF R!Next
  <2>10. QED
    BY <1>5, <2>1, <2>2, <2>3, <2>4, <2>5, <2>6, <2>7, <2>8, <2>9 DEF Handles
<1>6. QED
  BY <1>1, <1>2, <1>3, <1>4, <1>5 DEF Next

LEMMA RoomInit == Init => R!Init
<1> SUFFICES ASSUME Init PROVE R!Init
  OBVIOUS
<1>1. \A t \in Conn : StandingOf(t) = "away"
  BY StandingIs DEF Init
<1>2. Line = <<>>
  BY DEF Init, Line
<1>3. Hearing = {} /\ Queued = [t \in Conn |-> 0] /\ Log = [t \in Conn |-> <<>>]
  BY DEF Init, Hearing, Queued, Log
<1>4. roster = [t \in Conn |-> {}]
  BY DEF Init
<1>5. QED
  BY <1>1, <1>2, <1>3, <1>4 DEF R!Init, Standing

(* The server is a room: through slots, ids, descriptors and two locks,    *)
(* everything said is heard once, in one order, by all who are inside.     *)
THEOREM ServerIsRoom == Spec => IsRoom
<1>1. [R!Next]_roomVars => [R!Next]_(R!vars)
  BY DEF roomVars, R!vars
<1>2. QED
  BY RoomInvInit, RoomInvStep, RoomInit, RoomStep, <1>1, PTL DEF Spec, IsRoom, R!Spec

-----------------------------------------------------------------------------
(***************************************************************************)
(* In a room, what is heard of a person is in order.  What somebody inside *)
(* has heard, followed by what is still in the line, ends with the last    *)
(* thing each person said: it stays so when the person says the next, when *)
(* the head of the line is heard, and when something else comes between.   *)
(***************************************************************************)
(* The last thing s said in w has the number n.                            *)
Closes(s, w, n) ==
  \A m \in DOMAIN w :
    Said(w[m], s) /\ (\A j \in (m + 1)..Len(w) : ~Said(w[j], s)) => w[m].nr = n

Orderly(s, w, open, n) == InOrder(s, w) /\ (open => Closes(s, w, n))

Silent(s, w) == \A i \in DOMAIN w : ~Said(w[i], s)

LEMMA Associates ==
  \A a, b, c \in Seq(Pdu) : (a \o b) \o c = a \o (b \o c)
BY ConcatAssociative

LEMMA PrefixInOrder ==
  ASSUME NEW s, NEW v \in Seq(Pdu), NEW w \in Seq(Pdu), InOrder(s, v \o w)
  PROVE  InOrder(s, v)
<1> DEFINE vw == v \o w
<1>1. /\ DOMAIN v = 1..Len(v) /\ DOMAIN vw = 1..Len(vw)
      /\ Len(v) \in Nat /\ Len(w) \in Nat /\ Len(vw) = Len(v) + Len(w)
      /\ \A i \in 1..Len(v) : vw[i] = v[i]
  BY ConcatProperties, LenProperties
<1> HIDE DEF vw
<1>2. InOrder(s, vw)
  BY DEF vw
<1> SUFFICES ASSUME NEW i \in DOMAIN v, NEW j \in DOMAIN v, i < j,
                    Said(v[i], s), Said(v[j], s),
                    \A l \in (i + 1)..(j - 1) : ~Said(v[l], s)
             PROVE  v[j].nr = v[i].nr + 1
  BY DEF InOrder
<1>3. i \in DOMAIN vw /\ j \in DOMAIN vw /\ vw[i] = v[i] /\ vw[j] = v[j]
  BY <1>1
<1>4. ASSUME NEW l \in (i + 1)..(j - 1) PROVE ~Said(vw[l], s)
  BY <1>1, <1>4
<1>5. QED
  BY <1>2, <1>3, <1>4 DEF InOrder

(* Something that s does not say may come in between.                      *)
LEMMA SilentBetween ==
  ASSUME NEW s, NEW v \in Seq(Pdu), NEW x \in Seq(Pdu), NEW w \in Seq(Pdu),
         Silent(s, x), NEW open \in BOOLEAN, NEW n, Orderly(s, v \o w, open, n)
  PROVE  Orderly(s, (v \o x) \o w, open, n)
<1> DEFINE a == v \o w
           b == (v \o x) \o w
<1>1. /\ Len(v) \in Nat /\ Len(x) \in Nat /\ Len(w) \in Nat
      /\ DOMAIN a = 1..(Len(v) + Len(w)) /\ Len(a) = Len(v) + Len(w)
      /\ DOMAIN x = 1..Len(x)
      /\ \A i \in 1..(Len(v) + Len(w)) : a[i] = IF i <= Len(v) THEN v[i] ELSE w[i - Len(v)]
  BY ConcatProperties, LenProperties
<1>2. /\ v \o x \in Seq(Pdu) /\ Len(v \o x) = Len(v) + Len(x)
      /\ \A i \in 1..(Len(v) + Len(x)) :
           (v \o x)[i] = IF i <= Len(v) THEN v[i] ELSE x[i - Len(v)]
  BY ConcatProperties
<1>3. /\ b \in Seq(Pdu) /\ Len(b) = Len(v) + Len(x) + Len(w)
      /\ \A i \in 1..(Len(v) + Len(x) + Len(w)) :
           b[i] = IF i <= Len(v) + Len(x) THEN (v \o x)[i] ELSE w[i - (Len(v) + Len(x))]
  BY <1>2, ConcatProperties
<1>4. DOMAIN b = 1..(Len(v) + Len(x) + Len(w))
  BY <1>3, LenProperties
<1> HIDE DEF a, b
<1> DEFINE Back(i) == IF i <= Len(v) THEN i ELSE i - Len(x)
           On(i) == IF i <= Len(v) THEN i ELSE i + Len(x)
<1>5. ASSUME NEW i \in DOMAIN b, Said(b[i], s)
      PROVE  Back(i) \in DOMAIN a /\ a[Back(i)] = b[i] /\ On(Back(i)) = i
  <2>1. CASE i <= Len(v)
    BY <1>1, <1>2, <1>3, <1>4, <2>1
  <2>2. CASE i > Len(v) /\ i <= Len(v) + Len(x)
    <3>1. b[i] = x[i - Len(v)] /\ i - Len(v) \in 1..Len(x)
      BY <1>1, <1>2, <1>3, <1>4, <2>2
    <3>2. QED
      BY <1>1, <1>5, <3>1 DEF Silent
  <2>3. CASE i > Len(v) + Len(x)
    <3>1. /\ i - Len(x) \in 1..(Len(v) + Len(w)) /\ i - Len(x) > Len(v)
          /\ (i - Len(x)) - Len(v) = i - (Len(v) + Len(x))
      BY <1>1, <1>4, <2>3
    <3>2. b[i] = w[i - (Len(v) + Len(x))]
      BY <1>1, <1>3, <1>4, <2>3
    <3>3. a[i - Len(x)] = w[(i - Len(x)) - Len(v)]
      BY <1>1, <3>1
    <3>4. i > Len(v)
      BY <1>1, <1>4, <2>3
    <3>5. QED
      BY <1>1, <1>4, <3>1, <3>2, <3>3, <3>4
  <2>4. QED
    BY <1>1, <1>4, <2>1, <2>2, <2>3
<1>6. ASSUME NEW i \in DOMAIN a
      PROVE  On(i) \in DOMAIN b /\ b[On(i)] = a[i]
  <2>1. CASE i <= Len(v)
    <3>1. i \in 1..(Len(v) + Len(x) + Len(w)) /\ i <= Len(v) + Len(x)
      BY <1>1, <2>1
    <3>2. b[i] = (v \o x)[i] /\ (v \o x)[i] = v[i] /\ a[i] = v[i]
      BY <1>1, <1>2, <1>3, <2>1, <3>1
    <3>3. QED
      BY <1>4, <2>1, <3>1, <3>2
  <2>2. CASE i > Len(v)
    <3>1. /\ i + Len(x) \in 1..(Len(v) + Len(x) + Len(w)) /\ i + Len(x) > Len(v) + Len(x)
          /\ (i + Len(x)) - (Len(v) + Len(x)) = i - Len(v)
      BY <1>1, <2>2
    <3>2. b[i + Len(x)] = w[(i + Len(x)) - (Len(v) + Len(x))]
      BY <1>1, <1>3, <3>1
    <3>3. a[i] = w[i - Len(v)]
      BY <1>1, <2>2
    <3>4. QED
      BY <1>1, <1>4, <2>2, <3>1, <3>2, <3>3
  <2>3. QED
    BY <1>1, <2>1, <2>2
<1>7. \A i \in DOMAIN a, j \in DOMAIN a : i < j => On(i) < On(j)
  BY <1>1
<1>8. ASSUME NEW i \in DOMAIN b, NEW j \in DOMAIN b, i < j, Said(b[i], s), Said(b[j], s)
      PROVE  Back(i) < Back(j)
  BY <1>1, <1>4, <1>5, <1>8
<1>9. InOrder(s, a) /\ (open => Closes(s, a, n))
  BY DEF a, Orderly
<1> HIDE DEF Back, On
<1>10. InOrder(s, b)
  <2> SUFFICES ASSUME NEW i \in DOMAIN b, NEW j \in DOMAIN b, i < j,
                      Said(b[i], s), Said(b[j], s),
                      \A l \in (i + 1)..(j - 1) : ~Said(b[l], s)
               PROVE  b[j].nr = b[i].nr + 1
    BY DEF InOrder
  <2>1. /\ Back(i) \in DOMAIN a /\ Back(j) \in DOMAIN a /\ Back(i) < Back(j)
        /\ a[Back(i)] = b[i] /\ a[Back(j)] = b[j]
        /\ On(Back(i)) = i /\ On(Back(j)) = j
    BY <1>5, <1>8
  <2>2. ASSUME NEW l \in (Back(i) + 1)..(Back(j) - 1) PROVE ~Said(a[l], s)
    <3>1. l \in DOMAIN a /\ Back(i) < l /\ l < Back(j)
      BY <1>1, <2>1, <2>2
    <3>2. On(l) \in DOMAIN b /\ i < On(l) /\ On(l) < j /\ b[On(l)] = a[l]
      BY <1>6, <1>7, <2>1, <3>1
    <3>3. On(l) \in (i + 1)..(j - 1)
      BY <1>1, <1>4, <3>2
    <3>4. QED
      BY <3>2, <3>3
  <2>3. QED
    BY <1>9, <2>1, <2>2, Zenon DEF InOrder
<1>11. ASSUME open PROVE Closes(s, b, n)
  <2> SUFFICES ASSUME NEW i \in DOMAIN b, Said(b[i], s),
                      \A l \in (i + 1)..Len(b) : ~Said(b[l], s)
               PROVE  b[i].nr = n
    BY DEF Closes
  <2>1. Back(i) \in DOMAIN a /\ a[Back(i)] = b[i] /\ On(Back(i)) = i
    BY <1>5
  <2>2. ASSUME NEW l \in (Back(i) + 1)..Len(a) PROVE ~Said(a[l], s)
    <3>1. l \in DOMAIN a /\ Back(i) < l
      BY <1>1, <2>1, <2>2
    <3>2. On(l) \in DOMAIN b /\ i < On(l) /\ b[On(l)] = a[l]
      BY <1>6, <1>7, <2>1, <3>1
    <3>3. On(l) \in (i + 1)..Len(b)
      BY <1>1, <1>3, <1>4, <3>2
    <3>4. QED
      BY <3>2, <3>3
  <2>3. QED
    BY <1>9, <1>11, <2>1, <2>2, Zenon DEF Closes
<1>12. QED
  BY <1>10, <1>11 DEF Orderly, b

LEMMA SilentBoth ==
  ASSUME NEW s, NEW v \in Seq(Pdu), NEW x \in Seq(Pdu), Silent(s, v), Silent(s, x)
  PROVE  Silent(s, v \o x)
<1> DEFINE vx == v \o x
<1>1. /\ DOMAIN v = 1..Len(v) /\ DOMAIN x = 1..Len(x)
      /\ Len(v) \in Nat /\ Len(x) \in Nat
      /\ \A i \in 1..(Len(v) + Len(x)) : vx[i] = IF i <= Len(v) THEN v[i] ELSE x[i - Len(v)]
      /\ DOMAIN vx = 1..(Len(v) + Len(x))
  BY ConcatProperties, LenProperties
<1> HIDE DEF vx
<1> SUFFICES ASSUME NEW i \in DOMAIN vx PROVE ~Said(vx[i], s)
  BY DEF Silent, vx
<1>2. CASE i <= Len(v)
  BY <1>1, <1>2 DEF Silent
<1>3. CASE i > Len(v)
  <2>1. vx[i] = x[i - Len(v)] /\ i - Len(v) \in DOMAIN x
    BY <1>1, <1>3
  <2>2. QED
    BY <2>1 DEF Silent
<1>4. QED
  BY <1>1, <1>2, <1>3

LEMMA SilentAfter ==
  ASSUME NEW s, NEW v \in Seq(Pdu), NEW x \in Seq(Pdu), Silent(s, x),
         NEW open \in BOOLEAN, NEW n, Orderly(s, v, open, n)
  PROVE  Orderly(s, v \o x, open, n)
<1>1. v \o <<>> = v /\ (v \o x) \o <<>> = v \o x /\ <<>> \in Seq(Pdu)
  BY ConcatProperties, ConcatEmptySeq
<1>2. QED
  BY <1>1, SilentBetween

LEMMA SilentBefore ==
  ASSUME NEW s, NEW x \in Seq(Pdu), NEW w \in Seq(Pdu), Silent(s, x),
         NEW open \in BOOLEAN, NEW n, Orderly(s, w, open, n)
  PROVE  Orderly(s, x \o w, open, n)
<1>1. <<>> \o w = w /\ <<>> \o x = x /\ <<>> \in Seq(Pdu)
  BY ConcatEmptySeq
<1>2. Orderly(s, (<<>> \o x) \o w, open, n)
  BY <1>1, SilentBetween
<1>3. QED
  BY <1>1, <1>2

(* What s says next has the next number.                                   *)
LEMMA SayNext ==
  ASSUME NEW s, NEW w \in Seq(Pdu), NEW n \in Int, Orderly(s, w, TRUE, n),
         NEW it \in Pdu, Said(it, s), it.nr = n + 1
  PROVE  Orderly(s, w \o <<it>>, TRUE, n + 1)
<1> DEFINE b == w \o <<it>>
<1>1. /\ Len(w) \in Nat /\ DOMAIN w = 1..Len(w)
      /\ DOMAIN b = 1..(Len(w) + 1) /\ Len(b) = Len(w) + 1
      /\ (\A i \in 1..Len(w) : b[i] = w[i]) /\ b[Len(w) + 1] = it
  <2>1. <<it>> \in Seq(Pdu) /\ Len(<<it>>) = 1 /\ <<it>>[1] = it
    OBVIOUS
  <2>2. /\ b \in Seq(Pdu) /\ Len(b) = Len(w) + 1
        /\ \A i \in 1..(Len(w) + 1) : b[i] = IF i <= Len(w) THEN w[i] ELSE <<it>>[i - Len(w)]
    BY <2>1, ConcatProperties
  <2>3. Len(w) \in Nat /\ DOMAIN w = 1..Len(w) /\ DOMAIN b = 1..Len(b)
    BY <2>2, LenProperties
  <2> HIDE DEF b
  <2>4. QED
    BY <2>1, <2>2, <2>3
<1> HIDE DEF b
<1>2. InOrder(s, w) /\ Closes(s, w, n)
  BY DEF Orderly
<1>3. InOrder(s, b)
  <2> SUFFICES ASSUME NEW i \in DOMAIN b, NEW j \in DOMAIN b, i < j,
                      Said(b[i], s), Said(b[j], s),
                      \A l \in (i + 1)..(j - 1) : ~Said(b[l], s)
               PROVE  b[j].nr = b[i].nr + 1
    BY DEF InOrder
  <2>1. CASE j = Len(w) + 1
    <3>1. i \in DOMAIN w /\ b[i] = w[i]
      BY <1>1, <2>1
    <3>2. ASSUME NEW l \in (i + 1)..Len(w) PROVE ~Said(w[l], s)
      BY <1>1, <2>1, <3>1, <3>2
    <3>3. w[i].nr = n
      BY <1>2, <3>1, <3>2 DEF Closes
    <3>4. QED
      BY <1>1, <2>1, <3>1, <3>3
  <2>2. CASE j # Len(w) + 1
    <3>1. i \in DOMAIN w /\ b[i] = w[i] /\ j \in DOMAIN w /\ b[j] = w[j]
      BY <1>1, <2>2
    <3>2. ASSUME NEW l \in (i + 1)..(j - 1) PROVE ~Said(w[l], s)
      BY <1>1, <3>1, <3>2
    <3>3. QED
      BY <1>2, <3>1, <3>2 DEF InOrder
  <2>3. QED
    BY <2>1, <2>2
<1>4. Closes(s, b, n + 1)
  <2> SUFFICES ASSUME NEW i \in DOMAIN b, Said(b[i], s),
                      \A l \in (i + 1)..Len(b) : ~Said(b[l], s)
               PROVE  b[i].nr = n + 1
    BY DEF Closes
  <2>1. i = Len(w) + 1
    BY <1>1
  <2>2. QED
    BY <1>1, <2>1
<1>5. QED
  BY <1>3, <1>4 DEF Orderly, b

LEMMA RestOrderly ==
  ASSUME NEW s, NEW w \in Seq(Pdu), w # <<>>, NEW open \in BOOLEAN, NEW n,
         Orderly(s, w, open, n)
  PROVE  Orderly(s, Tail(w), open, n)
<1> DEFINE t == Tail(w)
<1>1. /\ Len(w) \in Nat /\ DOMAIN w = 1..Len(w) /\ t \in Seq(Pdu)
      /\ Len(t) = Len(w) - 1 /\ \A i \in 1..Len(t) : t[i] = w[i + 1]
  BY HeadTailProperties, LenProperties
<1>2. DOMAIN t = 1..Len(t) /\ Len(t) \in Nat
  BY <1>1, LenProperties
<1> HIDE DEF t
<1>3. InOrder(s, w) /\ (open => Closes(s, w, n))
  BY DEF Orderly
<1>4. InOrder(s, t)
  <2> SUFFICES ASSUME NEW i \in DOMAIN t, NEW j \in DOMAIN t, i < j,
                      Said(t[i], s), Said(t[j], s),
                      \A l \in (i + 1)..(j - 1) : ~Said(t[l], s)
               PROVE  t[j].nr = t[i].nr + 1
    BY DEF InOrder
  <2>1. /\ i + 1 \in DOMAIN w /\ j + 1 \in DOMAIN w /\ i + 1 < j + 1
        /\ t[i] = w[i + 1] /\ t[j] = w[j + 1]
    BY <1>1, <1>2
  <2>2. ASSUME NEW l \in ((i + 1) + 1)..((j + 1) - 1) PROVE ~Said(w[l], s)
    <3>1. l - 1 \in (i + 1)..(j - 1) /\ t[l - 1] = w[l]
      BY <1>1, <1>2, <2>2
    <3>2. QED
      BY <3>1
  <2>3. QED
    BY <1>3, <2>1, <2>2 DEF InOrder
<1>5. ASSUME open PROVE Closes(s, t, n)
  <2> SUFFICES ASSUME NEW i \in DOMAIN t, Said(t[i], s),
                      \A l \in (i + 1)..Len(t) : ~Said(t[l], s)
               PROVE  t[i].nr = n
    BY DEF Closes
  <2>1. i + 1 \in DOMAIN w /\ t[i] = w[i + 1]
    BY <1>1, <1>2
  <2>2. ASSUME NEW l \in ((i + 1) + 1)..Len(w) PROVE ~Said(w[l], s)
    <3>1. l - 1 \in (i + 1)..Len(t) /\ t[l - 1] = w[l]
      BY <1>1, <1>2, <2>2
    <3>2. QED
      BY <3>1
  <2>3. QED
    BY <1>3, <1>5, <2>1, <2>2 DEF Closes
<1>6. QED
  BY <1>4, <1>5 DEF Orderly, t

-----------------------------------------------------------------------------
(* A person of these has heard nothing that was said in the line.          *)
Entering == {"away", "outside", "announced"}

Fits(s, w) == Orderly(s, w, Standing[s] # "left", Queued[s])

Order ==
  /\ \A s \in Conn : Fits(s, Line)
  /\ \A k \in Hearing, s \in Conn :
       /\ InOrder(s, Log[k])
       /\ k \in R!Inside => Fits(s, Log[k] \o Line)
       /\ Standing[k] \in Entering => Silent(s, Log[k])

LEMMA RoomTypes ==
  ASSUME RoomInv
  PROVE  /\ Line \in Seq(Pdu) /\ Log \in [Conn -> Seq(Pdu)]
         /\ Queued \in [Conn -> Int] /\ roster \in [Conn -> SUBSET Conn]
         /\ Hearing \subseteq Conn /\ \A p \in Conn : Queued[p] + 1 \in Nat
<1> USE DEF RoomInv, ToldInv, SocketInv, OwnershipInv
<1>1. Line \in Seq(Pdu)
  <2>1. sending \in Seq(Item) /\ messageQueue \in Seq(Item) /\ Item \subseteq Pdu
    BY DEF TypeOK, Pdu
  <2>2. Line \in Seq(Item)
    BY <2>1, ConcatProperties DEF Line
  <2>3. QED
    BY <2>1, <2>2, SeqMonotonic
<1>2. Log \in [Conn -> Seq(Pdu)]
  <2>1. inbox \in [Conn -> Seq(Pdu)] /\ <<>> \in Seq(Pdu)
    BY DEF TypeOK
  <2>2. QED
    BY <2>1 DEF Log
<1>3. Queued \in [Conn -> Int] /\ \A p \in Conn : Queued[p] + 1 \in Nat
  BY DEF Queued, TypeOK
<1>4. QED
  BY <1>1, <1>2, <1>3 DEF TypeOK, Hearing

LEMMA FitsStill ==
  ASSUME NEW s \in Conn, NEW w, Fits(s, w), Queued' = Queued,
         Standing[s] = "left" => Standing'[s] = "left"
  PROVE  Orderly(s, w, Standing'[s] # "left", Queued'[s])
BY DEF Fits, Orderly

LEMMA OrderSilent ==
  ASSUME RoomInv, RoomInv', Order, NEW P, NEW words \in Seq(Pdu),
         \A s \in Conn : Silent(s, words), R!Hears(P, words),
         Line' = Line, Queued' = Queued, Hearing \subseteq Hearing',
         \A k \in Conn :
           /\ k \in Hearing' \ Hearing => Standing[k] \in Entering /\ Standing'[k] \in Entering
           /\ Standing'[k] = "in" => Standing[k] \in {"announced", "in"}
           /\ Standing'[k] \in Entering => Standing[k] \in Entering
           /\ Standing[k] = "left" => Standing'[k] = "left"
  PROVE  Order'
<1>1. /\ Line \in Seq(Pdu) /\ Log \in [Conn -> Seq(Pdu)] /\ Hearing' \subseteq Conn
      /\ Queued \in [Conn -> Int]
  BY RoomTypes DEF Hearing
<1>2. \A s \in Conn : Fits(s, Line)'
  BY FitsStill DEF Order, Fits
<1>3. ASSUME NEW k \in Hearing', NEW s \in Conn
      PROVE  /\ InOrder(s, Log'[k])
             /\ k \in R!Inside' => Fits(s, Log[k] \o Line)'
             /\ Standing'[k] \in Entering => Silent(s, Log'[k])
  <2> k \in Conn /\ Log[k] \in Seq(Pdu)
    BY <1>1
  <2>1. CASE k \notin Hearing
    <3>1. Log'[k] = <<>>
      BY <2>1 DEF R!Hears, Log
    <3>2. Standing'[k] \in Entering
      BY <2>1
    <3>3. QED
      BY <3>1, <3>2 DEF InOrder, Silent, R!Inside, Entering
  <2>2. CASE k \in Hearing
    <3> DEFINE x == IF k \in P THEN words ELSE <<>>
    <3>1. x \in Seq(Pdu) /\ Silent(s, x)
      BY DEF Silent
    <3>2. Log'[k] = Log[k] \o x
      <4>1. Log'[k] = IF k \in P THEN Log[k] \o words ELSE Log[k]
        BY <2>2 DEF R!Hears
      <4>2. Log[k] \o <<>> = Log[k]
        BY ConcatEmptySeq
      <4>3. QED
        BY <4>1, <4>2
    <3> HIDE DEF x
    <3>3. InOrder(s, Log'[k])
      <4>1. Orderly(s, Log[k], FALSE, 0)
        BY <2>2 DEF Order, Orderly
      <4>2. QED
        BY <3>1, <3>2, <4>1, SilentAfter DEF Orderly
    <3>4. ASSUME Standing[k] \in Entering PROVE Silent(s, Log'[k])
      <4>1. Silent(s, Log[k])
        BY <2>2, <3>4 DEF Order
      <4>2. QED
        BY <3>1, <3>2, <4>1, SilentBoth
    <3>5. ASSUME k \in R!Inside'
          PROVE  Orderly(s, Log'[k] \o Line, Standing[s] # "left", Queued[s])
      <4>1. CASE k \in R!Inside
        <5>1. Orderly(s, Log[k] \o Line, Standing[s] # "left", Queued[s])
          BY <2>2, <4>1 DEF Order, Fits
        <5>2. QED
          BY <1>1, <3>1, <3>2, <5>1, SilentBetween
      <4>2. CASE k \notin R!Inside
        <5>1. Standing[k] \in Entering
          BY <3>5, <4>2 DEF R!Inside, Entering
        <5>2. Silent(s, Log'[k]) /\ Log'[k] \in Seq(Pdu)
          BY <3>1, <3>2, <3>4, <5>1, ConcatProperties
        <5>3. Orderly(s, Line, Standing[s] # "left", Queued[s])
          BY DEF Order, Fits
        <5>4. QED
          BY <1>1, <5>2, <5>3, SilentBefore
      <4>3. QED
        BY <4>1, <4>2
    <3>6. QED
      BY <3>3, <3>4, <3>5 DEF Fits, Orderly
  <2>3. QED
    BY <2>1, <2>2
<1>4. QED
  BY <1>2, <1>3 DEF Order

LEMMA OrderGrows ==
  ASSUME RoomInv, Order, NEW p \in Conn, NEW it \in Pdu, NEW n,
         Said(it, p), \A s \in Conn : Said(it, s) => s = p,
         it.nr = Queued[p] + 1, Standing[p] # "left",
         Line' = Append(Line, it), Log' = Log, Hearing' = Hearing,
         Queued' = [Queued EXCEPT ![p] = n],
         \/ Standing' = Standing /\ n = Queued[p] + 1
         \/ Standing' = [Standing EXCEPT ![p] = "left"]
  PROVE  Order'
<1>1. /\ Line \in Seq(Pdu) /\ Log \in [Conn -> Seq(Pdu)] /\ Hearing \subseteq Conn
      /\ Queued \in [Conn -> Int] /\ <<it>> \in Seq(Pdu)
  BY RoomTypes
<1>2. Line' = Line \o <<it>>
  BY <1>1, AppendIsConcat
<1>3. /\ \A s \in Conn : s # p => Queued'[s] = Queued[s] /\ Standing'[s] = Standing[s]
      /\ Queued'[p] = n /\ (Standing'[p] # "left" => n = Queued[p] + 1)
  BY <1>1 DEF Standing
<1>4. ASSUME NEW s \in Conn, NEW w \in Seq(Pdu), Fits(s, w)
      PROVE  Orderly(s, w \o <<it>>, Standing'[s] # "left", Queued'[s])
  <2>1. CASE s = p
    <3>1. Orderly(p, w, TRUE, Queued[p]) /\ Queued[p] \in Int
      BY <1>1, <1>4, <2>1 DEF Fits, Orderly
    <3>2. Orderly(p, w \o <<it>>, TRUE, Queued[p] + 1)
      BY <3>1, SayNext
    <3>3. QED
      BY <1>3, <2>1, <3>2 DEF Orderly
  <2>2. CASE s # p
    <3>1. Silent(s, <<it>>)
      BY <2>2 DEF Silent
    <3>2. Orderly(s, w, Standing'[s] # "left", Queued'[s])
      BY <1>3, <1>4, <2>2 DEF Fits
    <3>3. QED
      BY <1>1, <3>1, <3>2, SilentAfter
  <2>3. QED
    BY <2>1, <2>2
<1>5. \A s \in Conn : Fits(s, Line)'
  BY <1>1, <1>2, <1>4 DEF Order, Fits
<1>6. ASSUME NEW k \in Hearing, NEW s \in Conn, k \in R!Inside'
      PROVE  Fits(s, Log[k] \o Line)'
  <2>1. k \in R!Inside /\ Log[k] \in Seq(Pdu)
    BY <1>1, <1>3, <1>6 DEF R!Inside, Standing
  <2>2. Fits(s, Log[k] \o Line) /\ Log[k] \o Line \in Seq(Pdu)
    BY <1>1, <2>1, ConcatProperties DEF Order
  <2>3. (Log[k] \o Line) \o <<it>> = Log[k] \o (Line \o <<it>>)
    BY <1>1, <2>1, Associates
  <2>4. QED
    BY <1>2, <1>4, <2>2, <2>3 DEF Fits
<1>7. \A k \in Conn : Standing'[k] \in Entering => Standing[k] \in Entering
  BY <1>3 DEF Entering, Standing
<1>8. QED
  BY <1>1, <1>5, <1>6, <1>7 DEF Order

LEMMA OrderHears ==
  ASSUME RoomInv, Order, Line # <<>>, R!Hears(R!Inside, <<Head(Line)>>),
         Line' = Tail(Line), Standing' = Standing, Hearing' = Hearing, Queued' = Queued
  PROVE  Order'
<1>1. Line \in Seq(Pdu) /\ Log \in [Conn -> Seq(Pdu)] /\ Hearing \subseteq Conn
  BY RoomTypes
<1> DEFINE h == <<Head(Line)>>
<1>2. /\ h \in Seq(Pdu) /\ Tail(Line) \in Seq(Pdu) /\ Line = h \o Tail(Line)
  <2>1. Head(Line) \in Pdu /\ Tail(Line) \in Seq(Pdu)
    BY <1>1, HeadTailProperties
  <2>2. QED
    BY <1>1, <2>1, HeadTailProperties, ConcatProperties, SeqEqual
<1>3. Log' = [k \in Conn |-> IF k \in R!Inside \cap Hearing THEN Log[k] \o h ELSE Log[k]]
  BY DEF R!Hears
<1> HIDE DEF h
<1>4. \A s \in Conn : Fits(s, Line)'
  BY <1>1, RestOrderly DEF Order, Fits
<1>5. ASSUME NEW k \in Hearing, NEW s \in Conn
      PROVE  /\ InOrder(s, Log'[k])
             /\ k \in R!Inside => Fits(s, Log[k] \o Line)'
             /\ Standing[k] \in Entering => Silent(s, Log'[k])
  <2>1. CASE k \in R!Inside
    <3>1. Log[k] \in Seq(Pdu) /\ Log'[k] = Log[k] \o h /\ Log'[k] \in Seq(Pdu)
      BY <1>1, <1>2, <1>3, <2>1, ConcatProperties
    <3>2. Log'[k] \o Tail(Line) = Log[k] \o Line
      <4>1. (Log[k] \o h) \o Tail(Line) = Log[k] \o (h \o Tail(Line))
        BY <1>2, <3>1, Associates
      <4>2. QED
        BY <1>2, <3>1, <4>1, Zenon
    <3>3. Fits(s, Log[k] \o Line)
      BY <2>1 DEF Order
    <3>4. InOrder(s, Log'[k])
      BY <1>2, <3>1, <3>2, <3>3, PrefixInOrder DEF Fits, Orderly
    <3>5. Standing[k] \notin Entering
      BY <2>1 DEF R!Inside, Entering
    <3>6. QED
      BY <3>2, <3>3, <3>4, <3>5 DEF Fits
  <2>2. CASE k \notin R!Inside
    BY <1>1, <1>3, <2>2 DEF Order
  <2>3. QED
    BY <2>1, <2>2
<1>6. R!Inside' = R!Inside
  BY DEF R!Inside
<1>7. QED
  BY <1>4, <1>5, <1>6 DEF Order

LEMMA OrderStep == RoomInv /\ RoomInv' /\ Order /\ [R!Next]_roomVars => Order'
<1> SUFFICES ASSUME RoomInv, RoomInv', Order, R!Next \/ UNCHANGED roomVars PROVE Order'
  OBVIOUS
<1>1. Line \in Seq(Pdu) /\ Log \in [Conn -> Seq(Pdu)] /\ roster \in [Conn -> SUBSET Conn]
  BY RoomTypes
<1> DEFINE Quiet == <<>>
<1>2. Quiet \in Seq(Pdu) /\ \A s \in Conn : Silent(s, Quiet)
  BY DEF Silent
<1>3. ASSUME Log' = Log PROVE R!Hears({}, Quiet)
  BY <1>3 DEF R!Hears, Log
<1> HIDE DEF Quiet
<1>4. CASE UNCHANGED roomVars
  BY <1>2, <1>3, <1>4, OrderSilent DEF roomVars
<1>5. CASE R!Hear
  BY <1>5, OrderHears DEF R!Hear
<1>6. ASSUME NEW p \in Conn,
             R!Arrive(p) \/ R!Enter(p) \/ R!List(p) \/ R!Leave(p) \/ R!Go(p)
      PROVE  Order'
  <2>1. /\ Log' = Log /\ Line' = Line /\ Queued' = Queued
        /\ Hearing \subseteq Hearing'
    BY <1>6 DEF R!Arrive, R!Enter, R!List, R!Leave, R!Go
  <2>2. ASSUME NEW k \in Conn
        PROVE  /\ k \in Hearing' \ Hearing =>
                    Standing[k] \in Entering /\ Standing'[k] \in Entering
               /\ Standing'[k] = "in" => Standing[k] \in {"announced", "in"}
               /\ Standing'[k] \in Entering => Standing[k] \in Entering
               /\ Standing[k] = "left" => Standing'[k] = "left"
    <3>1. CASE k = p
      BY <1>6, <3>1 DEF R!Arrive, R!Enter, R!List, R!Leave, R!Go, R!Becomes, R!Is,
                        Entering, Standing
    <3>2. CASE k # p
      BY <1>6, <3>2 DEF R!Arrive, R!Enter, R!List, R!Leave, R!Go, R!Becomes, R!Is,
                        Entering, Standing
    <3>3. QED
      BY <3>1, <3>2
  <2>3. QED
    BY <1>2, <1>3, <2>1, <2>2, OrderSilent
<1>7. ASSUME NEW p \in Conn, NEW P, NEW words \in Seq(Pdu),
             \A s \in Conn : Silent(s, words), R!Hears(P, words),
             Line' = Line, Queued' = Queued, Hearing' = Hearing,
             \/ Standing' = Standing
             \/ R!Becomes(p, {"outside", "announced"}, "announced")
             \/ R!Becomes(p, {"outside", "announced"}, "left")
      PROVE  Order'
  <2>1. ASSUME NEW k \in Conn
        PROVE  /\ Standing'[k] = "in" => Standing[k] \in {"announced", "in"}
               /\ Standing'[k] \in Entering => Standing[k] \in Entering
               /\ Standing[k] = "left" => Standing'[k] = "left"
    BY <1>7 DEF R!Becomes, R!Is, Entering, Standing
  <2>2. QED
    BY <1>7, <2>1, OrderSilent
<1>8. ASSUME NEW p \in Conn,
             R!Announce(p) \/ R!Welcome(p) \/ R!Warn(p) \/ R!Refuse(p)
      PROVE  Order'
  <2>1. CASE R!Announce(p)
    <3> DEFINE words == <<[op |-> "PJOIN", who |-> p]>>
    <3>1. words \in Seq(Pdu) /\ \A s \in Conn : Silent(s, words)
      BY DEF Pdu, Silent, Said
    <3>2. QED
      BY <2>1, <3>1, <1>7 DEF R!Announce
  <2>2. CASE R!Welcome(p)
    <3> DEFINE words == <<[op |-> "PARTICIPANTS", roster |-> roster[p]]>>
    <3>1. words \in Seq(Pdu) /\ \A s \in Conn : Silent(s, words)
      BY <1>1 DEF Pdu, Silent, Said
    <3>2. QED
      BY <2>2, <3>1, <1>7 DEF R!Welcome
  <2>3. CASE R!Warn(p)
    <3> DEFINE words == <<[op |-> "QUIT"]>>
    <3>1. words \in Seq(Pdu) /\ \A s \in Conn : Silent(s, words)
      BY DEF Pdu, Silent, Said
    <3>2. QED
      BY <2>3, <3>1, <1>7 DEF R!Warn
  <2>4. CASE R!Refuse(p)
    <3> DEFINE words == <<[op |-> "TAKEN"], [op |-> "QUIT"]>>
    <3>1. words \in Seq(Pdu) /\ \A s \in Conn : Silent(s, words)
      BY DEF Pdu, Silent, Said
    <3>2. QED
      BY <2>4, <3>1, <1>7 DEF R!Refuse
  <2>5. QED
    BY <1>8, <2>1, <2>2, <2>3, <2>4
<1>9. ASSUME NEW p \in Conn, R!Say(p) \/ R!Bye(p)
      PROVE  Order'
  <2> DEFINE it(op) == [op |-> op, who |-> p, nr |-> Queued[p] + 1]
  <2>1. ASSUME NEW op \in {"MESS", "PLEAVE"}
        PROVE  /\ it(op) \in Pdu /\ Said(it(op), p) /\ it(op).nr = Queued[p] + 1
               /\ \A s \in Conn : Said(it(op), s) => s = p
    <3>1. Queued[p] + 1 \in Nat
      BY RoomTypes
    <3>2. QED
      BY <3>1 DEF Pdu, Item, Said
  <2>2. CASE R!Say(p)
    <3>1. /\ Line' = Append(Line, it("MESS")) /\ Log' = Log /\ Hearing' = Hearing
          /\ Queued' = [Queued EXCEPT ![p] = Queued[p] + 1] /\ Standing' = Standing
          /\ Standing[p] # "left"
      BY <2>2 DEF R!Say, R!Puts, R!Is
    <3> HIDE DEF it
    <3>2. QED
      BY <2>1, <3>1, OrderGrows
  <2>3. CASE R!Bye(p)
    <3>1. /\ Line' = Append(Line, it("PLEAVE")) /\ Log' = Log /\ Hearing' = Hearing
          /\ Queued' = Queued /\ Standing' = [Standing EXCEPT ![p] = "left"]
          /\ Standing[p] # "left"
      BY <2>3 DEF R!Bye, R!Puts, R!Becomes, R!Is
    <3>2. Queued' = [Queued EXCEPT ![p] = Queued[p]]
      BY <3>1, RoomTypes
    <3> HIDE DEF it
    <3>3. QED
      BY <2>1, <3>1, <3>2, OrderGrows
  <2>4. QED
    BY <1>9, <2>2, <2>3
<1>10. QED
  BY <1>4, <1>5, <1>6, <1>8, <1>9 DEF R!Next

LEMMA OrderInit == Init => Order
<1> SUFFICES ASSUME Init PROVE Order
  OBVIOUS
<1>1. Hearing = {}
  BY DEF Init, Hearing
<1>2. Line = <<>>
  BY DEF Init, Line
<1>3. QED
  BY <1>1, <1>2 DEF Order, Fits, Orderly, InOrder, Closes

(* What any connection hears of any session comes in the session's order,  *)
(* without a gap or a repetition: proved of the room, and of the server    *)
(* because it is one.                                                      *)
THEOREM SendersInOrder == Spec => []SenderFifo
<1>1. Order => SenderFifo
  BY DEF Order, SenderFifo, Hearing, Log
<1>2. QED
  BY RoomInvInit, RoomInvStep, RoomStep, OrderInit, OrderStep, <1>1, PTL DEF Spec
=============================================================================
