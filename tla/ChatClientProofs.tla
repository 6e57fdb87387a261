-------------------------- MODULE ChatClientProofs --------------------------
(***************************************************************************)
(* What the client shows its user is in order, for every buffer, every     *)
(* number of PDUs and every way the stream is cut into segments; and so is *)
(* what it sends.                                                          *)
(***************************************************************************)
EXTENDS ChatClient, SequenceTheorems, TLAPS

(* What is counted, and the pieces behind those that recv() took last.     *)
Counts ==
  /\ wrote \in Nat /\ arrived \in Nat /\ taken \in Nat /\ buf \in Nat
  /\ arrived <= 2 * wrote /\ taken <= arrived
  /\ buf <= taken /\ buf <= MAX_BUFF_SIZE
  /\ main # "case" => buf = 0
  /\ shown \in Seq(Nat)

(* The last PDU shown lies before the pieces in the buffer; all PDUs that  *)
(* do have been shown, as long as none was refused.                        *)
Behind == shown # <<>> => 2 * shown[Len(shown)] <= taken - buf

InStep == conn \in {"none", "open"} => taken - buf = 2 * Len(shown)

(* A connection that has been closed never opens again.                    *)
OpensOnce == main = "start" => conn = "none"

ReadInv == Counts /\ Behind /\ InStep /\ OpensOnce

LEMMA ReadInit == Init => ReadInv
<1> SUFFICES ASSUME Init PROVE ReadInv
  OBVIOUS
<1>1. MAX_BUFF_SIZE \in Nat
  BY ClientAssumption
<1>2. shown = <<>> /\ Len(shown) = 0 /\ shown \in Seq(Nat)
  BY DEF Init
<1>3. QED
  BY <1>1, <1>2 DEF Init, ReadInv, Counts, Behind, InStep, OpensOnce

(* Steps of the start, the writer, the user and the server.                *)
LEMMA Elsewhere ==
  ASSUME ReadInv,
         UNCHANGED <<wrote, arrived, taken, buf, shown>>,
         conn' = conn \/ conn' \notin {"none", "open"} \/ (conn = "none" /\ conn' = "open"),
         main # "case", main' # "case", main' = "start" => conn' = "none"
  PROVE  ReadInv'
BY DEF ReadInv, Counts, Behind, InStep, OpensOnce

LEMMA Untouched ==
  ASSUME ReadInv, UNCHANGED <<wrote, arrived, taken, buf, shown, conn, main>>
  PROVE  ReadInv'
BY DEF ReadInv, Counts, Behind, InStep, OpensOnce

(* Whole PDUs: which one the buffer holds.                                 *)
LEMMA HalfOf ==
  ASSUME NEW t \in Nat, t >= 2, t % 2 = 0
  PROVE  \E w \in Nat : t = 2 * w /\ 1 + ((t - 2) \div 2) = w
<1>1. PICK w \in Nat : t = 2 * w
  <2>1. t \div 2 \in Nat /\ t = 2 * (t \div 2) + (t % 2)
    OBVIOUS
  <2>2. QED
    BY <2>1
<1>2. t - 2 = 2 * (w - 1) /\ w - 1 \in Nat
  BY <1>1
<1>3. (t - 2) \div 2 = w - 1
  BY <1>2
<1>4. QED
  BY <1>1, <1>3

(* A case function that finds its PDU valid.                               *)
LEMMA ShowStep ==
  ASSUME ReadInv, Case, Shows, main' \notin {"case", "start"},
         conn' = conn \/ conn' \notin {"none", "open"}
  PROVE  /\ ReadInv'
         /\ \E k \in 1..wrote :
              /\ shown' = Append(shown, k)
              /\ shown # <<>> => k > shown[Len(shown)]
              /\ conn = "open" => k = Len(shown) + 1
<1>1. /\ buf = 2 /\ taken % 2 = 0 /\ taken \in Nat /\ taken >= 2 /\ arrived \in Nat /\ wrote \in Nat
      /\ shown \in Seq(Nat) /\ taken <= arrived /\ arrived <= 2 * wrote
  BY DEF ReadInv, Counts, Shows, Valid
<1>2. PICK w \in Nat : taken = 2 * w /\ 1 + ((taken - 2) \div 2) = w
  BY <1>1, HalfOf
<1>3. FirstPdu = w /\ w \in 1..wrote
  BY <1>1, <1>2 DEF FirstPdu
<1>4. shown' = Append(shown, w)
  BY <1>3 DEF Shows
<1>5. /\ shown' \in Seq(Nat) /\ Len(shown') = Len(shown) + 1 /\ shown'[Len(shown')] = w
      /\ Len(shown) \in Nat
  BY <1>1, <1>4
<1>6. shown # <<>> => w > shown[Len(shown)]
  <2>1. SUFFICES ASSUME shown # <<>> PROVE w > shown[Len(shown)]
    OBVIOUS
  <2>2. shown[Len(shown)] \in Nat
    <3>1. Len(shown) \in 1..Len(shown)
      BY <1>1, <2>1, EmptySeq
    <3>2. QED
      BY <1>1, <3>1
  <2>3. 2 * shown[Len(shown)] <= taken - buf
    BY <2>1 DEF ReadInv, Behind
  <2>4. QED
    BY <1>1, <1>2, <2>2, <2>3
<1>7. conn \in {"none", "open"} => w = Len(shown) + 1
  BY <1>1, <1>2, <1>5 DEF ReadInv, InStep
<1>8. UNCHANGED <<wrote, arrived, taken>> /\ buf' = 0
  BY DEF Case, server
<1>9. Counts'
  BY <1>1, <1>5, <1>8, ClientAssumption DEF ReadInv, Counts
<1>10. Behind'
  BY <1>1, <1>2, <1>5, <1>8 DEF Behind
<1>11. InStep'
  <2>1. conn' \in {"none", "open"} => conn' = conn
    OBVIOUS
  <2>2. QED
    BY <1>1, <1>2, <1>5, <1>7, <1>8, <2>1 DEF InStep
<1>12. QED
  BY <1>3, <1>4, <1>6, <1>7, <1>9, <1>10, <1>11 DEF ReadInv, OpensOnce

(* One that does not, and gives the connection up.                         *)
LEMMA RefuseStep ==
  ASSUME ReadInv, Case, UNCHANGED shown, conn' \notin {"none", "open"}, main' # "start"
  PROVE  ReadInv'
<1>1. UNCHANGED <<wrote, arrived, taken>> /\ buf' = 0
  BY DEF Case, server
<1>2. Counts'
  BY <1>1, ClientAssumption DEF ReadInv, Counts
<1>3. Behind'
  <2>1. SUFFICES ASSUME shown # <<>> PROVE 2 * shown[Len(shown)] <= taken
    <3>1. taken' - buf' = taken
      BY <1>1 DEF ReadInv, Counts
    <3>2. QED
      BY <1>1, <3>1 DEF Behind
  <2>2. shown[Len(shown)] \in Nat
    <3>1. Len(shown) \in 1..Len(shown)
      BY <2>1, EmptySeq DEF ReadInv, Counts
    <3>2. QED
      BY <3>1 DEF ReadInv, Counts
  <2>3. 2 * shown[Len(shown)] <= taken - buf /\ buf \in Nat /\ taken \in Nat
    BY <2>1 DEF ReadInv, Behind, Counts
  <2>4. QED
    BY <2>2, <2>3
<1>4. QED
  BY <1>1, <1>2, <1>3 DEF ReadInv, InStep, OpensOnce

ShowsNext ==
  shown' # shown =>
    \E k \in 1..wrote :
      /\ shown' = Append(shown, k)
      /\ shown # <<>> => k > shown[Len(shown)]
      /\ conn = "open" => k = Len(shown) + 1

LEMMA CaseStep ==
  ASSUME ReadInv,
         \/ casePARTICIPANTS \/ caseMESS \/ casePJOIN \/ casePLEAVE \/ caseQUIT \/ caseDefault
  PROVE  ReadInv' /\ ShowsNext
<1>1. CASE ExitsOnInvalid
  <2>1. Case /\ main' = "online"
    BY <1>1 DEF ExitsOnInvalid
  <2>2. CASE Shows /\ UNCHANGED conn
    BY <2>1, <2>2, ShowStep DEF ShowsNext
  <2>3. CASE conn' = "closed" /\ UNCHANGED shown
    BY <2>1, <2>3, RefuseStep DEF ShowsNext
  <2>4. QED
    BY <1>1, <2>2, <2>3 DEF ExitsOnInvalid
<1>2. CASE ShutsOnInvalid
  <2>1. Case /\ main' = "online"
    BY <1>2 DEF ShutsOnInvalid
  <2>2. CASE Shows /\ UNCHANGED conn
    BY <2>1, <2>2, ShowStep DEF ShowsNext
  <2>3. CASE conn' = "shut" /\ UNCHANGED shown
    BY <2>1, <2>3, RefuseStep DEF ShowsNext
  <2>4. QED
    BY <1>2, <2>2, <2>3 DEF ShutsOnInvalid
<1>3. CASE caseQUIT
  <2>1. Case /\ conn' = "closed" /\ main' # "start"
    BY <1>3 DEF caseQUIT, Case
  <2>2. CASE Shows /\ main' = "pthread_join"
    BY <2>1, <2>2, ShowStep DEF ShowsNext
  <2>3. CASE UNCHANGED shown
    BY <2>1, <2>3, RefuseStep DEF ShowsNext
  <2>4. QED
    BY <1>3, <2>2, <2>3 DEF caseQUIT
<1>4. CASE caseDefault
  BY <1>4, RefuseStep DEF caseDefault, Case, ShowsNext
<1>5. QED
  BY <1>1, <1>2, <1>3, <1>4 DEF casePARTICIPANTS, caseMESS, casePJOIN, casePLEAVE

LEMMA RecvStep ==
  ASSUME ReadInv, Recv
  PROVE  ReadInv'
<1>1. MAX_BUFF_SIZE \in Nat
  BY ClientAssumption
<1>2. /\ taken \in Nat /\ arrived \in Nat /\ taken <= arrived /\ buf = 0
      /\ buf' = Fits(arrived - taken) /\ taken' = taken + buf' /\ main' = "case"
      /\ UNCHANGED <<conn, wrote, arrived, shown>>
  BY DEF Recv, ReadInv, Counts, Pending, server
<1>3. buf' \in Nat /\ buf' <= MAX_BUFF_SIZE /\ buf' <= arrived - taken
  BY <1>1, <1>2 DEF Fits
<1>4. taken' \in Nat /\ taken' <= arrived' /\ buf' <= taken' /\ taken' - buf' = taken - buf
  BY <1>2, <1>3
<1>5. Counts'
  BY <1>2, <1>3, <1>4 DEF ReadInv, Counts
<1>6. Behind' /\ InStep' /\ OpensOnce'
  BY <1>2, <1>4 DEF ReadInv, Behind, InStep, OpensOnce
<1>7. QED
  BY <1>5, <1>6 DEF ReadInv

LEMMA NetworkStep ==
  ASSUME ReadInv, Network
  PROVE  ReadInv' /\ UNCHANGED shown
<1>1. UNCHANGED <<main, conn, taken, buf, shown>>
  BY DEF Network, ServerWrites, Arrives, ServerCloses, reading
<1>2. /\ wrote' \in Nat /\ arrived' \in Nat
      /\ arrived' <= 2 * wrote' /\ arrived <= arrived'
  BY DEF Network, ServerWrites, Arrives, ServerCloses, ReadInv, Counts
<1>3. taken <= arrived' /\ taken \in Nat /\ arrived \in Nat
  BY <1>2 DEF ReadInv, Counts
<1>4. QED
  BY <1>1, <1>2, <1>3 DEF ReadInv, Counts, Behind, InStep, OpensOnce

LEMMA ReadStep == ReadInv /\ [Next]_vars => ReadInv' /\ ShowsNext
<1> SUFFICES ASSUME ReadInv, [Next]_vars PROVE ReadInv' /\ ShowsNext
  OBVIOUS
<1>1. CASE StartUp
  <2>1. /\ UNCHANGED <<wrote, arrived, taken, buf, shown>>
        /\ main # "case" /\ main' # "case"
        /\ conn' = conn \/ conn' = "open"
    BY <1>1 DEF StartUp, setupClientConnection, sendGETLIST, readSLIST, chooseServerConnection,
                ScanfFails, sendJOIN, server, reading
  <2>2. (conn' = conn \/ conn = "none") /\ (main' = "start" => conn' = "none")
    BY <1>1 DEF StartUp, setupClientConnection, sendGETLIST, readSLIST, chooseServerConnection,
                ScanfFails, sendJOIN, server, reading, ReadInv, OpensOnce
  <2>3. QED
    BY <2>1, <2>2, Elsewhere DEF ShowsNext
<1>2. CASE Recv
  BY <1>2, RecvStep DEF Recv, ShowsNext
<1>3. CASE RecvEOF
  <2>1. /\ UNCHANGED <<wrote, arrived, taken, buf, shown>>
        /\ main = "online" /\ main' = "pthread_join" /\ conn' = "closed"
    BY <1>3 DEF RecvEOF, server, reading
  <2>2. QED
    BY <2>1, Elsewhere DEF ShowsNext
<1>4. CASE \/ casePARTICIPANTS \/ caseMESS \/ casePJOIN \/ casePLEAVE \/ caseQUIT \/ caseDefault
  BY <1>4, CaseStep
<1>5. CASE pthread_join
  BY <1>5, Untouched DEF pthread_join, server, reading, ShowsNext
<1>6. CASE Writing \/ fgets
  <2>1. UNCHANGED <<wrote, arrived, taken, buf, shown, conn, main>>
    BY <1>6 DEF Writing, clientWriteEnd, clientWriteEnd_testClient, sendMESS, sendQUIT, Sends,
                fgets, server, reading
  <2>2. QED
    BY <2>1, Untouched DEF ShowsNext
<1>7. CASE Network
  BY <1>7, NetworkStep DEF ShowsNext
<1>8. CASE UNCHANGED vars
  BY <1>8, Untouched DEF vars, server, reading, ShowsNext
<1>9. QED
  BY <1>1, <1>2, <1>3, <1>4, <1>5, <1>6, <1>7, <1>8 DEF Next, whileOnline, Ended

(***************************************************************************)
(* The rest of the types.                                                  *)
(***************************************************************************)
Messages == [to : {"none", "ns", "cs"}, op : Ops]

Threads ==
  /\ main \in {"start", "getlist", "slist", "choose", "spin", "join", "online",
               "case", "pthread_join"}
  /\ writer \in {"none", "loop", "fgets", "MESS", "QUIT", "returned"}
  /\ status \in {"running", "done", "failed", "killed"}

Session ==
  /\ robot \in BOOLEAN /\ serverFlag \in BOOLEAN
  /\ nrOfServers \in Nat \cup {Unread}
  /\ peer \in {"none", "ns", "cs"} /\ conn \in {"none", "open", "shut", "closed"}
  /\ sent \in Seq(Messages)
  /\ lines \in Nat
  /\ fin \in {"open", "closed", "reset"}

ClientTypes == Threads /\ Session

LEMMA SendsTypes ==
  ASSUME ClientTypes, NEW op \in {"MESS", "QUIT"}, NEW next \in {"loop", "returned"},
         Sends(op, next)
  PROVE  ClientTypes'
<1>1. To(peer, op) \in Messages
  BY DEF To, Messages, Ops, ClientTypes, Session
<1>2. sent' \in Seq(Messages)
  BY <1>1 DEF Sends, ClientTypes, Session
<1>3. writer' \in {writer, next} /\ status' \in {status, "failed", "killed"}
  BY DEF Sends
<1>4. QED
  BY <1>2, <1>3 DEF Sends, start, server, ClientTypes, Threads, Session

LEMMA StartTypes ==
  ASSUME ClientTypes, StartUp
  PROVE  ClientTypes'
<1>1. CASE setupClientConnection
  BY <1>1 DEF setupClientConnection, server, ClientTypes, Threads, Session
<1>2. CASE sendGETLIST
  <2>1. To(peer, "GETLIST") \in Messages
    BY DEF To, Messages, Ops, ClientTypes, Session
  <2>2. QED
    BY <1>2, <2>1 DEF sendGETLIST, start, server, ClientTypes, Threads, Session
<1>3. CASE readSLIST
  <2>1. nrOfServers' \in Nat \cup {Unread}
    BY <1>3, ClientAssumption DEF readSLIST
  <2>2. QED
    BY <1>3, <2>1 DEF readSLIST, server, ClientTypes, Threads, Session
<1>4. CASE chooseServerConnection
  <2>1. peer' \in {"cs", "none"} /\ status' \in {status, "running", "killed"}
    BY <1>4 DEF chooseServerConnection, connectToSpecificServer
  <2>2. QED
    BY <1>4, <2>1 DEF chooseServerConnection, server, ClientTypes, Threads, Session
<1>5. CASE ScanfFails
  BY <1>5 DEF ScanfFails, start, server, ClientTypes, Threads, Session
<1>6. CASE sendJOIN
  <2>1. To(peer, "JOIN") \in Messages
    BY DEF To, Messages, Ops, ClientTypes, Session
  <2>2. sent' \in Seq(Messages)
    BY <1>6, <2>1 DEF sendJOIN, ClientTypes, Session
  <2>3. QED
    BY <1>6, <2>2 DEF sendJOIN, start, server, ClientTypes, Threads, Session
<1>7. QED
  BY <1>1, <1>2, <1>3, <1>4, <1>5, <1>6 DEF StartUp

LEMMA TypesStep == ClientTypes /\ [Next]_vars => ClientTypes'
<1> SUFFICES ASSUME ClientTypes, [Next]_vars PROVE ClientTypes'
  OBVIOUS
<1>1. CASE StartUp
  BY <1>1, StartTypes
<1>2. CASE whileOnline
  BY <1>2 DEF whileOnline, Recv, RecvEOF, casePARTICIPANTS, caseMESS, casePJOIN, casePLEAVE,
              caseQUIT, caseDefault, ExitsOnInvalid, ShutsOnInvalid, Case, pthread_join,
              start, server, ClientTypes, Threads, Session
<1>3. CASE clientWriteEnd \/ clientWriteEnd_testClient \/ fgets
  BY <1>3 DEF clientWriteEnd, clientWriteEnd_testClient, fgets, start, server,
              ClientTypes, Threads, Session
<1>4. CASE sendMESS \/ sendQUIT
  BY <1>4, SendsTypes DEF sendMESS, sendQUIT
<1>5. CASE Network
  BY <1>5 DEF Network, ServerWrites, Arrives, ServerCloses, start, ClientTypes, Threads, Session
<1>6. CASE UNCHANGED vars
  BY <1>6 DEF vars, start, server, ClientTypes, Threads, Session
<1>7. QED
  BY <1>1, <1>2, <1>3, <1>4, <1>5, <1>6 DEF Next, Writing, Ended

(* chatclient.c: the values the variables range over, for every buffer and *)
(* every list of servers; recv() does not write behind the buffer.         *)
THEOREM ClientTyped == Spec => []TypeOK
<1>1. Init => ClientTypes
  BY EmptySeq DEF Init, ClientTypes, Threads, Session
<1>2. ReadInv /\ ClientTypes => TypeOK
  <2> SUFFICES ASSUME ReadInv, ClientTypes PROVE TypeOK
    OBVIOUS
  <2>1. arrived \in 0..(2 * wrote) /\ taken \in 0..arrived /\ buf \in 0..MAX_BUFF_SIZE
    BY ClientAssumption DEF ReadInv, Counts
  <2>2. QED
    BY <2>1 DEF ReadInv, Counts, ClientTypes, Threads, Session, Messages, TypeOK
<1>3. QED
  BY ReadInit, ReadStep, TypesStep, <1>1, <1>2, PTL DEF Spec

(* chatclient.c, whileOnline and the case functions: what is shown is in   *)
(* the order of the stream, and without a gap until a PDU is refused.      *)
THEOREM ShowsInOrder == Spec => ShownInOrder
<1>1. ReadInv /\ [Next]_vars =>
        [shown' # shown =>
           \E k \in 1..wrote :
             /\ shown' = Append(shown, k)
             /\ shown # <<>> => k > shown[Len(shown)]
             /\ conn = "open" => k = Len(shown) + 1]_vars
  BY ReadStep DEF ShowsNext
<1>2. QED
  BY ReadInit, ReadStep, <1>1, PTL DEF Spec, ShownInOrder

(***************************************************************************)
(* What is sent, and to whom.                                              *)
(***************************************************************************)
StartingUp == {"start", "getlist", "slist", "choose", "spin", "join"}

(* Where the socket leads when something is about to be sent.              *)
Connected ==
  /\ main \in StartingUp => writer = "none"
  /\ main = "getlist" => peer = "ns"
  /\ main = "join" => peer # "ns"
  /\ writer # "none" => peer = "cs"

(* What has been sent by then.                                             *)
Progress ==
  /\ writer = "none" => \A n \in DOMAIN sent : sent[n].op = "GETLIST"
  /\ writer # "none" /\ fin # "reset" => \E n \in DOMAIN sent : sent[n].op # "GETLIST"
  /\ writer # "returned" => \A n \in DOMAIN sent : sent[n].op # "QUIT"

SentInv == ClientTypes /\ Connected /\ Progress /\ SentInOrder

LEMMA NothingSent ==
  ASSUME SentInv, ClientTypes', Connected', sent' = sent,
         writer = "none" /\ writer' # "none" => fin' = "reset",
         writer # "none" => writer' # "none",
         writer = "returned" => writer' = "returned",
         fin = "reset" => fin' = "reset"
  PROVE  SentInv'
<1>1. SentInOrder'
  BY DEF SentInv, SentInOrder, OnlyGETLISTBefore
<1>2. Progress'
  BY DEF SentInv, Progress
<1>3. QED
  BY <1>1, <1>2 DEF SentInv

LEMMA OneSent ==
  ASSUME SentInv, ClientTypes', Connected', NEW op \in Ops, sent' = Append(sent, To(peer, op)),
         writer # "returned", writer # "none" => writer' # "none", fin' = fin,
         \/ op = "GETLIST" /\ peer = "ns" /\ writer = "none" /\ writer' = "none"
         \/ op = "JOIN" /\ peer = "cs" /\ writer = "none"
         \/ op = "MESS" /\ peer = "cs" /\ writer # "none" /\ fin # "reset"
         \/ op = "QUIT" /\ peer = "cs" /\ writer # "none" /\ fin # "reset"
              /\ writer' = "returned",
         op # "GETLIST" => writer' # "none"
  PROVE  SentInv'
<1>1. sent \in Seq(Messages) /\ To(peer, op) \in Messages
  BY DEF SentInv, ClientTypes, Session, To, Messages
<1>2. /\ Len(sent) \in Nat /\ DOMAIN sent = 1..Len(sent)
      /\ DOMAIN sent' = 1..(Len(sent) + 1) /\ Len(sent') = Len(sent) + 1
      /\ \A n \in DOMAIN sent : sent'[n] = sent[n]
      /\ sent'[Len(sent) + 1].op = op /\ sent'[Len(sent) + 1].to = peer
  BY <1>1 DEF To
<1>3. \A n \in DOMAIN sent : OnlyGETLISTBefore(n)' <=> OnlyGETLISTBefore(n)
  BY <1>2 DEF OnlyGETLISTBefore
<1>4. ASSUME NEW n \in DOMAIN sent', n = Len(sent) + 1
      PROVE  OnlyGETLISTBefore(n)' <=> \A m \in DOMAIN sent : sent[m].op = "GETLIST"
  BY <1>2, <1>4 DEF OnlyGETLISTBefore
<1>5. ASSUME NEW n \in DOMAIN sent'
      PROVE  /\ sent'[n].to = IF sent'[n].op = "GETLIST" THEN "ns" ELSE "cs"
             /\ sent'[n].op = "JOIN" <=> sent'[n].op # "GETLIST" /\ OnlyGETLISTBefore(n)'
             /\ sent'[n].op = "QUIT" => n = Len(sent')
  <2>1. CASE n \in DOMAIN sent
    BY <1>2, <1>3, <2>1 DEF SentInv, SentInOrder, Progress
  <2>2. CASE n = Len(sent) + 1
    <3>1. op = "JOIN" <=> op # "GETLIST" /\ \A m \in DOMAIN sent : sent[m].op = "GETLIST"
      BY DEF SentInv, Progress
    <3>2. QED
      BY <1>2, <1>4, <2>2, <3>1
  <2>3. QED
    BY <1>2, <2>1, <2>2
<1>6. SentInOrder'
  BY <1>5 DEF SentInOrder
<1>7. Progress'
  <2>1. writer' = "none" => \A n \in DOMAIN sent' : sent'[n].op = "GETLIST"
    BY <1>2 DEF SentInv, Progress
  <2>2. writer' # "none" => \E n \in DOMAIN sent' : sent'[n].op # "GETLIST"
    <3>1. op # "GETLIST" => Len(sent) + 1 \in DOMAIN sent' /\ sent'[Len(sent) + 1].op # "GETLIST"
      BY <1>2
    <3>2. QED
      BY <3>1
  <2>3. writer' # "returned" => \A n \in DOMAIN sent' : sent'[n].op # "QUIT"
    BY <1>2 DEF SentInv, Progress
  <2>4. QED
    BY <2>1, <2>2, <2>3 DEF Progress
<1>8. QED
  BY <1>6, <1>7 DEF SentInv

LEMMA ConnectedStep == SentInv /\ [Next]_vars => Connected'
<1> SUFFICES ASSUME SentInv, [Next]_vars PROVE Connected'
  OBVIOUS
<1> USE DEF Connected, StartingUp
<1>1. ClientTypes /\ Connected
  BY DEF SentInv
<1>2. CASE StartUp
  BY <1>1, <1>2 DEF ClientTypes, Threads, Session, StartUp, setupClientConnection, sendGETLIST,
                    readSLIST, chooseServerConnection, connectToSpecificServer, ScanfFails, sendJOIN,
                    start
<1>3. CASE whileOnline
  BY <1>1, <1>3 DEF ClientTypes, Threads, whileOnline, Recv, RecvEOF, casePARTICIPANTS, caseMESS,
                    casePJOIN, casePLEAVE, caseQUIT, caseDefault, ExitsOnInvalid, ShutsOnInvalid,
                    Case, pthread_join, start
<1>4. CASE Writing \/ fgets
  BY <1>1, <1>4 DEF ClientTypes, Threads, Writing, clientWriteEnd, clientWriteEnd_testClient,
                    sendMESS, sendQUIT, Sends, fgets, start
<1>5. CASE Network
  BY <1>1, <1>5 DEF Network, ServerWrites, Arrives, ServerCloses, start
<1>6. CASE UNCHANGED vars
  BY <1>1, <1>6 DEF vars, start
<1>7. QED
  BY <1>2, <1>3, <1>4, <1>5, <1>6 DEF Next, Ended

LEMMA SentStep == SentInv /\ [Next]_vars => SentInv'
<1> SUFFICES ASSUME SentInv, [Next]_vars PROVE SentInv'
  OBVIOUS
<1>1. ClientTypes' /\ Connected'
  BY TypesStep, ConnectedStep DEF SentInv
<1>2. ClientTypes /\ Connected
  BY DEF SentInv
<1>3. CASE setupClientConnection \/ readSLIST \/ chooseServerConnection \/ ScanfFails
  BY <1>1, <1>3, NothingSent DEF setupClientConnection, readSLIST, chooseServerConnection,
                                 ScanfFails, server
<1>4. CASE sendGETLIST
  BY <1>1, <1>2, <1>4, OneSent DEF sendGETLIST, Connected, StartingUp, server, Ops
<1>5. CASE sendJOIN
  <2>1. writer = "none" /\ peer \in {"none", "cs"} /\ fin' = fin
    BY <1>2, <1>5 DEF sendJOIN, Connected, StartingUp, ClientTypes, Session, server
  <2>2. CASE /\ peer # "none" /\ sent' = Append(sent, To(peer, "JOIN")) /\ writer' = "loop"
    BY <1>1, <2>1, <2>2, OneSent DEF Ops
  <2>3. CASE fin = "reset" /\ sent' = sent /\ writer' = "loop"
    BY <1>1, <2>1, <2>3, NothingSent
  <2>4. CASE UNCHANGED <<writer, sent>>
    BY <1>1, <2>1, <2>4, NothingSent
  <2>5. QED
    BY <1>5, <2>2, <2>3, <2>4 DEF sendJOIN
<1>6. CASE whileOnline
  <2>1. UNCHANGED <<writer, sent, fin>>
    BY <1>6 DEF whileOnline, Recv, RecvEOF, casePARTICIPANTS, caseMESS, casePJOIN, casePLEAVE,
                caseQUIT, caseDefault, ExitsOnInvalid, ShutsOnInvalid, Case, pthread_join, server
  <2>2. QED
    BY <1>1, <2>1, NothingSent
<1>7. CASE clientWriteEnd \/ clientWriteEnd_testClient \/ fgets
  BY <1>1, <1>7, NothingSent DEF clientWriteEnd, clientWriteEnd_testClient, fgets, server
<1>8. ASSUME NEW op \in {"MESS", "QUIT"}, NEW next \in {"loop", "returned"}, Sends(op, next),
             op = "QUIT" => next = "returned"
      PROVE  SentInv'
  <2>1. writer = op /\ fin' = fin /\ peer = "cs"
    BY <1>2, <1>8 DEF Sends, server, Connected
  <2>2. CASE UNCHANGED <<writer, sent>>
    BY <1>1, <2>1, <2>2, NothingSent
  <2>3. CASE fin # "reset" /\ sent' = Append(sent, To(peer, op)) /\ writer' = next
    BY <1>1, <1>8, <2>1, <2>3, OneSent DEF Ops
  <2>4. QED
    BY <1>8, <2>2, <2>3 DEF Sends
<1>9. CASE Network
  BY <1>1, <1>9, NothingSent DEF Network, ServerWrites, Arrives, ServerCloses
<1>10. CASE UNCHANGED vars
  BY <1>1, <1>10, NothingSent DEF vars, server
<1>11. QED
  BY <1>3, <1>4, <1>5, <1>6, <1>7, <1>8, <1>9, <1>10
     DEF Next, StartUp, Writing, sendMESS, sendQUIT, Ended

(* main, clientWriteEnd, sendQUIT: the name server gets the GETLIST only,  *)
(* the chat server the JOIN first and nothing behind a QUIT, whichever     *)
(* thread sends and whatever becomes of the connection.                    *)
THEOREM SendsInOrder == Spec => []SentInOrder
<1>1. Init => SentInv
  <2> SUFFICES ASSUME Init PROVE SentInv
    OBVIOUS
  <2>1. ClientTypes
    BY EmptySeq DEF Init, ClientTypes, Threads, Session
  <2>2. sent = <<>> /\ DOMAIN sent = {}
    BY DEF Init
  <2>3. QED
    BY <2>1, <2>2 DEF Init, SentInv, Connected, StartingUp, Progress, SentInOrder
<1>2. SentInv => SentInOrder
  BY DEF SentInv
<1>3. QED
  BY SentStep, <1>1, <1>2, PTL DEF Spec
=============================================================================
