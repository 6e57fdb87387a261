----------------------------- MODULE ChatClient ------------------------------
(***************************************************************************)
(* The chat client (chatclient.c), and the test client made from it        *)
(* (testClient.c), whose writer sends a fixed number of messages in place  *)
(* of what a user types.  One thread starts the program up and then runs   *)
(* whileOnline, which takes what one recv() returns for one PDU; the other *)
(* runs clientWriteEnd.                                                    *)
(*                                                                         *)
(* The k-th PDU of the server is the pieces 2k - 1 and 2k of the stream,   *)
(* so that segments may end inside a PDU and run over its end.  Which PDU  *)
(* it is matters only once it is read, and is chosen then.  The server's   *)
(* PDUs are valid, and the validators accept nothing but one whole PDU.    *)
(*                                                                         *)
(* send() does not block here.  On a connection that has been shut down it *)
(* raises SIGPIPE, and on one that was never made, since connect() has     *)
(* reported the error; on one the peer has reset it raises SIGPIPE or      *)
(* returns -1.                                                             *)
(*                                                                         *)
(* A definition named X_Something is a faulty X; no action uses one.       *)
(***************************************************************************)
EXTENDS Integers, Sequences

CONSTANTS
  MAX_BUFF_SIZE,  (* pieces that fit into the buffer: 65535 bytes          *)
  Beeps,          (* messages testClient sends: 5 in the code              *)
  MaxServers,     (* bound: chat servers in the name server's list         *)
  MaxPdus,        (* bound: PDUs the server sends                          *)
  MaxLines        (* bound: lines with text the user types                 *)

ASSUME ClientAssumption ==
  /\ MAX_BUFF_SIZE \in Nat /\ MAX_BUFF_SIZE >= 2
  /\ Beeps \in Nat /\ MaxServers \in Nat /\ MaxPdus \in Nat /\ MaxLines \in Nat

VARIABLES
  main,           (* where the first thread is                             *)
  writer,         (* where clientWriteEnd is                               *)
  status,         (* the process: running, or how it has ended             *)
  robot,          (* it is testClient                                      *)
  serverFlag,     (* started with "ns": the address is a name server's     *)
  nrOfServers,    (* in the list read, Unread when that has failed         *)
  peer,           (* who the socket is connected to                        *)
  conn,           (* the socket                                            *)
  sent,           (* all that was sent, and to whom                        *)
  lines,          (* lines of text typed, or messages testClient has sent  *)
  wrote,          (* PDUs the server has written                           *)
  arrived,        (* pieces of them that have arrived                      *)
  fin,            (* the server's end of the connection                    *)
  taken,          (* pieces taken by recv() so far                         *)
  buf,            (* byte_count: how many of them the last recv() took     *)
  shown           (* PDUs shown to the user                                *)

start == <<robot, serverFlag, nrOfServers, peer>>
server == <<wrote, arrived, fin>>
reading == <<taken, buf, shown>>
vars == <<main, writer, status, start, conn, sent, lines, server, reading>>

Unread == -1

To(who, op) == [to |-> who, op |-> op]

(***************************************************************************)
(* main(): connect, ask the name server for a chat server, join.           *)
(***************************************************************************)
setupClientConnection ==
  /\ main = "start"
  /\ \/ /\ peer' = IF serverFlag THEN "ns" ELSE "cs"
        /\ conn' = "open"
        /\ main' = IF serverFlag THEN "getlist" ELSE "join"
        /\ UNCHANGED status
     \/ status' = "done" /\ UNCHANGED <<main, peer, conn>>
  /\ UNCHANGED <<writer, robot, serverFlag, nrOfServers, sent, lines, server, reading>>

sendGETLIST ==
  /\ main = "getlist"
  /\ sent' = Append(sent, To(peer, "GETLIST"))
  /\ main' = "slist"
  /\ UNCHANGED <<writer, status, start, conn, lines, server, reading>>

(* One recv(); a list that has not arrived whole is not valid, and that it *)
(* is not goes unnoticed.                                                  *)
readSLIST ==
  /\ main = "slist"
  /\ nrOfServers' \in 0..MaxServers \cup {Unread}
  /\ main' = "choose"
  /\ UNCHANGED <<writer, status, robot, serverFlag, peer, conn, sent, lines, server, reading>>

connectToSpecificServer_KeepsOld == peer' \in {"cs", peer}

(* The descriptor is replaced first; that connect() fails goes unnoticed.  *)
connectToSpecificServer == peer' \in {"cs", "none"}

(* A number that does not stand in the list is asked for again, but for    *)
(* the first one behind it: the bytes there are no server's address.       *)
chooseServerConnection ==
  /\ main = "choose"
  /\ \/ /\ \E val \in 0..nrOfServers :
             \/ val < nrOfServers /\ connectToSpecificServer
             \/ val = nrOfServers /\ peer' = "none"
        /\ UNCHANGED status
     \/ nrOfServers = Unread /\ peer' = "none" /\ status' \in {"running", "killed"}
  /\ main' = "join"
  /\ UNCHANGED <<writer, robot, serverFlag, nrOfServers, conn, sent, lines, server, reading>>

(* What is not a number is never read away: scanf() fails again and again. *)
ScanfFails ==
  /\ main = "choose"
  /\ main' = "spin"
  /\ UNCHANGED <<writer, status, start, conn, sent, lines, server, reading>>

sendJOIN ==
  /\ main = "join"
  /\ \/ /\ peer # "none" /\ fin # "reset"
        /\ sent' = Append(sent, To(peer, "JOIN"))
        /\ main' = "online" /\ writer' = "loop"
        /\ UNCHANGED status
     \/ /\ peer # "none" /\ fin = "reset"
        /\ main' = "online" /\ writer' = "loop"
        /\ UNCHANGED <<sent, status>>
     \/ /\ peer = "none" \/ fin = "reset"
        /\ status' = "killed"
        /\ UNCHANGED <<main, writer, sent>>
  /\ UNCHANGED <<start, conn, lines, server, reading>>

(***************************************************************************)
(* whileOnline.  After a reset recv() returns -1 once, which only turns    *)
(* the loop.                                                               *)
(***************************************************************************)
Pending == arrived - taken

EndOfStream == conn = "shut" \/ fin = "reset" \/ (fin = "closed" /\ arrived = 2 * wrote)

Fits_Unbounded(n) == n

Fits(n) == IF n <= MAX_BUFF_SIZE THEN n ELSE MAX_BUFF_SIZE

Recv ==
  /\ main = "online" /\ Pending > 0
  /\ buf' = Fits(Pending)
  /\ taken' = taken + buf'
  /\ main' = "case"
  /\ UNCHANGED <<writer, status, start, conn, sent, lines, server, shown>>

RecvEOF_Ignored ==
  /\ main = "online" /\ Pending = 0 /\ EndOfStream
  /\ conn' = "closed"
  /\ UNCHANGED <<main, writer, status, start, sent, lines, server, reading>>

RecvEOF ==
  /\ main = "online" /\ Pending = 0 /\ EndOfStream
  /\ conn' = "closed" /\ main' = "pthread_join"
  /\ UNCHANGED <<writer, status, start, sent, lines, server, reading>>

(* The sizes in its header make exactly one PDU of what recv() returned.   *)
Valid_FirstPdu == buf >= 2 /\ (taken - buf) % 2 = 0

Valid == buf = 2 /\ taken % 2 = 0

FirstPdu == 1 + (taken - buf) \div 2

Shows == Valid /\ shown' = Append(shown, FirstPdu)

Case ==
  /\ main = "case"
  /\ buf' = 0
  /\ UNCHANGED <<writer, start, sent, lines, server, taken>>

ExitsOnInvalid ==
  /\ Case
  /\ \/ Shows /\ UNCHANGED <<conn, status>>
     \/ ~Valid /\ conn' = "closed" /\ status' = "failed" /\ UNCHANGED shown
  /\ main' = "online"

ShutsOnInvalid ==
  /\ Case
  /\ \/ Shows /\ UNCHANGED conn
     \/ ~Valid /\ conn' = "shut" /\ UNCHANGED shown
  /\ main' = "online" /\ UNCHANGED status

casePARTICIPANTS == ExitsOnInvalid
caseMESS == ExitsOnInvalid
casePJOIN == ShutsOnInvalid
casePLEAVE == ShutsOnInvalid

caseQUIT ==
  /\ Case
  /\ \/ Shows /\ main' = "pthread_join" /\ UNCHANGED status
     \/ ~Valid /\ status' = "failed" /\ UNCHANGED <<main, shown>>
  /\ conn' = "closed"

caseDefault_Ignored ==
  /\ Case
  /\ main' = "online"
  /\ UNCHANGED <<conn, status, shown>>

(* An unknown op code.                                                     *)
caseDefault ==
  /\ Case
  /\ conn' = "closed" /\ main' = "pthread_join"
  /\ UNCHANGED <<status, shown>>

pthread_join ==
  /\ main = "pthread_join" /\ writer = "returned"
  /\ status' = "done"
  /\ UNCHANGED <<main, writer, start, conn, sent, lines, server, reading>>

(***************************************************************************)
(* clientWriteEnd.                                                         *)
(***************************************************************************)
clientWriteEnd_NoCheck ==
  /\ writer = "loop" /\ ~robot
  /\ writer' = "fgets"
  /\ UNCHANGED <<main, status, start, conn, sent, lines, server, reading>>

clientWriteEnd ==
  /\ writer = "loop" /\ ~robot
  /\ writer' = IF conn = "closed" THEN "returned" ELSE "fgets"
  /\ UNCHANGED <<main, status, start, conn, sent, lines, server, reading>>

(* A line with text, an empty one, the end of the input.                   *)
fgets ==
  /\ writer = "fgets"
  /\ \/ lines < MaxLines /\ lines' = lines + 1 /\ writer' = "MESS"
     \/ writer' \in {"loop", "QUIT"} /\ UNCHANGED lines
  /\ UNCHANGED <<main, status, start, conn, sent, server, reading>>

clientWriteEnd_testClient ==
  /\ writer = "loop" /\ robot
  /\ \/ lines < Beeps /\ lines' = lines + 1 /\ writer' = "MESS"
     \/ lines = Beeps /\ writer' = "QUIT" /\ UNCHANGED lines
  /\ UNCHANGED <<main, status, start, conn, sent, server, reading>>

Sends(op, next) ==
  /\ writer = op
  /\ \/ /\ conn = "open" /\ fin # "reset"
        /\ sent' = Append(sent, To(peer, op))
        /\ writer' = next
        /\ UNCHANGED status
     \/ /\ \/ conn = "closed" /\ status' = "failed"
           \/ conn = "shut" /\ status' = "killed"
           \/ conn = "open" /\ fin = "reset" /\ status' \in {"failed", "killed"}
        /\ UNCHANGED <<writer, sent>>
  /\ UNCHANGED <<main, start, conn, lines, server, reading>>

sendMESS == Sends("MESS", "loop")
sendQUIT == Sends("QUIT", "returned")

(***************************************************************************)
(* The server and the network.  A reset takes what has not arrived along;  *)
(* so does the client's shutdown().                                        *)
(***************************************************************************)
ServerWrites ==
  /\ writer # "none" /\ fin = "open" /\ wrote < MaxPdus
  /\ wrote' = wrote + 1
  /\ UNCHANGED <<main, writer, status, start, conn, sent, lines, arrived, fin, reading>>

Arrives ==
  /\ arrived < 2 * wrote /\ fin # "reset" /\ conn = "open"
  /\ arrived' = arrived + 1
  /\ UNCHANGED <<main, writer, status, start, conn, sent, lines, wrote, fin, reading>>

ServerCloses ==
  /\ peer = "cs"
  /\ \/ fin = "open" /\ fin' \in {"closed", "reset"}
     \/ fin = "closed" /\ fin' = "reset"
  /\ UNCHANGED <<main, writer, status, start, conn, sent, lines, wrote, arrived, reading>>

-----------------------------------------------------------------------------
Init ==
  /\ main = "start" /\ writer = "none" /\ status = "running"
  /\ robot \in BOOLEAN /\ serverFlag \in BOOLEAN
  /\ nrOfServers = Unread
  /\ peer = "none" /\ conn = "none"
  /\ sent = <<>> /\ lines = 0
  /\ wrote = 0 /\ arrived = 0 /\ fin = "open"
  /\ taken = 0 /\ buf = 0 /\ shown = <<>>

StartUp ==
  \/ setupClientConnection \/ sendGETLIST \/ readSLIST
  \/ chooseServerConnection \/ ScanfFails \/ sendJOIN

whileOnline ==
  \/ Recv \/ RecvEOF
  \/ casePARTICIPANTS \/ caseMESS \/ casePJOIN \/ casePLEAVE \/ caseQUIT \/ caseDefault
  \/ pthread_join

Writing == clientWriteEnd \/ clientWriteEnd_testClient \/ sendMESS \/ sendQUIT

Network == ServerWrites \/ Arrives \/ ServerCloses

Running == status = "running"

Ended == (~Running \/ main = "spin") /\ UNCHANGED vars

Next ==
  \/ Running /\ (StartUp \/ whileOnline \/ Writing \/ fgets \/ Network)
  \/ Ended

Spec == Init /\ [][Next]_vars

(* Both threads are scheduled, what was written arrives; neither the user  *)
(* nor the server owes the program anything.                               *)
FairSpec ==
  /\ Spec
  /\ WF_vars(Running /\ whileOnline)
  /\ WF_vars(Running /\ Writing)
  /\ WF_vars(Running /\ Arrives)

-----------------------------------------------------------------------------
Ops == {"GETLIST", "JOIN", "MESS", "QUIT"}

(* The values the variables range over; recv() does not write behind the   *)
(* buffer.                                                                 *)
TypeOK ==
  /\ main \in {"start", "getlist", "slist", "choose", "spin", "join", "online",
               "case", "pthread_join"}
  /\ writer \in {"none", "loop", "fgets", "MESS", "QUIT", "returned"}
  /\ status \in {"running", "done", "failed", "killed"}
  /\ robot \in BOOLEAN /\ serverFlag \in BOOLEAN
  /\ nrOfServers \in Nat \cup {Unread}
  /\ peer \in {"none", "ns", "cs"} /\ conn \in {"none", "open", "shut", "closed"}
  /\ sent \in Seq([to : {"none", "ns", "cs"}, op : Ops])
  /\ lines \in Nat /\ wrote \in Nat
  /\ arrived \in 0..(2 * wrote)
  /\ fin \in {"open", "closed", "reset"}
  /\ taken \in 0..arrived /\ buf \in 0..MAX_BUFF_SIZE
  /\ shown \in Seq(Nat)

(* main, clientWriteEnd, sendQUIT: the name server gets nothing but the    *)
(* GETLIST, and the chat server one JOIN before anything else and nothing  *)
(* behind a QUIT, although two threads send and a failed connect() goes    *)
(* unnoticed.                                                              *)
OnlyGETLISTBefore(n) == \A m \in DOMAIN sent : m < n => sent[m].op = "GETLIST"

SentInOrder ==
  \A n \in DOMAIN sent :
    /\ sent[n].to = IF sent[n].op = "GETLIST" THEN "ns" ELSE "cs"
    /\ sent[n].op = "JOIN" <=> sent[n].op # "GETLIST" /\ OnlyGETLISTBefore(n)
    /\ sent[n].op = "QUIT" => n = Len(sent)

(* whileOnline and the case functions: whatever arrives together or in     *)
(* parts, the user is shown no PDU twice and none after a later one; and   *)
(* none is left out, unless a PJOIN or PLEAVE has been refused, after      *)
(* which what has arrived is still read.                                   *)
ShownInOrder ==
  [][shown' # shown =>
       \E k \in 1..wrote :
         /\ shown' = Append(shown, k)
         /\ shown # <<>> => k > shown[Len(shown)]
         /\ conn = "open" => k = Len(shown) + 1]_vars

(* The same: a PDU that has arrived is shown, or the connection is given   *)
(* up; it is never lost while the session goes on.                         *)
NothingLost ==
  \A k \in 1..MaxPdus :
    (arrived >= 2 * k) ~> (k \in {shown[n] : n \in DOMAIN shown} \/ ~Running \/ conn # "open")

(* The connection is over: the server's end or the client's own doing.     *)
Over == writer # "none" /\ (fin # "open" \/ conn # "open")

(* whileOnline, clientWriteEnd: when the connection is over the program    *)
(* ends, or only the thread that waits for the user is left; testClient    *)
(* ends in any case.                                                       *)
OnlyUserHoldsUp ==
  Over ~> (~Running \/ (~robot /\ main = "pthread_join" /\ writer = "fgets"))

(* ... and it ends as soon as the user does anything: types a line, be it  *)
(* empty, or ends the input.                                               *)
EndsWithNextLine == WF_vars(Running /\ fgets) => (Over ~> ~Running)
=============================================================================
