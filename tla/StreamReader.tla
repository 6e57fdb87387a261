---------------------------- MODULE StreamReader ----------------------------
(***************************************************************************)
(* How a client thread cuts the byte stream of its connection into PDUs:   *)
(* the loop of client_thread_func, handleByteStream and readExactly.       *)
(*                                                                         *)
(* A byte is <<k, i>>: byte i of the k-th PDU the peer writes.  The peer's *)
(* writes reach the socket in segments; recv() returns what has been asked *)
(* for or what there is, whichever is less, and blocks while there is      *)
(* nothing, also when asked for no bytes.  A received header follows its   *)
(* op code without a gap, so the length field in it is the PDU's; no text  *)
(* or length byte of the instance has the value of an op code.  The buffer *)
(* stays where it is when it is resized (handleByteStream reads the length *)
(* through the old pointer); a byte written behind its end is in `buf' as  *)
(* if there were room, and does no other harm.                             *)
(*                                                                         *)
(* A definition named X_Something is a faulty X; no action uses one.       *)
(***************************************************************************)
EXTENDS Integers, Sequences

CONSTANTS
  Scripts       (* the sequences of PDUs the peer may write                *)

ASSUME ReaderAssumption ==
  \A s \in Scripts :
    s \in Seq([op : {"JOIN", "MESS", "QUIT", "BAD"}, len : Nat])

VARIABLES
  script,       (* what the peer writes                                    *)
  turn, off,    (* the PDU it is writing, and how much of it has arrived   *)
  open,         (* it has not closed the connection                        *)
  stream,       (* the socket's receive buffer                             *)
  pc,
  buf,          (* the bytes stored in buf, by index                       *)
  want,         (* bytes_to_read of the call of readExactly                *)
  got,          (* its *bytes_read: the index of the next byte             *)
  total,        (* c->totalRead                                            *)
  dispatched,   (* the buffers handleMessage was given; <<>>: a wild one   *)
  lost          (* history: the first PDU of which readExactly read more   *)
                (* or less than there is, or with an unknown op code; or 0 *)

peer == <<script, turn, off, open>>
vars == <<peer, stream, pc, buf, want, got, total, dispatched, lost>>

getNrPads(n) == LET rest == n % 4 IN IF rest = 0 THEN 0 ELSE 4 - rest

(* The bytes create_JOIN, create_MESS and create_QUIT lay out.             *)
Size(p) ==
  CASE p.op = "JOIN" -> 4 + p.len + getNrPads(p.len)
    [] p.op = "MESS" -> 12 + p.len + getNrPads(p.len)
    [] OTHER -> 4

Wire(k) == [i \in 1..Size(script[k]) |-> <<k, i - 1>>]

(***************************************************************************)
(* The peer and the network.                                               *)
(***************************************************************************)
Arrive ==
  /\ open /\ turn <= Len(script)
  /\ \E c \in (off + 1)..Size(script[turn]) :
       /\ stream' = stream \o SubSeq(Wire(turn), off + 1, c)
       /\ \/ c < Size(script[turn]) /\ off' = c /\ UNCHANGED turn
          \/ c = Size(script[turn]) /\ off' = 0 /\ turn' = turn + 1
  /\ UNCHANGED <<script, open, pc, buf, want, got, total, dispatched, lost>>

Close ==
  /\ open
  /\ open' = FALSE
  /\ UNCHANGED <<script, turn, off, stream, pc, buf, want, got, total, dispatched, lost>>

(***************************************************************************)
(* The reader.                                                             *)
(***************************************************************************)
Unset == <<0, 0>>

At(i) == IF i \in DOMAIN buf THEN buf[i] ELSE Unset

OpOf(byte) == IF byte[2] = 0 THEN script[byte[1]].op ELSE "BAD"

LosesPlace == lost' = IF lost = 0 THEN Len(dispatched) + 1 ELSE lost

Readable == stream # <<>> \/ ~open

(* readExactly's first act is to resize the buffer.                        *)
Room(n) == n + 10

(* What the two calls of readExactly ask for: the rest of the header...    *)
HeaderLeft(op) == IF op = "MESS" THEN 7 ELSE 3

(* ... and the rest of the PDU.                                            *)
BodyLeft_NoPads(op, len) == IF op = "MESS" THEN 4 + len ELSE len
BodyLeft_LessHeader(op, len) == len + getNrPads(len) - (IF op = "MESS" THEN 8 ELSE 4)

BodyLeft(op, len) ==
  IF op = "MESS" THEN 4 + len + getNrPads(len) ELSE len + getNrPads(len)

ReadOp ==
  /\ pc = "op" /\ stream # <<>> /\ OpOf(stream[1]) # "BAD"
  /\ stream' = Tail(stream)
  /\ buf' = [i \in {0} |-> stream[1]]
  /\ got' = 1
  /\ want' = HeaderLeft(OpOf(stream[1]))
  /\ pc' = "header"
  /\ UNCHANGED <<peer, total, dispatched, lost>>

(* An unknown op code: handleByteStream returns an uninitialised pointer.  *)
ReadBadOp ==
  /\ pc = "op" /\ stream # <<>> /\ OpOf(stream[1]) = "BAD"
  /\ stream' = Tail(stream)
  /\ dispatched' = Append(dispatched, <<>>)
  /\ LosesPlace
  /\ pc' \in {"op", "ended"}
  /\ UNCHANGED <<peer, buf, want, got, total>>

(* recv() returns 0 bytes: the thread ends.                                *)
ReadEOF ==
  /\ pc = "op" /\ stream = <<>> /\ ~open
  /\ pc' = "ended"
  /\ UNCHANGED <<peer, stream, buf, want, got, total, dispatched, lost>>

AfterRead == IF pc = "header" THEN "parse" ELSE "dispatch"

FieldEnd == IF pc = "header" THEN want + 1 ELSE total

(* One turn of the do-while loop of readExactly.                           *)
readExactly_OneMore ==
  /\ pc \in {"header", "body"} /\ Readable
  /\ LET n == IF want <= Len(stream) THEN want ELSE Len(stream) IN
       /\ stream' = SubSeq(stream, n + 1, Len(stream))
       /\ buf' = [i \in DOMAIN buf \cup got..(got + n - 1) |->
                    IF i \in got..(got + n - 1) THEN stream[i - got + 1] ELSE buf[i]]
       /\ got' = got + n
       /\ pc' = IF got + n <= want + 1 THEN pc ELSE AfterRead
  /\ IF pc' # pc /\ got' # FieldEnd THEN LosesPlace ELSE UNCHANGED lost
  /\ UNCHANGED <<peer, want, total, dispatched>>

readExactly ==
  /\ pc \in {"header", "body"} /\ Readable
  /\ LET n == IF want <= Len(stream) THEN want ELSE Len(stream) IN
       /\ stream' = SubSeq(stream, n + 1, Len(stream))
       /\ buf' = [i \in DOMAIN buf \cup got..(got + n - 1) |->
                    IF i \in got..(got + n - 1) THEN stream[i - got + 1] ELSE buf[i]]
       /\ got' = got + n
       /\ pc' = IF got + n <= want THEN pc ELSE AfterRead
  /\ IF pc' # pc /\ got' # FieldEnd THEN LosesPlace ELSE UNCHANGED lost
  /\ UNCHANGED <<peer, want, total, dispatched>>

handleByteStream ==
  /\ pc = "parse"
  /\ LET pdu == script[buf[0][1]] IN
       \/ /\ pdu.op = "QUIT"
          /\ total' = 4
          /\ pc' = "dispatch"
          /\ UNCHANGED <<got, want>>
       \/ /\ pdu.op # "QUIT"
          /\ got' = HeaderLeft(pdu.op) + 1
          /\ want' = BodyLeft(pdu.op, pdu.len)
          /\ total' = want' + got'
          /\ pc' = "body"
  /\ UNCHANGED <<peer, stream, buf, dispatched, lost>>

(* A QUIT ends the thread; a JOIN or a MESS may, when it is refused.       *)
handleMessage ==
  /\ pc = "dispatch"
  /\ dispatched' = Append(dispatched, [i \in 1..total |-> At(i - 1)])
  /\ \/ pc' = "ended"
     \/ script[buf[0][1]].op # "QUIT" /\ pc' = "op"
  /\ buf' = <<>> /\ want' = 0 /\ got' = 0 /\ total' = 0
  /\ UNCHANGED <<peer, stream, lost>>

Init ==
  /\ script \in Scripts
  /\ turn = 1 /\ off = 0 /\ open = TRUE
  /\ stream = <<>>
  /\ pc = "op"
  /\ buf = <<>> /\ want = 0 /\ got = 0 /\ total = 0
  /\ dispatched = <<>>
  /\ lost = 0

Reader ==
  ReadOp \/ ReadBadOp \/ ReadEOF \/ readExactly \/ handleByteStream \/ handleMessage

Ended == pc = "ended" /\ UNCHANGED vars

Next == Arrive \/ Close \/ Reader \/ Ended

Spec == Init /\ [][Next]_vars

(* The thread is scheduled; the peer need not write or close.              *)
FairSpec == Spec /\ WF_vars(Reader)

-----------------------------------------------------------------------------
Byte == (1..Len(script)) \X Nat

TypeOK ==
  /\ script \in Scripts
  /\ turn \in 1..(Len(script) + 1) /\ off \in Nat
  /\ open \in BOOLEAN
  /\ stream \in Seq(Byte)
  /\ pc \in {"op", "header", "parse", "body", "dispatch", "ended"}
  /\ \A i \in DOMAIN buf : i \in Nat /\ buf[i] \in Byte
  /\ want \in Nat /\ got \in Nat /\ total \in Nat
  /\ pc \in {"parse", "body", "dispatch"} => buf[0][2] = 0
  /\ dispatched \in Seq(Seq(Byte \cup {Unset}))
  /\ lost \in 0..(Len(dispatched) + 1)

(* handleByteStream: however the bytes arrive, the handlers get the PDUs   *)
(* the peer wrote, each complete, in order, none skipped, until a call of  *)
(* readExactly has returned more or fewer bytes than the PDU has there (it *)
(* can when the rest of a field comes in several segments, or the          *)
(* connection ends within one) or an op code is unknown.  Not covered:     *)
(* what the handlers get from that PDU on.                                 *)
InSync ==
  \A n \in DOMAIN dispatched : lost = 0 \/ n < lost => dispatched[n] = Wire(n)

(* client_thread_func: a PDU that has arrived is handled, unless the       *)
(* thread ends or loses its place in the stream before; one without a body *)
(* waits for a further byte or for the connection's end.                   *)
PduHandled ==
  \A k \in 1..3 :
    (/\ turn > k
     /\ \/ BodyLeft(script[k].op, script[k].len) > 0
        \/ turn > k + 1 \/ off > 0 \/ ~open)
      ~> (Len(dispatched) >= k \/ pc = "ended" \/ lost # 0)

(* client_thread_func: a connection closed between two PDUs ends the       *)
(* thread, unless it has lost its place in the stream (recv() returning    *)
(* no bytes within what it takes for a header keeps it turning).           *)
EndsWhenClosed == (~open /\ off = 0) ~> (pc = "ended" \/ lost # 0)

-----------------------------------------------------------------------------
(* socket_lib.c:197, "keep reading exactly the specified nr of bytes": no  *)
(* byte is written behind the buffer, which has room for these bytes and   *)
(* ten more.  Not so: the loop asks for all of them again when a part has  *)
(* come, and takes them from the PDUs behind.                              *)
StaysInBuffer == pc \in {"parse", "dispatch"} => got <= Room(want)
=============================================================================
