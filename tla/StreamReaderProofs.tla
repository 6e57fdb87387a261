------------------------- MODULE StreamReaderProofs -------------------------
(***************************************************************************)
(* For every sequence of PDUs a peer may write, of any length, and however *)
(* the bytes arrive: what the reader handles is what was written, in       *)
(* order, until a call of readExactly returns too much or too little.      *)
(***************************************************************************)
EXTENDS StreamReader, SequenceTheorems, TLAPS

Pdu == [op : {"JOIN", "MESS", "QUIT", "BAD"}, len : Nat]

Reading == {"header", "parse", "body", "dispatch"}

(* From its op code on, the thread has the first byte of a PDU.            *)
TypedInv ==
  /\ TypeOK
  /\ pc \in Reading => 0 \in DOMAIN buf /\ buf[0][2] = 0 /\ got > 0

-----------------------------------------------------------------------------
(* The PDU being read, and the size of its header.                         *)
PduRead == buf[0][1]

HeaderSize(p) == HeaderLeft(p.op) + 1

(* The place of byte i of PDU k, also if i is just behind it.              *)
Place(k, i) == IF i < Size(script[k]) THEN <<k, i>> ELSE <<k + 1, 0>>

(* The byte received as the j-th from now, or the one to arrive next.      *)
Flow(j) == IF j <= Len(stream) THEN stream[j] ELSE <<turn, off>>

(* The peer is within a PDU, or has written them all.                      *)
PeerAt ==
  IF turn <= Len(script) THEN off < Size(script[turn]) ELSE off = 0

(* No byte is missing in the stream: what lies d bytes behind byte i of a  *)
(* PDU is its byte i + d, or the beginning of the next one.                *)
Contiguous ==
  /\ \A j \in 1..Len(stream) :
       stream[j][1] <= turn /\ stream[j][2] < Size(script[stream[j][1]])
  /\ \A j \in 1..Len(stream) : \A m \in j..(Len(stream) + 1) :
       stream[j][2] + (m - j) <= Size(script[stream[j][1]])
         => Flow(m) = Place(stream[j][1], stream[j][2] + (m - j))

(* The buffer holds the first n bytes of the PDU, and the next one follows.*)
Taken(n) ==
  /\ DOMAIN buf = 0..(n - 1)
  /\ \A i \in 0..(n - 1) : buf[i] = <<PduRead, i>>
  /\ Flow(1) = Place(PduRead, n)

(* While it keeps its place, the thread has a part of the PDU up to where  *)
(* the field ends that it is reading.                                      *)
ReaderAt ==
  LET pdu == script[PduRead] IN
    lost = 0 =>
      /\ pc = "header" => want = HeaderLeft(pdu.op) /\ got \in 1..want /\ Taken(got)
      /\ pc = "parse" =>
           want = HeaderLeft(pdu.op) /\ got = HeaderSize(pdu) /\ Taken(got)
      /\ pc = "body" =>
           /\ pdu.op # "QUIT"
           /\ want = BodyLeft(pdu.op, pdu.len) /\ total = Size(pdu)
           /\ got \in HeaderSize(pdu)..total /\ Taken(got)
      /\ pc = "dispatch" => total = Size(pdu) /\ Taken(total)

(* The thread is at the PDU it has to handle next.                         *)
NextPdu ==
  lost = 0 =>
    /\ pc = "op" => Flow(1) = <<Len(dispatched) + 1, 0>>
    /\ pc \in Reading => PduRead = Len(dispatched) + 1

StreamInv ==
  /\ TypedInv
  /\ PeerAt
  /\ Contiguous
  /\ pc \in Reading => script[PduRead].op # "BAD"
  /\ ReaderAt
  /\ NextPdu
  /\ InSync

-----------------------------------------------------------------------------
LEMMA Sizes ==
  ASSUME NEW p \in Pdu
  PROVE  /\ Size(p) \in Nat /\ HeaderSize(p) \in {4, 8} /\ HeaderSize(p) <= Size(p)
         /\ HeaderLeft(p.op) = HeaderSize(p) - 1
         /\ p.op \in {"QUIT", "BAD"} => Size(p) = 4 /\ HeaderSize(p) = 4
         /\ BodyLeft(p.op, p.len) \in Nat
         /\ p.op \in {"JOIN", "MESS"} =>
              BodyLeft(p.op, p.len) + HeaderSize(p) = Size(p)
<1>1. p.len \in Nat /\ getNrPads(p.len) \in 0..3
  BY DEF Pdu, getNrPads
<1>2. p.op \in {"JOIN", "MESS", "QUIT", "BAD"}
  BY DEF Pdu
<1>3. QED
  BY <1>1, <1>2 DEF Size, HeaderSize, HeaderLeft, BodyLeft

LEMMA Written ==
  ASSUME TypeOK
  PROVE  /\ script \in Seq(Pdu) /\ Len(script) \in Nat
         /\ \A k \in 1..Len(script) : script[k] \in Pdu
<1>1. script \in Seq(Pdu)
  BY ReaderAssumption DEF TypeOK, Pdu
<1>2. QED
  BY <1>1, ElementOfSeq, LenProperties

(* Where the place is lost is the PDU being read.                          *)
LEMMA LostTyped ==
  ASSUME TypeOK, lost' = lost \/ LosesPlace,
         Len(dispatched') \in {Len(dispatched), Len(dispatched) + 1}
  PROVE  lost' \in 0..(Len(dispatched') + 1)
<1>1. Len(dispatched) \in Nat /\ lost \in 0..(Len(dispatched) + 1)
  BY LenProperties DEF TypeOK
<1>2. lost' = lost \/ lost' = Len(dispatched) + 1
  BY DEF LosesPlace
<1>3. QED
  BY <1>1, <1>2

LEMMA TypedInit == Init => TypedInv
<1> SUFFICES ASSUME Init PROVE TypedInv
  OBVIOUS
<1>1. Len(script) \in Nat
  BY ReaderAssumption DEF Init
<1>2. QED
  BY <1>1 DEF Init, TypedInv, TypeOK, Reading, Byte

LEMMA TypedArrive == TypedInv /\ Arrive => TypedInv'
<1> SUFFICES ASSUME TypedInv, Arrive PROVE TypedInv'
  OBVIOUS
<1>1. PICK c \in (off + 1)..Size(script[turn]) :
        /\ stream' = stream \o SubSeq(Wire(turn), off + 1, c)
        /\ \/ c < Size(script[turn]) /\ off' = c /\ turn' = turn
           \/ c = Size(script[turn]) /\ off' = 0 /\ turn' = turn + 1
  BY DEF Arrive
<1>2. /\ turn \in 1..Len(script) /\ script[turn] \in Pdu /\ Len(script) \in Nat
      /\ script' = script
  BY Written DEF Arrive, TypedInv, TypeOK
<1>3. Size(script[turn]) \in Nat /\ c \in Nat /\ c <= Size(script[turn])
  BY <1>1, <1>2, Sizes DEF TypedInv, TypeOK
<1>4. \A i \in (off + 1)..c : Wire(turn)[i] \in Byte
  BY <1>2, <1>3 DEF Wire, Byte, TypedInv, TypeOK
<1>5. SubSeq(Wire(turn), off + 1, c) \in Seq(Byte)
  BY <1>3, <1>4, SubSeqProperties DEF TypedInv, TypeOK
<1>6. stream' \in Seq(Byte)
  BY <1>1, <1>5, ConcatProperties DEF TypedInv, TypeOK
<1>7. Byte' = Byte /\ turn' \in 1..(Len(script) + 1) /\ off' \in Nat
  BY <1>1, <1>2, <1>3 DEF Byte
<1>8. QED
  BY <1>6, <1>7 DEF Arrive, TypedInv, TypeOK, Reading
LEMMA TypedReadOp == TypedInv /\ ReadOp => TypedInv'
<1> SUFFICES ASSUME TypedInv, ReadOp PROVE TypedInv'
  OBVIOUS
<1>1. stream[1] \in Byte /\ stream' \in Seq(Byte) /\ Byte' = Byte
  BY HeadTailProperties, ElementOfSeq, EmptySeq DEF ReadOp, TypedInv, TypeOK, Byte, peer
<1>2. stream[1][2] = 0
  BY DEF ReadOp, OpOf
<1>3. want' \in Nat /\ got' = 1
  BY DEF ReadOp, HeaderLeft
<1>4. 0 \in DOMAIN buf' /\ \A i \in DOMAIN buf' : i = 0 /\ buf'[i] = stream[1]
  BY DEF ReadOp
<1>5. QED
  BY <1>1, <1>2, <1>3, <1>4 DEF ReadOp, TypedInv, TypeOK, Reading, peer

LEMMA TypedReadBadOp == TypedInv /\ ReadBadOp => TypedInv'
<1> SUFFICES ASSUME TypedInv, ReadBadOp PROVE TypedInv'
  OBVIOUS
<1>1. stream' \in Seq(Byte) /\ Byte' = Byte
  BY HeadTailProperties DEF ReadBadOp, TypedInv, TypeOK, Byte, peer
<1>2. dispatched' \in Seq(Seq(Byte \cup {Unset}))
  BY EmptySeq, AppendProperties DEF ReadBadOp, TypedInv, TypeOK
<1>3. lost' \in 0..(Len(dispatched') + 1)
  <2>1. Len(dispatched') = Len(dispatched) + 1
    BY EmptySeq, AppendProperties DEF ReadBadOp, TypedInv, TypeOK
  <2>2. QED
    BY <2>1, LostTyped DEF ReadBadOp, TypedInv
<1>4. QED
  BY <1>1, <1>2, <1>3 DEF ReadBadOp, TypedInv, TypeOK, Reading, peer

(* What one call of recv() takes.                                          *)
Received == IF want <= Len(stream) THEN want ELSE Len(stream)

LEMMA TypedReadExactly == TypedInv /\ readExactly => TypedInv'
<1> SUFFICES ASSUME TypedInv, readExactly PROVE TypedInv'
  OBVIOUS
<1>1. PICK n \in Nat : n = Received /\ n <= Len(stream)
  BY LenProperties DEF Received, TypedInv, TypeOK
<1>2. /\ stream' = SubSeq(stream, n + 1, Len(stream))
      /\ buf' = [i \in DOMAIN buf \cup got..(got + n - 1) |->
                    IF i \in got..(got + n - 1) THEN stream[i - got + 1] ELSE buf[i]]
      /\ got' = got + n
      /\ pc' = IF got + n <= want THEN pc ELSE AfterRead
      /\ pc \in {"header", "body"} /\ UNCHANGED <<peer, want, total, dispatched>>
  BY <1>1 DEF readExactly, Received
<1>3. Byte' = Byte
  BY <1>2 DEF Byte, peer
<1>4. \A i \in 1..Len(stream) : stream[i] \in Byte
  BY ElementOfSeq DEF TypedInv, TypeOK
<1>5. stream' \in Seq(Byte)
  BY <1>1, <1>2, <1>4, SubSeqProperties, LenProperties DEF TypedInv, TypeOK
<1>6. got \in Nat /\ got > 0 /\ 0 \in DOMAIN buf /\ buf[0][2] = 0
  BY <1>2 DEF TypedInv, TypeOK, Reading
<1>7. \A i \in DOMAIN buf' : i \in Nat /\ buf'[i] \in Byte
  BY <1>1, <1>2, <1>4, <1>6 DEF TypedInv, TypeOK
<1>8. 0 \in DOMAIN buf' /\ buf'[0] = buf[0]
  BY <1>2, <1>6
<1>9. lost' \in 0..(Len(dispatched') + 1)
  <2>1. lost' = lost \/ LosesPlace
    BY DEF readExactly
  <2>2. QED
    BY <1>2, <2>1, LostTyped DEF TypedInv
<1>10. QED
  BY <1>1, <1>2, <1>3, <1>5, <1>6, <1>7, <1>8, <1>9
  DEF TypedInv, TypeOK, Reading, AfterRead, peer

LEMMA TypedHandleByteStream == TypedInv /\ handleByteStream => TypedInv'
<1> SUFFICES ASSUME TypedInv, handleByteStream PROVE TypedInv'
  OBVIOUS
<1>1. 0 \in DOMAIN buf /\ buf[0] \in Byte /\ Len(script) \in Nat
  BY Written DEF handleByteStream, TypedInv, TypeOK, Reading
<1>2. script[PduRead] \in Pdu
  BY <1>1, Written DEF Byte, PduRead, TypedInv
<1> DEFINE pdu == script[PduRead]
<1>3. \/ want' = want /\ got' = got /\ total' = 4
      \/ /\ got' = HeaderLeft(pdu.op) + 1 /\ want' = BodyLeft(pdu.op, pdu.len)
         /\ total' = want' + got'
  BY DEF handleByteStream, PduRead
<1>4. HeaderLeft(pdu.op) \in Nat /\ BodyLeft(pdu.op, pdu.len) \in Nat
  BY <1>2, Sizes
<1>5. want \in Nat /\ got \in Nat /\ got > 0
  BY DEF handleByteStream, TypedInv, TypeOK, Reading
<1>6. want' \in Nat /\ got' \in Nat /\ got' > 0 /\ total' \in Nat
  <2> HIDE DEF pdu
  <2>1. QED
    BY <1>3, <1>4, <1>5
<1>7. Byte' = Byte
  BY DEF handleByteStream, Byte, peer
<1>8. QED
  BY <1>1, <1>6, <1>7 DEF handleByteStream, TypedInv, TypeOK, Reading, peer

LEMMA TypedHandleMessage == TypedInv /\ handleMessage => TypedInv'
<1> SUFFICES ASSUME TypedInv, handleMessage PROVE TypedInv'
  OBVIOUS
<1> DEFINE given == [i \in 1..total |-> At(i - 1)]
<1>1. \A i \in 1..total : given[i] \in Byte \cup {Unset}
  BY DEF At, TypedInv, TypeOK
<1>2. given \in Seq(Byte \cup {Unset})
  BY <1>1 DEF TypedInv, TypeOK
<1>3. dispatched' \in Seq(Seq(Byte \cup {Unset}))
  BY <1>2, AppendProperties DEF handleMessage, TypedInv, TypeOK
<1>4. Byte' = Byte
  BY DEF handleMessage, Byte, peer
<1>5. lost' \in 0..(Len(dispatched') + 1)
  <2> HIDE DEF given
  <2>1. dispatched' = Append(dispatched, given) /\ lost' = lost
    BY DEF handleMessage, given
  <2>2. Len(dispatched') = Len(dispatched) + 1
    BY <1>2, <2>1, AppendProperties DEF TypedInv, TypeOK
  <2>3. QED
    BY <2>1, <2>2, LostTyped DEF TypedInv
<1>6. QED
  BY <1>3, <1>4, <1>5 DEF handleMessage, TypedInv, TypeOK, Reading, peer

LEMMA TypedStep == TypedInv /\ [Next]_vars => TypedInv'
<1> SUFFICES ASSUME TypedInv, [Next]_vars PROVE TypedInv'
  OBVIOUS
<1>1. CASE Close
  BY <1>1 DEF Close, TypedInv, TypeOK, Reading, Byte
<1>2. CASE ReadEOF
  BY <1>2 DEF ReadEOF, TypedInv, TypeOK, Reading, Byte, peer
<1>3. CASE UNCHANGED vars
  BY <1>3 DEF vars, peer, TypedInv, TypeOK, Reading, Byte
<1>4. QED
  BY <1>1, <1>2, <1>3, TypedArrive, TypedReadOp, TypedReadBadOp, TypedReadExactly,
     TypedHandleByteStream, TypedHandleMessage DEF Next, Reader, Ended

(* StreamReader.TypeOK: what has been received is bytes of the PDUs        *)
(* written, and from its op code on the buffer begins with a PDU's first   *)
(* byte, wherever segments end.                                            *)
THEOREM ReaderTyped == Spec => []TypeOK
<1>1. TypedInv => TypeOK
  BY DEF TypedInv
<1>2. QED
  BY TypedInit, TypedStep, <1>1, PTL DEF Spec

-----------------------------------------------------------------------------
(* From a known byte on, the stream is known up to the end of the PDU, or  *)
(* as far as it has arrived.                                               *)
LEMMA Ahead ==
  ASSUME TypedInv, Contiguous,
         NEW k \in 1..Len(script), NEW i \in Nat, i < Size(script[k]), Flow(1) = <<k, i>>,
         NEW n \in 0..Len(stream), i + n <= Size(script[k])
  PROVE  /\ Flow(n + 1) = Place(k, i + n)
         /\ \A j \in 1..n : stream[j] = <<k, i + j - 1>>
<1>1. Len(stream) \in Nat /\ Size(script[k]) \in Nat
  BY Written, Sizes, LenProperties DEF TypedInv, TypeOK
<1>2. CASE n = 0
  BY <1>1, <1>2 DEF Place
<1>3. CASE n > 0
  <2>1. 1 \in 1..Len(stream) /\ stream[1] = <<k, i>>
    BY <1>1, <1>3 DEF Flow
  <2>2. stream[1][1] = k /\ stream[1][2] = i
    BY <2>1
  <2>3. \A m \in 1..(Len(stream) + 1) :
          i + (m - 1) <= Size(script[k]) => Flow(m) = Place(k, i + (m - 1))
    BY <2>1, <2>2 DEF Contiguous
  <2>4. Flow(n + 1) = Place(k, i + n)
    BY <1>1, <2>3
  <2>5. ASSUME NEW j \in 1..n PROVE stream[j] = <<k, i + j - 1>>
    <3>1. j \in Nat /\ j <= n /\ 1 <= j /\ i + (j - 1) < Size(script[k])
      BY <1>1
    <3>2. Flow(j) = Place(k, i + (j - 1))
      BY <1>1, <2>3, <3>1
    <3>3. QED
      BY <1>1, <3>1, <3>2 DEF Flow, Place
  <2>6. QED
    BY <2>4, <2>5
<1>4. QED
  BY <1>1, <1>2, <1>3

(* Taking the first n bytes leaves a stream without a gap.                 *)
LEMMA Drop ==
  ASSUME TypedInv, Contiguous, NEW n \in 0..Len(stream),
         stream' = SubSeq(stream, n + 1, Len(stream)), UNCHANGED <<script, turn, off>>
  PROVE  Contiguous' /\ Flow(1)' = Flow(n + 1) /\ Len(stream)' = Len(stream) - n
<1>1. Len(stream) \in Nat /\ \A i \in 1..Len(stream) : stream[i] \in Byte
  BY ElementOfSeq, LenProperties DEF TypedInv, TypeOK
<1>2. /\ Len(stream') = Len(stream) - n
      /\ \A i \in 1..(Len(stream) - n) : stream'[i] = stream[n + i]
  BY <1>1, SubSeqProperties
<1>3. \A m \in 1..(Len(stream') + 1) : Flow(m)' = Flow(n + m)
  BY <1>1, <1>2 DEF Flow
<1>4. ASSUME NEW j \in 1..Len(stream')
      PROVE  stream'[j] = stream[n + j] /\ n + j \in 1..Len(stream)
  BY <1>1, <1>2
<1>5. ASSUME NEW j \in 1..Len(stream'), NEW m \in j..(Len(stream') + 1),
             stream'[j][2] + (m - j) <= Size(script'[stream'[j][1]])
      PROVE  Flow(m)' = Place(stream'[j][1], stream'[j][2] + (m - j))
  <2>1. stream'[j] = stream[n + j] /\ n + j \in 1..Len(stream)
    BY <1>4
  <2>2. n + m \in (n + j)..(Len(stream) + 1) /\ (n + m) - (n + j) = m - j
    BY <1>1, <1>2
  <2>3. Flow(n + m) = Place(stream[n + j][1], stream[n + j][2] + (m - j))
    BY <1>5, <2>1, <2>2 DEF Contiguous
  <2>4. m \in 1..(Len(stream') + 1)
    BY <1>1, <1>2
  <2>5. Flow(m)' = Flow(n + m)
    BY <1>3, <2>4
  <2>6. QED
    BY <2>1, <2>3, <2>5
<1>6. \A j \in 1..Len(stream') :
        stream'[j][1] <= turn' /\ stream'[j][2] < Size(script'[stream'[j][1]])
  BY <1>4 DEF Contiguous
<1>7. Contiguous'
  BY <1>5, <1>6 DEF Contiguous, Place
<1>8. QED
  BY <1>1, <1>2, <1>3, <1>7
(* A segment goes on where the one before it has ended.                    *)
LEMMA ArriveContiguous ==
  ASSUME TypedInv, Contiguous, PeerAt, Arrive
  PROVE  Contiguous' /\ Flow(1)' = Flow(1)
<1>1. PICK c \in (off + 1)..Size(script[turn]) :
        /\ stream' = stream \o SubSeq(Wire(turn), off + 1, c)
        /\ \/ c < Size(script[turn]) /\ off' = c /\ turn' = turn
           \/ c = Size(script[turn]) /\ off' = 0 /\ turn' = turn + 1
  BY DEF Arrive
<1>2. /\ turn \in 1..Len(script) /\ turn <= Len(script) /\ script[turn] \in Pdu
      /\ script' = script
  BY Written DEF Arrive, TypedInv, TypeOK
<1>3. /\ Size(script[turn]) \in Nat /\ c \in Nat /\ c <= Size(script[turn])
      /\ off \in Nat /\ off < Size(script[turn]) /\ turn \in Nat
  BY <1>1, <1>2, Sizes DEF PeerAt, TypedInv, TypeOK
<1>4. PICK n \in Nat : c = off + n /\ n > 0
  BY <1>1, <1>3
<1>5. PICK l \in Nat : l = Len(stream)
  BY LenProperties DEF TypedInv, TypeOK
<1>6. /\ stream \in Seq(Byte) /\ \A j \in 1..l : stream[j] \in Byte
      /\ \A j \in 1..l : stream[j][1] \in Nat
      /\ turn' \in Nat /\ turn <= turn'
  <2>1. stream \in Seq(Byte) /\ \A j \in 1..l : stream[j] \in Byte
    BY <1>5, ElementOfSeq, LenProperties DEF TypedInv, TypeOK
  <2>2. \A b \in Byte : b[1] \in Nat
    BY DEF Byte
  <2>3. turn' = turn \/ turn' = turn + 1
    BY <1>1
  <2>4. QED
    BY <1>3, <2>1, <2>2, <2>3
<1> DEFINE segment == SubSeq(Wire(turn), off + 1, c)
<1>7. /\ segment \in Seq(Byte) /\ Len(segment) = n
      /\ \A i \in 1..n : segment[i] = <<turn, off + (i - 1)>>
  <2>1. \A i \in (off + 1)..c : Wire(turn)[i] = <<turn, i - 1>> /\ Wire(turn)[i] \in Byte
    BY <1>2, <1>3 DEF Wire, Byte
  <2>2. /\ segment \in Seq(Byte)
        /\ Len(segment) = IF off + 1 <= c THEN c - (off + 1) + 1 ELSE 0
        /\ \A i \in 1..(c - (off + 1) + 1) : segment[i] = Wire(turn)[(off + 1) + i - 1]
    <3>1. off + 1 \in Int /\ c \in Int
      BY <1>3
    <3>2. QED
      BY <2>1, <3>1, SubSeqProperties
  <2>3. ASSUME NEW i \in 1..n PROVE segment[i] = <<turn, off + (i - 1)>>
    <3>1. segment[i] = Wire(turn)[off + i] /\ off + i \in (off + 1)..c
      BY <1>3, <1>4, <2>2
    <3>2. QED
      BY <1>3, <2>1, <3>1
  <2>4. Len(segment) = n
    BY <1>3, <1>4, <2>2
  <2>5. QED
    BY <2>2, <2>3, <2>4
<1>8. /\ Len(stream') = l + n
      /\ \A j \in 1..l : stream'[j] = stream[j]
      /\ \A j \in 1..(l + n) : j > l => stream'[j] = <<turn, off + (j - (l + 1))>>
  <2>1. /\ Len(stream') = l + n
        /\ \A j \in 1..(l + n) : stream'[j] = IF j <= l THEN stream[j] ELSE segment[j - l]
    BY <1>1, <1>5, <1>6, <1>7, ConcatProperties
  <2> HIDE DEF segment
  <2>2. ASSUME NEW j \in 1..(l + n), j > l PROVE stream'[j] = <<turn, off + (j - (l + 1))>>
    <3>1. j - l \in 1..n /\ (j - l) - 1 = j - (l + 1)
      BY <2>2
    <3>2. stream'[j] = segment[j - l]
      BY <2>1, <2>2
    <3>3. QED
      BY <1>7, <3>1, <3>2
  <2>3. QED
    BY <2>1, <2>2
<1> HIDE DEF segment
<1>9. /\ \A m \in 1..l : Flow(m)' = Flow(m) /\ Flow(m)' = stream[m]
      /\ \A m \in 1..(l + n + 1) : m > l => Flow(m)' = Place(turn, off + (m - (l + 1)))
  <2>1. \A m \in 1..l : Flow(m)' = Flow(m) /\ Flow(m)' = stream[m]
    BY <1>5, <1>8 DEF Flow
  <2>2. ASSUME NEW m \in 1..(l + n), m > l
        PROVE  Flow(m)' = Place(turn, off + (m - (l + 1)))
    <3>1. Flow(m)' = <<turn, off + (m - (l + 1))>>
      BY <1>8, <2>2 DEF Flow
    <3>2. off + (m - (l + 1)) < Size(script[turn])
      BY <1>3, <1>4
    <3>3. QED
      BY <3>1, <3>2 DEF Place
  <2>3. Flow(l + n + 1)' = <<turn', off'>>
    BY <1>8 DEF Flow
  <2>4. Flow(l + n + 1)' = Place(turn, off + n)
    <3>1. \/ off + n < Size(script[turn]) /\ off' = off + n /\ turn' = turn
          \/ off + n = Size(script[turn]) /\ off' = 0 /\ turn' = turn + 1
      BY <1>1, <1>4
    <3>2. QED
      BY <1>3, <2>3, <3>1 DEF Place
  <2>5. ASSUME NEW m \in 1..(l + n + 1), m > l
        PROVE  Flow(m)' = Place(turn, off + (m - (l + 1)))
    <3>1. CASE m = l + n + 1
      <4>1. off + (m - (l + 1)) = off + n
        BY <1>3, <3>1
      <4>2. QED
        BY <2>4, <3>1, <4>1
    <3>2. QED
      BY <2>2, <2>5, <3>1
  <2>6. QED
    BY <2>1, <2>5
<1>10. Flow(l + 1) = <<turn, off>>
  BY <1>5 DEF Flow
<1>11. ASSUME NEW j \in 1..(l + n), NEW m \in j..(l + n + 1),
              stream'[j][2] + (m - j) <= Size(script[stream'[j][1]])
       PROVE  Flow(m)' = Place(stream'[j][1], stream'[j][2] + (m - j))
  <2>1. CASE j <= l /\ m <= l
    <3>1. stream'[j] = stream[j] /\ Flow(m)' = Flow(m) /\ m \in j..(l + 1) /\ j \in 1..l
      BY <1>8, <1>9, <2>1
    <3>2. QED
      BY <1>5, <1>11, <3>1 DEF Contiguous
  <2>2. CASE j <= l /\ m > l
    <3>1. PICK k \in 1..Len(script), i \in Nat : stream[j] = <<k, i>> /\ stream'[j] = <<k, i>>
      <4>1. stream[j] \in (1..Len(script)) \X Nat
        BY <1>6, <2>2 DEF Byte
      <4>2. stream'[j] = stream[j]
        BY <1>8, <2>2
      <4>3. QED
        BY <4>1, <4>2
    <3>2. stream[j][1] = k /\ stream[j][2] = i /\ stream'[j][1] = k /\ stream'[j][2] = i
      BY <3>1
    <3>3. Size(script[k]) \in Nat /\ i + (m - j) <= Size(script[k])
      BY <1>11, <3>2, Written, Sizes DEF TypedInv
    <3>4. i + ((l + 1) - j) <= Size(script[k])
      BY <2>2, <3>3
    <3>5. Flow(l + 1) = Place(k, i + ((l + 1) - j))
      <4>1. j \in 1..Len(stream) /\ l + 1 \in j..(Len(stream) + 1)
        BY <1>5, <2>2
      <4>2. QED
        BY <3>2, <3>4, <4>1 DEF Contiguous
    <3>6. Flow(m)' = Place(turn, off + (m - (l + 1)))
      BY <1>9, <2>2
    <3>7. CASE i + ((l + 1) - j) < Size(script[k])
      <4>1. k = turn /\ off = i + ((l + 1) - j)
        BY <1>10, <3>5, <3>7 DEF Place
      <4>2. off + (m - (l + 1)) = i + (m - j)
        BY <4>1
      <4>3. QED
        BY <3>2, <3>6, <4>1, <4>2
    <3>8. CASE i + ((l + 1) - j) = Size(script[k])
      <4>1. m = l + 1 /\ off + (m - (l + 1)) = off
        BY <1>3, <2>2, <3>3, <3>8
      <4>2. Flow(m)' = <<turn, off>>
        BY <1>3, <3>6, <4>1 DEF Place
      <4>3. QED
        BY <1>10, <3>2, <3>5, <4>1, <4>2
    <3>9. QED
      BY <3>3, <3>4, <3>7, <3>8
  <2>3. CASE j > l
    <3>1. stream'[j] = <<turn, off + (j - (l + 1))>>
      BY <1>8, <2>3
    <3>2. Flow(m)' = Place(turn, off + (m - (l + 1)))
      BY <1>9, <2>3
    <3>3. (off + (j - (l + 1))) + (m - j) = off + (m - (l + 1))
      BY <1>3
    <3>4. QED
      BY <3>1, <3>2, <3>3
  <2>4. QED
    BY <2>1, <2>2, <2>3
<1>12. ASSUME NEW j \in 1..(l + n)
       PROVE  stream'[j][1] <= turn' /\ stream'[j][2] < Size(script[stream'[j][1]])
  <2>1. CASE j <= l
    <3>1. stream'[j] = stream[j] /\ stream[j][1] \in Nat
      BY <1>6, <1>8, <2>1
    <3>2. QED
      BY <1>3, <1>5, <1>6, <2>1, <3>1 DEF Contiguous
  <2>2. CASE j > l
    <3>1. stream'[j] = <<turn, off + (j - (l + 1))>>
      BY <1>8, <2>2
    <3>2. off + (j - (l + 1)) < Size(script[turn])
      BY <1>3, <1>4
    <3>3. QED
      BY <1>6, <3>1, <3>2
  <2>3. QED
    BY <2>1, <2>2
<1>13. Contiguous'
  BY <1>2, <1>8, <1>11, <1>12 DEF Contiguous, Place
<1>14. Flow(1)' = Flow(1)
  <2>1. CASE l = 0
    <3>1. Flow(1)' = Place(turn, off + (1 - (0 + 1)))
      BY <1>9, <2>1
    <3>2. QED
      BY <1>3, <1>10, <2>1, <3>1 DEF Place
  <2>2. CASE l > 0
    BY <1>9, <2>2
  <2>3. QED
    BY <2>1, <2>2
<1>15. QED
  BY <1>13, <1>14
-----------------------------------------------------------------------------
LEMMA FirstByte ==
  ASSUME TypedInv, pc \in Reading
  PROVE  /\ PduRead \in 1..Len(script) /\ PduRead \in Nat /\ script[PduRead] \in Pdu
         /\ buf[0] = <<PduRead, 0>>
<1>1. buf[0] \in (1..Len(script)) \X Nat /\ buf[0][2] = 0
  BY DEF TypedInv, TypeOK, Byte
<1>2. QED
  BY <1>1, Written DEF PduRead, TypedInv

LEMMA StreamInit == Init => StreamInv
<1> SUFFICES ASSUME Init PROVE StreamInv
  OBVIOUS
<1>1. TypedInv /\ Len(script) \in Nat /\ Len(stream) = 0
  BY TypedInit, Written DEF Init, TypedInv
<1>2. PeerAt
  <2>1. CASE 1 <= Len(script)
    <3>1. script[1] \in Pdu
      BY <1>1, <2>1, Written DEF TypedInv
    <3>2. QED
      BY <2>1, <3>1, Sizes DEF Init, PeerAt
  <2>2. QED
    BY <2>1 DEF Init, PeerAt
<1>3. Contiguous
  BY <1>1 DEF Contiguous
<1>4. Flow(1) = <<1, 0>> /\ Len(dispatched) = 0
  BY <1>1 DEF Flow, Init
<1>5. QED
  BY <1>1, <1>2, <1>3, <1>4 DEF Init, StreamInv, ReaderAt, NextPdu, InSync, Reading

(* What is done with the bytes that have arrived does not depend on those  *)
(* that arrive later.                                                      *)
LEMMA StreamArrive == StreamInv /\ Arrive => StreamInv'
<1> SUFFICES ASSUME StreamInv, Arrive PROVE StreamInv'
  OBVIOUS
<1>1. TypedInv' /\ Contiguous' /\ Flow(1)' = Flow(1)
  BY TypedArrive, ArriveContiguous DEF StreamInv
<1>2. PICK c \in (off + 1)..Size(script[turn]) :
        \/ c < Size(script[turn]) /\ off' = c /\ turn' = turn
        \/ c = Size(script[turn]) /\ off' = 0 /\ turn' = turn + 1
  BY DEF Arrive
<1>3. /\ turn \in 1..Len(script) /\ turn <= Len(script)
      /\ UNCHANGED <<script, open, pc, buf, want, got, total, dispatched, lost>>
      /\ turn \in Nat /\ Len(script) \in Nat
  BY Written DEF Arrive, StreamInv, TypedInv, TypeOK
<1>4. PeerAt'
  <2>1. CASE turn' = turn
    BY <1>2, <1>3, <2>1 DEF PeerAt
  <2>2. CASE turn' = turn + 1 /\ off' = 0 /\ turn' <= Len(script)
    <3>1. script[turn'] \in Pdu
      BY <1>3, <2>2, Written DEF StreamInv, TypedInv
    <3>2. QED
      BY <1>3, <2>2, <3>1, Sizes DEF PeerAt
  <2>3. QED
    BY <1>2, <1>3, <2>1, <2>2 DEF PeerAt
<1>5. ReaderAt'
  <2>1. \A n : Taken(n) => Taken(n)'
    BY <1>1, <1>3 DEF Taken, Place, PduRead
  <2>2. QED
    BY <1>3, <2>1 DEF StreamInv, ReaderAt, PduRead, HeaderSize
<1>6. NextPdu'
  BY <1>1, <1>3 DEF StreamInv, NextPdu, PduRead
<1>7. InSync'
  BY <1>3 DEF StreamInv, InSync, Wire
<1>8. (pc \in Reading => script[PduRead].op # "BAD")'
  BY <1>3 DEF StreamInv, PduRead
<1>9. QED
  BY <1>1, <1>4, <1>5, <1>6, <1>7, <1>8 DEF StreamInv

LEMMA StreamClose == StreamInv /\ Close => StreamInv'
<1> SUFFICES ASSUME StreamInv, Close PROVE StreamInv'
  OBVIOUS
<1>1. TypedInv'
  BY DEF Close, StreamInv, TypedInv, TypeOK, Reading, Byte
<1>2. UNCHANGED <<script, turn, off, stream, pc, buf, want, got, total, dispatched, lost>>
  BY DEF Close
<1>3. PeerAt' /\ Contiguous'
  BY <1>2 DEF StreamInv, PeerAt, Contiguous, Flow, Place
<1>4. Flow(1)' = Flow(1) /\ PduRead' = PduRead
  BY <1>2 DEF Flow, PduRead
<1>5. ReaderAt'
  <2>1. \A n : Taken(n)' = Taken(n)
    BY <1>2, <1>4 DEF Taken, Place
  <2>2. QED
    BY <1>2, <1>4, <2>1 DEF StreamInv, ReaderAt, HeaderSize
<1>6. NextPdu' /\ InSync'
  BY <1>2, <1>4 DEF StreamInv, NextPdu, InSync, Wire
<1>7. QED
  BY <1>1, <1>2, <1>3, <1>4, <1>5, <1>6 DEF StreamInv

(* A step that leaves the connection and what was handled alone.           *)
LEMMA StreamEOF == StreamInv /\ ReadEOF => StreamInv'
<1> SUFFICES ASSUME StreamInv, ReadEOF PROVE StreamInv'
  OBVIOUS
<1>1. TypedInv'
  BY TypedStep DEF StreamInv, Next, Reader
<1>2. UNCHANGED <<script, turn, off, open, stream, dispatched, lost>> /\ pc' = "ended"
  BY DEF ReadEOF, peer
<1>3. PeerAt' /\ Contiguous' /\ InSync'
  BY <1>2 DEF StreamInv, PeerAt, Contiguous, Flow, Place, InSync, Wire
<1>4. QED
  BY <1>1, <1>2, <1>3 DEF StreamInv, ReaderAt, NextPdu, Reading

LEMMA StreamReadOp == StreamInv /\ ReadOp => StreamInv'
<1> SUFFICES ASSUME StreamInv, ReadOp PROVE StreamInv'
  OBVIOUS
<1>1. TypedInv'
  BY TypedReadOp DEF StreamInv
<1>2. /\ pc = "op" /\ stream # <<>> /\ OpOf(stream[1]) # "BAD" /\ stream' = Tail(stream)
      /\ buf' = [i \in {0} |-> stream[1]] /\ got' = 1
      /\ want' = HeaderLeft(OpOf(stream[1])) /\ pc' = "header"
      /\ UNCHANGED <<script, turn, off, open, total, dispatched, lost>>
  BY DEF ReadOp, peer
<1>3. stream \in Seq(Byte) /\ 1 \in 1..Len(stream) /\ Len(stream) \in Nat
  BY <1>2, EmptySeq, LenProperties DEF StreamInv, TypedInv, TypeOK
<1>4. PICK k \in 1..Len(script) : stream[1] = <<k, 0>> /\ stream[1][1] = k
  <2>1. stream[1] \in (1..Len(script)) \X Nat
    BY <1>3, ElementOfSeq DEF Byte
  <2>2. stream[1][2] = 0
    BY <1>2 DEF OpOf
  <2>3. QED
    BY <2>1, <2>2
<1>5. script[k] \in Pdu /\ OpOf(stream[1]) = script[k].op
  BY <1>3, <1>4, Written DEF OpOf, StreamInv, TypedInv
<1>6. PduRead' = k
  BY <1>2, <1>4 DEF PduRead
<1>7. Contiguous' /\ Flow(1)' = Place(k, 1)
  <2>1. stream' = SubSeq(stream, 1 + 1, Len(stream))
    BY <1>2, <1>3, TailIsSubSeq
  <2>2. Flow(1) = <<k, 0>> /\ 0 < Size(script[k]) /\ 0 + 1 <= Size(script[k])
    BY <1>3, <1>4, <1>5, Sizes DEF Flow
  <2>3. Flow(1 + 1) = Place(k, 0 + 1)
    BY <1>3, <2>2, Ahead DEF StreamInv
  <2>4. Contiguous' /\ Flow(1)' = Flow(1 + 1)
    BY <1>2, <1>3, <2>1, Drop DEF StreamInv
  <2>5. QED
    BY <2>3, <2>4
<1>8. Taken(1)'
  BY <1>2, <1>4, <1>6, <1>7 DEF Taken, Place
<1>9. ReaderAt'
  <2>1. 1 \in 1..HeaderLeft(script[k].op)
    BY DEF HeaderLeft
  <2>2. QED
    BY <1>2, <1>5, <1>6, <1>8, <2>1 DEF ReaderAt
<1>10. NextPdu'
  <2>1. Flow(1) = <<k, 0>>
    BY <1>3, <1>4 DEF Flow
  <2>2. lost = 0 => k = Len(dispatched) + 1
    BY <1>2, <2>1 DEF StreamInv, NextPdu
  <2>3. QED
    BY <1>2, <1>6, <2>2 DEF NextPdu
<1>11. PeerAt' /\ InSync'
  BY <1>2 DEF StreamInv, PeerAt, InSync, Wire
<1>12. QED
  BY <1>1, <1>2, <1>5, <1>6, <1>7, <1>9, <1>10, <1>11 DEF StreamInv

(* Behind an unknown op code the reader may be anywhere in the stream.     *)
LEMMA StreamReadBadOp == StreamInv /\ ReadBadOp => StreamInv'
<1> SUFFICES ASSUME StreamInv, ReadBadOp PROVE StreamInv'
  OBVIOUS
<1>1. TypedInv'
  BY TypedReadBadOp DEF StreamInv
<1>2. /\ stream # <<>> /\ stream' = Tail(stream)
      /\ dispatched' = Append(dispatched, <<>>) /\ pc' \in {"op", "ended"}
      /\ lost' = (IF lost = 0 THEN Len(dispatched) + 1 ELSE lost)
      /\ UNCHANGED <<script, turn, off, open>>
  BY DEF ReadBadOp, LosesPlace, peer
<1>3. stream \in Seq(Byte) /\ 1 \in 0..Len(stream)
  BY <1>2, EmptySeq, LenProperties DEF StreamInv, TypedInv, TypeOK
<1>4. Contiguous'
  <2>1. stream' = SubSeq(stream, 1 + 1, Len(stream))
    BY <1>2, <1>3, TailIsSubSeq
  <2>2. QED
    BY <1>2, <1>3, <2>1, Drop DEF StreamInv
<1>5. PICK d \in Nat :
        /\ d = Len(dispatched) /\ DOMAIN dispatched = 1..d
        /\ Len(dispatched') = d + 1 /\ DOMAIN dispatched' = 1..(d + 1)
        /\ \A n \in 1..d : dispatched'[n] = dispatched[n]
        /\ dispatched'[d + 1] = <<>>
  <2>1. <<>> \in Seq(Byte \cup {Unset}) /\ dispatched \in Seq(Seq(Byte \cup {Unset}))
    BY EmptySeq DEF StreamInv, TypedInv, TypeOK
  <2>2. QED
    BY <1>2, <2>1, AppendProperties, LenProperties
<1>6. lost' # 0 /\ lost' <= d + 1 /\ lost' \in Nat /\ \A n \in 1..d : n < lost' => lost = 0 \/ n < lost
  BY <1>2, <1>5 DEF StreamInv, TypedInv, TypeOK
<1>7. InSync'
  <2>1. ASSUME NEW n \in 1..(d + 1), n < lost' PROVE dispatched'[n] = Wire(n)
    <3>1. n \in 1..d
      BY <1>6, <2>1
    <3>2. QED
      BY <1>5, <1>6, <2>1, <3>1 DEF StreamInv, InSync
  <2>2. \A n : Wire(n)' = Wire(n)
    BY <1>2 DEF Wire
  <2>3. QED
    BY <1>5, <1>6, <2>1, <2>2 DEF InSync
<1>8. NextPdu' /\ ReaderAt'
  BY <1>6 DEF NextPdu, ReaderAt
<1>9. PeerAt' /\ pc' \notin Reading
  BY <1>2 DEF StreamInv, PeerAt, Reading
<1>10. QED
  BY <1>1, <1>4, <1>7, <1>8, <1>9 DEF StreamInv

LEMMA StreamReadExactly == StreamInv /\ readExactly => StreamInv'
<1> SUFFICES ASSUME StreamInv, readExactly PROVE StreamInv'
  OBVIOUS
<1>1. TypedInv'
  BY TypedReadExactly DEF StreamInv
<1>2. /\ pc \in {"header", "body"} /\ pc \in Reading /\ stream \in Seq(Byte)
      /\ Len(stream) \in Nat /\ 0 \in DOMAIN buf
  BY LenProperties DEF readExactly, Reading, StreamInv, TypedInv, TypeOK
<1>3. PICK k \in 1..Len(script) : k = PduRead /\ script[k] \in Pdu
  BY <1>2, FirstByte DEF StreamInv
<1>4. PICK g \in Nat, w \in Nat : g = got /\ w = want /\ g > 0
  BY <1>2 DEF StreamInv, TypedInv, TypeOK
<1>5. PICK n \in Nat : n = (IF w <= Len(stream) THEN w ELSE Len(stream)) /\ n <= Len(stream)
  BY <1>2
<1>6. /\ stream' = SubSeq(stream, n + 1, Len(stream))
      /\ buf' = [i \in DOMAIN buf \cup g..(g + n - 1) |->
                    IF i \in g..(g + n - 1) THEN stream[i - g + 1] ELSE buf[i]]
      /\ got' = g + n
      /\ pc' = IF g + n <= w THEN pc ELSE AfterRead
      /\ lost' = lost \/ LosesPlace
      /\ lost' = 0 => lost = 0 /\ (pc' = pc \/ got' = FieldEnd)
      /\ want' = w /\ UNCHANGED <<script, turn, off, open, total, dispatched>>
  BY <1>4, <1>5 DEF readExactly, LosesPlace, peer, StreamInv, TypedInv, TypeOK
<1>7. PduRead' = k
  BY <1>2, <1>3, <1>4, <1>6 DEF PduRead
<1>8. Contiguous' /\ Flow(1)' = Flow(n + 1) /\ Len(stream)' = Len(stream) - n
  <2>1. n \in 0..Len(stream) /\ UNCHANGED <<script, turn, off>>
    BY <1>2, <1>5, <1>6
  <2>2. stream' = SubSeq(stream, n + 1, Len(stream))
    BY <1>6
  <2>3. QED
    BY <2>1, <2>2, Drop DEF StreamInv
<1>9. /\ Size(script[k]) \in Nat /\ HeaderSize(script[k]) \in Nat
      /\ lost = 0 => /\ Taken(g) /\ g <= Size(script[k])
                     /\ pc = "header" => w = HeaderLeft(script[k].op)
                     /\ pc = "body" => /\ w = BodyLeft(script[k].op, script[k].len)
                                       /\ total = Size(script[k])
                                       /\ script[k].op # "QUIT"
                                       /\ g >= HeaderSize(script[k])
  <2>1. Size(script[k]) \in Nat /\ HeaderSize(script[k]) \in Nat
    BY <1>3, Sizes
  <2>2. CASE pc = "header"
    BY <1>3, <1>4, <2>1, <2>2, Sizes DEF StreamInv, ReaderAt
  <2>3. CASE pc = "body"
    BY <1>3, <1>4, <2>1, <2>3, Sizes DEF StreamInv, ReaderAt
  <2>4. QED
    BY <1>2, <2>1, <2>2, <2>3
<1>10. ASSUME lost' = 0
       PROVE  /\ g + n <= Size(script[k])
              /\ pc' = "header" => g + n <= w
              /\ pc' = "parse" => g + n = HeaderSize(script[k])
              /\ pc' = "body" => g + n <= Size(script[k])
              /\ pc' = "dispatch" => g + n = Size(script[k])
  <2>1. CASE pc = "header"
    <3>1. w = HeaderSize(script[k]) - 1 /\ HeaderSize(script[k]) <= Size(script[k])
      BY <1>3, <1>6, <1>9, <1>10, <2>1, Sizes
    <3>2. \/ pc' = "header" /\ g + n <= w
          \/ pc' = "parse" /\ g + n = w + 1
      BY <1>4, <1>5, <1>6, <1>10, <2>1 DEF AfterRead, FieldEnd
    <3>3. QED
      BY <1>9, <3>1, <3>2
  <2>2. CASE pc = "body"
    <3>1. script[k].op \in {"JOIN", "MESS"}
      BY <1>2, <1>3, <1>6, <1>9, <1>10, <2>2 DEF StreamInv, Pdu
    <3>2. w <= Size(script[k]) /\ total = Size(script[k])
      BY <1>3, <1>6, <1>9, <1>10, <2>2, <3>1, Sizes
    <3>3. \/ pc' = "body" /\ g + n <= w
          \/ pc' = "dispatch" /\ g + n = total
      BY <1>4, <1>5, <1>6, <1>10, <2>2 DEF AfterRead, FieldEnd
    <3>4. QED
      BY <1>4, <1>5, <1>9, <3>2, <3>3
  <2>3. QED
    BY <1>2, <2>1, <2>2
<1>11. ASSUME lost' = 0 PROVE Taken(g + n)'
  <2>1. DOMAIN buf = 0..(g - 1) /\ \A i \in 0..(g - 1) : buf[i] = <<k, i>>
    BY <1>3, <1>6, <1>9, <1>11 DEF Taken
  <2>2. DOMAIN buf' = 0..((g + n) - 1)
    BY <1>4, <1>6, <2>1
  <2>3. CASE n = 0
    <3>1. \A i \in 0..((g + n) - 1) : buf'[i] = <<k, i>>
      BY <1>4, <1>6, <2>1, <2>2, <2>3
    <3>2. Flow(1)' = Place(k, g + n)
      BY <1>3, <1>6, <1>8, <1>9, <1>11, <2>3 DEF Taken
    <3>3. QED
      BY <1>6, <1>7, <2>2, <3>1, <3>2 DEF Taken, Place
  <2>4. CASE n > 0
    <3>1. g < Size(script[k]) /\ g + n <= Size(script[k]) /\ n \in 0..Len(stream)
      BY <1>2, <1>4, <1>5, <1>9, <1>10, <1>11, <2>4
    <3>2. Flow(1) = <<k, g>>
      BY <1>3, <1>6, <1>9, <1>11, <3>1 DEF Taken, Place
    <3>3. /\ Flow(n + 1) = Place(k, g + n)
          /\ \A j \in 1..n : stream[j] = <<k, g + j - 1>>
      BY <3>1, <3>2, Ahead DEF StreamInv
    <3>4. ASSUME NEW i \in 0..((g + n) - 1) PROVE buf'[i] = <<k, i>>
      <4>1. CASE i < g
        BY <1>6, <2>1, <2>2, <4>1
      <4>2. CASE i >= g
        <5>1. (i - g) + 1 \in 1..n /\ g + ((i - g) + 1) - 1 = i
          BY <4>2
        <5>2. buf'[i] = stream[(i - g) + 1]
          BY <1>6, <2>2, <4>2
        <5>3. QED
          BY <3>3, <5>1, <5>2
      <4>3. QED
        BY <4>1, <4>2
    <3>5. QED
      BY <1>6, <1>7, <1>8, <2>2, <3>3, <3>4 DEF Taken, Place
  <2>5. QED
    BY <2>3, <2>4
<1>12. pc' \in Reading /\ pc' # "op"
  BY <1>2, <1>6 DEF AfterRead, Reading
<1>13. ReaderAt'
  <2> SUFFICES ASSUME lost' = 0 PROVE ReaderAt'
    BY DEF ReaderAt
  <2>1. lost = 0 /\ Taken(got)' /\ got' = g + n /\ g + n \in Nat /\ g + n > 0
    BY <1>4, <1>5, <1>6, <1>11
  <2>2. CASE pc = "header"
    <3>1. want' = HeaderLeft(script[k].op) /\ pc' \in {"header", "parse"}
      BY <1>6, <1>9, <2>1, <2>2 DEF AfterRead
    <3>2. pc' = "header" => got' \in 1..want'
      BY <1>4, <1>6, <1>10, <2>1
    <3>3. pc' = "parse" => got' = HeaderSize(script[k])
      BY <1>10, <2>1
    <3>4. QED
      BY <1>6, <1>7, <2>1, <3>1, <3>2, <3>3 DEF ReaderAt, HeaderSize
  <2>3. CASE pc = "body"
    <3>1. /\ want' = BodyLeft(script[k].op, script[k].len) /\ total' = Size(script[k])
          /\ script[k].op # "QUIT" /\ pc' \in {"body", "dispatch"}
      BY <1>6, <1>9, <2>1, <2>3 DEF AfterRead
    <3>2. pc' = "body" => got' \in HeaderSize(script[k])..total'
      BY <1>4, <1>5, <1>9, <1>10, <2>1, <2>3, <3>1
    <3>3. pc' = "dispatch" => got' = total'
      BY <1>10, <2>1, <3>1
    <3>4. QED
      BY <1>6, <1>7, <2>1, <3>1, <3>2, <3>3 DEF ReaderAt, HeaderSize
  <2>4. QED
    BY <1>2, <2>2, <2>3
<1>14. \A m \in DOMAIN dispatched : lost' = 0 \/ m < lost' => lost = 0 \/ m < lost
  <2>1. \A m \in DOMAIN dispatched : m \in Nat
    BY LenProperties DEF StreamInv, TypedInv, TypeOK
  <2>2. QED
    BY <1>6, <2>1 DEF LosesPlace
<1>15. PeerAt' /\ NextPdu' /\ InSync' /\ (script[PduRead].op # "BAD")'
  BY <1>2, <1>3, <1>6, <1>7, <1>12, <1>14 DEF StreamInv, PeerAt, NextPdu, InSync, Wire
<1>16. QED
  BY <1>1, <1>8, <1>13, <1>15 DEF StreamInv

LEMMA StreamHandleByteStream == StreamInv /\ handleByteStream => StreamInv'
<1> SUFFICES ASSUME StreamInv, handleByteStream PROVE StreamInv'
  OBVIOUS
<1>1. TypedInv'
  BY TypedHandleByteStream DEF StreamInv
<1>2. /\ pc = "parse" /\ pc \in Reading
      /\ UNCHANGED <<script, turn, off, open, stream, buf, dispatched, lost>>
  BY DEF handleByteStream, peer, Reading
<1>3. PICK k \in 1..Len(script) : k = PduRead /\ script[k] \in Pdu
  BY <1>2, FirstByte DEF StreamInv
<1>4. /\ lost = 0 => /\ want = HeaderLeft(script[k].op) /\ got = HeaderSize(script[k])
                     /\ Taken(HeaderSize(script[k]))
      /\ script[k].op # "BAD"
  BY <1>2, <1>3 DEF StreamInv, ReaderAt
<1>5. \/ /\ script[k].op = "QUIT" /\ total' = 4 /\ pc' = "dispatch" /\ got' = got /\ want' = want
      \/ /\ script[k].op # "QUIT" /\ got' = HeaderLeft(script[k].op) + 1
         /\ want' = BodyLeft(script[k].op, script[k].len)
         /\ total' = want' + got' /\ pc' = "body"
  BY <1>3 DEF handleByteStream, PduRead
<1>6. PduRead' = k /\ \A n : Taken(n) => Taken(n)'
  BY <1>2, <1>3 DEF PduRead, Taken, Flow, Place
<1>7. ReaderAt'
  <2> SUFFICES ASSUME lost = 0 PROVE ReaderAt'
    BY <1>2 DEF ReaderAt
  <2>1. CASE script[k].op = "QUIT"
    <3>1. pc' = "dispatch" /\ total' = Size(script[k]) /\ total' = HeaderSize(script[k])
      BY <1>3, <1>4, <1>5, <2>1, Sizes
    <3>2. QED
      BY <1>2, <1>4, <1>6, <3>1 DEF ReaderAt, HeaderSize
  <2>2. CASE script[k].op # "QUIT"
    <3>1. script[k].op \in {"JOIN", "MESS"}
      BY <1>3, <1>4, <2>2 DEF Pdu
    <3>2. /\ pc' = "body" /\ total' = Size(script[k]) /\ got' = HeaderSize(script[k])
          /\ want' = BodyLeft(script[k].op, script[k].len)
          /\ got' \in HeaderSize(script[k])..total'
      BY <1>3, <1>5, <2>2, <3>1, Sizes DEF HeaderSize
    <3>3. QED
      BY <1>2, <1>4, <1>6, <2>2, <3>2 DEF ReaderAt, HeaderSize
  <2>3. QED
    BY <2>1, <2>2
<1>8. pc' \in Reading /\ pc' # "op"
  BY <1>5 DEF Reading
<1>9. PeerAt' /\ Contiguous' /\ InSync'
  BY <1>2 DEF StreamInv, PeerAt, Contiguous, Flow, Place, InSync, Wire
<1>10. NextPdu' /\ (script[PduRead].op # "BAD")'
  BY <1>2, <1>3, <1>6, <1>8 DEF StreamInv, NextPdu
<1>11. QED
  BY <1>1, <1>7, <1>9, <1>10 DEF StreamInv

(* The handlers are given the PDU, unless the place was lost.              *)
LEMMA StreamHandleMessage == StreamInv /\ handleMessage => StreamInv'
<1> SUFFICES ASSUME StreamInv, handleMessage PROVE StreamInv'
  OBVIOUS
<1>1. TypedInv'
  BY TypedHandleMessage DEF StreamInv
<1>2. /\ pc = "dispatch" /\ pc \in Reading /\ pc' \in {"op", "ended"}
      /\ dispatched' = Append(dispatched, [i \in 1..total |-> At(i - 1)])
      /\ UNCHANGED <<script, turn, off, open, stream, lost>>
  BY DEF handleMessage, peer, Reading
<1>3. PICK k \in 1..Len(script) : k = PduRead /\ script[k] \in Pdu
  BY <1>2, FirstByte DEF StreamInv
<1>4. /\ total \in Nat
      /\ lost = 0 => total = Size(script[k]) /\ total > 0 /\ Taken(total)
  <2>1. Size(script[k]) \in Nat /\ Size(script[k]) > 0
    BY <1>3, Sizes
  <2>2. total \in Nat
    BY DEF StreamInv, TypedInv, TypeOK
  <2>3. lost = 0 => total = Size(script[k]) /\ Taken(total)
    BY <1>2, <1>3 DEF StreamInv, ReaderAt
  <2>4. QED
    BY <2>1, <2>2, <2>3
<1> DEFINE given == [i \in 1..total |-> At(i - 1)]
<1>5. PICK d \in Nat :
        /\ d = Len(dispatched) /\ DOMAIN dispatched = 1..d
        /\ Len(dispatched') = d + 1 /\ DOMAIN dispatched' = 1..(d + 1)
        /\ \A n \in 1..d : dispatched'[n] = dispatched[n]
        /\ dispatched'[d + 1] = given
  <2>1. \A i \in 1..total : given[i] \in Byte \cup {Unset}
    BY DEF At, StreamInv, TypedInv, TypeOK
  <2>2. given \in Seq(Byte \cup {Unset}) /\ dispatched \in Seq(Seq(Byte \cup {Unset}))
    <3>1. given \in [1..total -> Byte \cup {Unset}]
      BY <2>1
    <3> HIDE DEF given
    <3>2. given \in Seq(Byte \cup {Unset})
      BY <1>4, <3>1
    <3>3. QED
      BY <3>2 DEF StreamInv, TypedInv, TypeOK
  <2> HIDE DEF given
  <2>3. dispatched' = Append(dispatched, given)
    BY <1>2 DEF given
  <2>4. DOMAIN dispatched = 1..Len(dispatched) /\ Len(dispatched) \in Nat
    BY <2>2, LenProperties
  <2>5. /\ dispatched' \in Seq(Seq(Byte \cup {Unset})) /\ Len(dispatched') = Len(dispatched) + 1
        /\ \A n \in 1..Len(dispatched) : dispatched'[n] = dispatched[n]
        /\ dispatched'[Len(dispatched) + 1] = given
    BY <2>2, <2>3, AppendProperties
  <2>6. DOMAIN dispatched' = 1..(Len(dispatched) + 1)
    BY <2>5, LenProperties
  <2>7. QED
    BY <2>4, <2>5, <2>6
<1>6. lost = 0 => k = d + 1
  BY <1>2, <1>3, <1>5 DEF StreamInv, NextPdu
<1>7. ASSUME lost = 0 PROVE given = Wire(k) /\ Flow(1) = <<k + 1, 0>>
  <2>1. \A i \in 0..(total - 1) : i \in DOMAIN buf /\ buf[i] = <<k, i>>
    BY <1>3, <1>4, <1>7 DEF Taken
  <2>2. \A i \in 1..total : At(i - 1) = <<k, i - 1>>
    BY <1>4, <2>1 DEF At
  <2>3. given = Wire(k)
    BY <1>4, <1>7, <2>2 DEF Wire
  <2>4. Flow(1) = <<k + 1, 0>>
    BY <1>3, <1>4, <1>7 DEF Taken, Place
  <2>5. QED
    BY <2>3, <2>4
<1>8. InSync'
  <2>1. ASSUME NEW n \in 1..(d + 1), lost = 0 \/ n < lost PROVE dispatched'[n] = Wire(n)
    <3>1. CASE n \in 1..d
      BY <1>5, <2>1, <3>1 DEF StreamInv, InSync
    <3>2. CASE n = d + 1
      <4>1. lost = 0
        BY <1>5, <2>1, <3>2 DEF StreamInv, TypedInv, TypeOK
      <4> HIDE DEF given
      <4>2. QED
        BY <1>5, <1>6, <1>7, <3>2, <4>1
    <3>3. QED
      BY <3>1, <3>2
  <2>2. \A n : Wire(n)' = Wire(n)
    BY <1>2 DEF Wire
  <2>3. QED
    BY <1>2, <1>5, <2>1, <2>2 DEF InSync
<1>9. NextPdu'
  <2>1. lost = 0 => Flow(1) = <<(d + 1) + 1, 0>>
    BY <1>6, <1>7
  <2>2. Flow(1)' = Flow(1)
    BY <1>2 DEF Flow
  <2>3. QED
    BY <1>2, <1>5, <2>1, <2>2 DEF NextPdu, Reading
<1>10. PeerAt' /\ Contiguous' /\ ReaderAt' /\ pc' \notin Reading
  BY <1>2 DEF StreamInv, PeerAt, Contiguous, Flow, Place, ReaderAt, Reading
<1>11. QED
  BY <1>1, <1>8, <1>9, <1>10 DEF StreamInv

LEMMA StreamStep == StreamInv /\ [Next]_vars => StreamInv'
<1> SUFFICES ASSUME StreamInv, [Next]_vars PROVE StreamInv'
  OBVIOUS
<1>1. CASE UNCHANGED vars
  <2>1. TypedInv'
    BY <1>1, TypedStep DEF StreamInv
  <2>2. PeerAt' /\ Contiguous' /\ ReaderAt' /\ NextPdu' /\ InSync'
    BY <1>1 DEF vars, peer, StreamInv, PeerAt, Contiguous, Flow, Place, ReaderAt, Taken,
                NextPdu, InSync, Wire, PduRead, HeaderSize
  <2>3. QED
    BY <1>1, <2>1, <2>2 DEF vars, peer, StreamInv, PduRead
<1>2. QED
  BY <1>1, StreamArrive, StreamClose, StreamEOF, StreamReadOp, StreamReadBadOp,
     StreamReadExactly, StreamHandleByteStream, StreamHandleMessage
  DEF Next, Reader, Ended

(* handleByteStream, StreamReader.InSync: however the bytes arrive, the    *)
(* handlers get the PDUs the peer wrote, each complete, in order, none     *)
(* skipped, whatever the PDUs and their lengths, until a call of           *)
(* readExactly returns more or fewer bytes than the PDU has there, or an   *)
(* op code is unknown.                                                     *)
THEOREM ReadsInSync == Spec => []InSync
<1>1. StreamInv => InSync
  BY DEF StreamInv
<1>2. QED
  BY StreamInit, StreamStep, <1>1, PTL DEF Spec
=============================================================================
