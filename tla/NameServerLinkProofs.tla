------------------------ MODULE NameServerLinkProofs ------------------------
(***************************************************************************)
(* The thread that keeps the server registered falls no further behind     *)
(* the answers of the name server than stray answers put it, for every     *)
(* number of things that go wrong.                                         *)
(***************************************************************************)
EXTENDS NameServerLink, SequenceTheorems, TLAPS

(* An ACK is for an id that has been given; while there is no stray, all   *)
(* that is on its way belongs to the last request.                         *)
FineRequest == {r \in Request : strays = 0 => r.ours}

FineAnswer == {a \in Answer : (a.op = "ACK" => a.id \in 1..given) /\ (strays = 0 => a.ours)}

Counters ==
  /\ given \in Nat /\ known \subseteq 1..given
  /\ trouble \in Nat /\ trouble <= MaxTrouble /\ strays \in Nat /\ strays <= trouble

Place ==
  /\ pc \in {"REG", "waitREG", "ALIVE", "waitALIVE"}
  /\ idNum \in 0..given
  /\ pc \in {"ALIVE", "waitALIVE"} => idNum # 0

Datagrams ==
  /\ requests \in Seq(FineRequest) /\ answers \in Seq(FineAnswer) /\ socket \in Seq(FineAnswer)

Behind == InTransit <= strays + (IF Waiting THEN 1 ELSE 0)

LinkInv == Counters /\ Place /\ Datagrams /\ Behind

(***************************************************************************)
(* The sequences of datagrams.                                             *)
(***************************************************************************)
LEMMA WithoutSeq ==
  ASSUME NEW S, NEW s \in Seq(S), NEW i \in DOMAIN s
  PROVE  Without(s, i) \in Seq(S) /\ Len(Without(s, i)) = Len(s) - 1
<1>1. Len(s) \in Nat /\ i \in 1..Len(s) /\ \A j \in 1..Len(s) : s[j] \in S
  BY LenProperties, ElementOfSeq
<1>2. SubSeq(s, 1, i - 1) \in Seq(S) /\ Len(SubSeq(s, 1, i - 1)) = i - 1
  <2>1. i - 1 \in Int /\ \A j \in 1..(i - 1) : s[j] \in S
    BY <1>1
  <2>2. /\ SubSeq(s, 1, i - 1) \in Seq(S)
        /\ Len(SubSeq(s, 1, i - 1)) = IF 1 <= i - 1 THEN i - 1 - 1 + 1 ELSE 0
    BY <2>1, SubSeqProperties
  <2>3. QED
    BY <1>1, <2>2
<1>3. SubSeq(s, i + 1, Len(s)) \in Seq(S) /\ Len(SubSeq(s, i + 1, Len(s))) = Len(s) - i
  <2>1. \A j \in (i + 1)..Len(s) : s[j] \in S
    BY <1>1
  <2>2. i + 1 \in Int /\ Len(s) \in Int
    BY <1>1
  <2>3. /\ SubSeq(s, i + 1, Len(s)) \in Seq(S)
        /\ Len(SubSeq(s, i + 1, Len(s))) =
             IF i + 1 <= Len(s) THEN Len(s) - (i + 1) + 1 ELSE 0
    BY <2>1, <2>2, SubSeqProperties, Zenon
  <2>4. QED
    BY <1>1, <2>3
<1>4. /\ Without(s, i) \in Seq(S)
      /\ Len(Without(s, i)) = Len(SubSeq(s, 1, i - 1)) + Len(SubSeq(s, i + 1, Len(s)))
  BY <1>2, <1>3, ConcatProperties, Zenon DEF Without
<1>5. Len(Without(s, i)) = (i - 1) + (Len(s) - i)
  BY <1>2, <1>3, <1>4, Zenon
<1>6. (i - 1) + (Len(s) - i) = Len(s) - 1
  BY <1>1
<1>7. QED
  BY <1>4, <1>5, <1>6, Zenon

LEMMA AppendSeq ==
  ASSUME NEW S, NEW s \in Seq(S), NEW e \in S
  PROVE  Append(s, e) \in Seq(S) /\ Len(Append(s, e)) = Len(s) + 1
OBVIOUS

(* Ageing changes nothing but the mark.                                    *)
LEMMA AgedRequests ==
  ASSUME NEW s \in Seq(FineRequest), strays = 0 => s = <<>>
  PROVE  Aged(s) \in Seq(FineRequest) /\ Len(Aged(s)) = Len(s)
<1>1. \A i \in 1..Len(s) : s[i] \in FineRequest /\ strays # 0
  BY ElementOfSeq
<1>2. \A i \in 1..Len(s) : [s[i] EXCEPT !.ours = FALSE] \in FineRequest
  BY <1>1 DEF FineRequest, Request
<1>3. DOMAIN s = 1..Len(s) /\ Len(s) \in Nat
  BY LenProperties
<1>4. Aged(s) = [i \in 1..Len(s) |-> [s[i] EXCEPT !.ours = FALSE]]
  BY <1>3 DEF Aged
<1>5. QED
  BY <1>2, <1>3, <1>4

LEMMA AgedAnswers ==
  ASSUME NEW s \in Seq(FineAnswer), strays = 0 => s = <<>>
  PROVE  Aged(s) \in Seq(FineAnswer) /\ Len(Aged(s)) = Len(s)
<1>1. \A i \in 1..Len(s) : s[i] \in FineAnswer /\ strays # 0
  BY ElementOfSeq
<1>2. \A i \in 1..Len(s) : [s[i] EXCEPT !.ours = FALSE] \in FineAnswer
  BY <1>1 DEF FineAnswer, Answer
<1>3. DOMAIN s = 1..Len(s) /\ Len(s) \in Nat
  BY LenProperties
<1>4. Aged(s) = [i \in 1..Len(s) |-> [s[i] EXCEPT !.ours = FALSE]]
  BY <1>3 DEF Aged
<1>5. QED
  BY <1>2, <1>3, <1>4

LEMMA TakesFirst ==
  ASSUME Datagrams, Takes
  PROVE  /\ Head(socket) \in FineAnswer /\ socket' \in Seq(FineAnswer)
         /\ Len(socket') = Len(socket) - 1 /\ Len(socket) \in Nat
BY HeadTailProperties DEF Datagrams, Takes

LEMMA Lengths ==
  ASSUME Datagrams
  PROVE  Len(requests) \in Nat /\ Len(answers) \in Nat /\ Len(socket) \in Nat
BY DEF Datagrams

(* What was fine stays so when ids are given or answers go astray.         *)
LEMMA StillFine ==
  ASSUME Counters, Datagrams, given' \in Nat, given <= given', strays' \in Nat, strays <= strays'
  PROVE  /\ FineRequest \subseteq FineRequest' /\ FineAnswer \subseteq FineAnswer'
         /\ requests \in Seq(FineRequest') /\ answers \in Seq(FineAnswer')
         /\ socket \in Seq(FineAnswer')
<1>1. FineRequest \subseteq FineRequest'
  BY DEF FineRequest, Counters, Request
<1>2. FineAnswer \subseteq FineAnswer'
  BY DEF FineAnswer, Counters, Answer
<1>3. QED
  BY <1>1, <1>2, SeqMonotonic, Zenon DEF Datagrams

(***************************************************************************)
(* The steps.                                                              *)
(***************************************************************************)
LEMMA SendStep ==
  ASSUME LinkInv, NEW op \in {"REG", "ALIVE"}, Sends(op)
  PROVE  LinkInv'
<1>1. UNCHANGED <<idNum, known, given, trouble, strays>> /\ ~Waiting /\ Waiting'
  BY DEF Sends, Waiting
<1>2. Counters' /\ Place'
  BY <1>1 DEF LinkInv, Counters, Place, Sends
<1>3. FineRequest' = FineRequest /\ FineAnswer' = FineAnswer
  BY <1>1 DEF FineRequest, FineAnswer
<1>4. strays = 0 => requests = <<>> /\ answers = <<>> /\ socket = <<>>
  <2>1. strays = 0 => Len(requests) = 0 /\ Len(answers) = 0 /\ Len(socket) = 0
    BY <1>1, Lengths DEF LinkInv, Behind, InTransit
  <2>2. QED
    BY <2>1, EmptySeq DEF LinkInv, Datagrams
<1>5. /\ Aged(requests) \in Seq(FineRequest) /\ Len(Aged(requests)) = Len(requests)
      /\ Aged(answers) \in Seq(FineAnswer) /\ Len(Aged(answers)) = Len(answers)
      /\ Aged(socket) \in Seq(FineAnswer) /\ Len(Aged(socket)) = Len(socket)
  BY <1>4, AgedRequests, AgedAnswers DEF LinkInv, Datagrams
<1>6. [op |-> op, id |-> idNum, ours |-> TRUE] \in FineRequest
  BY DEF FineRequest, Request, LinkInv, Counters, Place
<1>7. /\ requests' \in Seq(FineRequest) /\ Len(requests') = Len(requests) + 1
  BY <1>5, <1>6, AppendSeq DEF Sends
<1>8. Datagrams'
  BY <1>3, <1>5, <1>7 DEF Sends, Datagrams
<1>9. Behind'
  BY <1>1, <1>5, <1>7, Lengths DEF LinkInv, Behind, InTransit, Sends, Counters
<1>10. QED
  BY <1>2, <1>8, <1>9 DEF LinkInv

(* register_Server and server_Alive, once an answer is there.              *)
LEMMA ReadStep ==
  ASSUME LinkInv, Takes, Waiting,
         UNCHANGED <<requests, answers, known, given, trouble, strays>>, Place', ~Waiting'
  PROVE  LinkInv'
<1>1. Counters'
  BY DEF LinkInv, Counters
<1>2. FineRequest' = FineRequest /\ FineAnswer' = FineAnswer
  BY DEF FineRequest, FineAnswer
<1>3. Datagrams'
  BY <1>2, TakesFirst DEF LinkInv, Datagrams
<1>4. Behind'
  BY TakesFirst, Lengths DEF LinkInv, Behind, InTransit, Counters
<1>5. QED
  BY <1>1, <1>3, <1>4 DEF LinkInv

LEMMA RegisterStep == LinkInv /\ register_Server => LinkInv'
<1> SUFFICES ASSUME LinkInv, register_Server PROVE LinkInv'
  OBVIOUS
<1>1. Head(socket) \in FineAnswer
  BY TakesFirst DEF LinkInv, register_Server
<1>2. Place' /\ Waiting /\ ~Waiting'
  <2>1. CASE Head(socket).op = "ACK" /\ idNum' = Head(socket).id /\ pc' = "ALIVE"
    BY <1>1, <2>1 DEF LinkInv, Counters, Place, FineAnswer, Waiting, register_Server
  <2>2. CASE pc' = "REG" /\ UNCHANGED idNum
    BY <2>2 DEF LinkInv, Place, Waiting, register_Server
  <2>3. QED
    BY <2>1, <2>2 DEF register_Server
<1>3. QED
  BY <1>2, ReadStep DEF register_Server

LEMMA AliveStep == LinkInv /\ server_Alive => LinkInv'
<1> SUFFICES ASSUME LinkInv, server_Alive PROVE LinkInv'
  OBVIOUS
<1>1. Place' /\ Waiting /\ ~Waiting'
  BY DEF LinkInv, Place, Waiting, server_Alive
<1>2. QED
  BY <1>1, ReadStep DEF server_Alive

LEMMA TimeOutStep == LinkInv /\ TimesOut => LinkInv'
<1> SUFFICES ASSUME LinkInv, TimesOut PROVE LinkInv'
  OBVIOUS
<1>1. Counters' /\ strays' \in Nat /\ strays <= strays'
  BY LinkAssumption DEF LinkInv, Counters, TimesOut
<1>2. Place' /\ Waiting /\ ~Waiting'
  BY DEF LinkInv, Place, TimesOut, Waiting
<1>3. given' \in Nat /\ given <= given'
  BY DEF LinkInv, Counters, TimesOut
<1>4. Datagrams'
  BY <1>1, <1>3, StillFine DEF LinkInv, Datagrams, TimesOut
<1>5. Behind'
  BY <1>2, Lengths DEF LinkInv, Behind, InTransit, TimesOut, Counters
<1>6. QED
  BY <1>1, <1>2, <1>4, <1>5 DEF LinkInv

LEMMA NameServerStep == LinkInv /\ NameServer => LinkInv'
<1> SUFFICES ASSUME LinkInv, NameServer PROVE LinkInv'
  OBVIOUS
<1>1. PICK i \in DOMAIN requests :
        Answers(requests[i]) /\ requests' = Without(requests, i)
        /\ UNCHANGED <<pc, idNum, socket, trouble, strays>>
  BY DEF NameServer
<1>2. requests[i] \in FineRequest
  BY <1>1, ElementOfSeq DEF LinkInv, Datagrams
<1>3. Counters' /\ Place' /\ given' \in Nat /\ given <= given'
  <2>1. given' \in {given, given + 1} /\ known' \subseteq known \cup {given'}
        /\ (given' = given => known' = known)
    BY <1>1 DEF Answers, LinkInv, Counters
  <2>2. QED
    BY <1>1, <2>1 DEF LinkInv, Counters, Place
<1>4. /\ FineRequest \subseteq FineRequest' /\ FineAnswer \subseteq FineAnswer'
      /\ requests \in Seq(FineRequest') /\ answers \in Seq(FineAnswer') /\ socket \in Seq(FineAnswer')
  BY <1>1, <1>3, StillFine DEF LinkInv, Counters
<1>5. PICK a \in FineAnswer' : answers' = Append(answers, a)
  <2>1. CASE requests[i].op = "REG"
    BY <1>1, <1>2, <1>3, <2>1 DEF Answers, FineAnswer, FineRequest, Answer, Request, LinkInv, Counters
  <2>2. CASE requests[i].op = "ALIVE"
    BY <1>1, <1>2, <1>3, <2>2 DEF Answers, FineAnswer, FineRequest, Answer, Request, LinkInv, Counters
  <2>3. QED
    BY <1>2, <2>1, <2>2 DEF FineRequest, Request
<1>6. answers' \in Seq(FineAnswer') /\ Len(answers') = Len(answers) + 1
  BY <1>4, <1>5, AppendSeq
<1>7. requests' \in Seq(FineRequest') /\ Len(requests') = Len(requests) - 1
  BY <1>1, <1>4, WithoutSeq
<1>8. Datagrams'
  BY <1>1, <1>4, <1>6, <1>7 DEF Datagrams
<1>9. Behind'
  BY <1>1, <1>6, <1>7, Lengths DEF LinkInv, Behind, InTransit, Waiting, Counters
<1>10. QED
  BY <1>3, <1>8, <1>9 DEF LinkInv

LEMMA ArriveStep == LinkInv /\ Arrives => LinkInv'
<1> SUFFICES ASSUME LinkInv, Arrives PROVE LinkInv'
  OBVIOUS
<1>1. PICK i \in DOMAIN answers :
        socket' = Append(socket, answers[i]) /\ answers' = Without(answers, i)
        /\ UNCHANGED <<pc, idNum, requests, known, given, trouble, strays>>
  BY DEF Arrives
<1>2. Counters' /\ Place' /\ FineRequest' = FineRequest /\ FineAnswer' = FineAnswer
  BY <1>1 DEF LinkInv, Counters, Place, FineRequest, FineAnswer
<1>3. answers[i] \in FineAnswer
  BY <1>1, ElementOfSeq DEF LinkInv, Datagrams
<1>4. /\ socket' \in Seq(FineAnswer) /\ Len(socket') = Len(socket) + 1
      /\ answers' \in Seq(FineAnswer) /\ Len(answers') = Len(answers) - 1
  BY <1>1, <1>3, AppendSeq, WithoutSeq DEF LinkInv, Datagrams
<1>5. Datagrams'
  BY <1>1, <1>2, <1>4 DEF LinkInv, Datagrams
<1>6. Behind'
  BY <1>1, <1>4, Lengths DEF LinkInv, Behind, InTransit, Waiting, Counters
<1>7. QED
  BY <1>2, <1>5, <1>6 DEF LinkInv

LEMMA LostStep == LinkInv /\ Lost => LinkInv'
<1> SUFFICES ASSUME LinkInv, Lost PROVE LinkInv'
  OBVIOUS
<1>1. UNCHANGED <<pc, idNum, socket, known, given, strays>> /\ trouble' = trouble + 1
      /\ trouble < MaxTrouble
  BY DEF Lost, Trouble
<1>2. Counters' /\ Place' /\ FineRequest' = FineRequest /\ FineAnswer' = FineAnswer
  BY <1>1, LinkAssumption DEF LinkInv, Counters, Place, FineRequest, FineAnswer
<1>3. CASE \E i \in DOMAIN requests : requests' = Without(requests, i) /\ UNCHANGED answers
  <2>1. requests' \in Seq(FineRequest) /\ Len(requests') = Len(requests) - 1
    BY <1>3, WithoutSeq DEF LinkInv, Datagrams
  <2>2. Behind'
    BY <1>1, <1>3, <2>1, Lengths DEF LinkInv, Behind, InTransit, Waiting, Counters
  <2>3. QED
    BY <1>1, <1>2, <1>3, <2>1, <2>2 DEF LinkInv, Datagrams
<1>4. CASE \E i \in DOMAIN answers : answers' = Without(answers, i) /\ UNCHANGED requests
  <2>1. answers' \in Seq(FineAnswer) /\ Len(answers') = Len(answers) - 1
    BY <1>4, WithoutSeq DEF LinkInv, Datagrams
  <2>2. Behind'
    BY <1>1, <1>4, <2>1, Lengths DEF LinkInv, Behind, InTransit, Waiting, Counters
  <2>3. QED
    BY <1>1, <1>2, <1>4, <2>1, <2>2 DEF LinkInv, Datagrams
<1>5. QED
  BY <1>3, <1>4 DEF Lost

LEMMA CopyStep == LinkInv /\ Copied => LinkInv'
<1> SUFFICES ASSUME LinkInv, Copied PROVE LinkInv'
  OBVIOUS
<1>1. /\ UNCHANGED <<pc, idNum, socket, known, given>>
      /\ trouble' = trouble + 1 /\ strays' = strays + 1 /\ trouble < MaxTrouble
  BY DEF Copied, Trouble
<1>2. Counters' /\ Place'
  BY <1>1, LinkAssumption DEF LinkInv, Counters, Place
<1>3. /\ requests \in Seq(FineRequest') /\ answers \in Seq(FineAnswer') /\ socket \in Seq(FineAnswer')
  BY <1>1, StillFine DEF LinkInv, Counters
<1>4. CASE \E i \in DOMAIN requests : requests' = Append(requests, requests[i]) /\ UNCHANGED answers
  <2>1. requests' \in Seq(FineRequest') /\ Len(requests') = Len(requests) + 1
    BY <1>3, <1>4, ElementOfSeq, AppendSeq
  <2>2. Behind'
    BY <1>1, <1>4, <2>1, Lengths DEF LinkInv, Behind, InTransit, Waiting, Counters
  <2>3. QED
    BY <1>1, <1>2, <1>3, <1>4, <2>1, <2>2 DEF LinkInv, Datagrams
<1>5. CASE \E i \in DOMAIN answers : answers' = Append(answers, answers[i]) /\ UNCHANGED requests
  <2>1. answers' \in Seq(FineAnswer') /\ Len(answers') = Len(answers) + 1
    BY <1>3, <1>5, ElementOfSeq, AppendSeq
  <2>2. Behind'
    BY <1>1, <1>5, <2>1, Lengths DEF LinkInv, Behind, InTransit, Waiting, Counters
  <2>3. QED
    BY <1>1, <1>2, <1>3, <1>5, <2>1, <2>2 DEF LinkInv, Datagrams
<1>6. QED
  BY <1>4, <1>5 DEF Copied

LEMMA ForgetStep == LinkInv /\ Forgets => LinkInv'
<1> SUFFICES ASSUME LinkInv, Forgets PROVE LinkInv'
  OBVIOUS
<1>1. /\ UNCHANGED <<pc, idNum, requests, answers, socket, given, strays>>
      /\ trouble' = trouble + 1 /\ trouble < MaxTrouble /\ known' \subseteq known
  BY DEF Forgets, Trouble
<1>2. QED
  BY <1>1, LinkAssumption
     DEF LinkInv, Counters, Place, Datagrams, Behind, InTransit, Waiting, FineRequest, FineAnswer

LEMMA LinkInit == Init => LinkInv
<1> SUFFICES ASSUME Init PROVE LinkInv
  OBVIOUS
<1>1. Datagrams /\ InTransit = 0
  BY EmptySeq DEF Init, Datagrams, InTransit
<1>2. QED
  BY <1>1, LinkAssumption DEF Init, LinkInv, Counters, Place, Behind, Waiting

LEMMA LinkStep == LinkInv /\ [Next]_vars => LinkInv'
<1> SUFFICES ASSUME LinkInv, [Next]_vars PROVE LinkInv'
  OBVIOUS
<1>1. CASE sendREG \/ sendALIVE
  BY <1>1, SendStep DEF sendREG, sendALIVE
<1>2. CASE UNCHANGED vars
  BY <1>2 DEF vars, LinkInv, Counters, Place, Datagrams, Behind, InTransit, Waiting,
              FineRequest, FineAnswer
<1>3. QED
  BY <1>1, <1>2, RegisterStep, AliveStep, TimeOutStep, NameServerStep, ArriveStep, LostStep,
     CopyStep, ForgetStep DEF Next, alive_thread_func

LEMMA LinkInvariant == Spec => []LinkInv
BY LinkInit, LinkStep, PTL DEF Spec

(* chat_server.c, register_Server and server_Alive: the values the         *)
(* variables range over, and that ALIVE is sent only for an id that has    *)
(* been given, whatever is lost, copied, late or out of order.             *)
THEOREM LinkTypes == Spec => []TypeOK
<1>1. LinkInv => TypeOK
  <2> SUFFICES ASSUME LinkInv PROVE TypeOK
    OBVIOUS
  <2>1. FineRequest \subseteq Request /\ FineAnswer \subseteq Answer
    BY DEF FineRequest, FineAnswer
  <2>2. requests \in Seq(Request) /\ answers \in Seq(Answer) /\ socket \in Seq(Answer)
    BY <2>1, SeqMonotonic, Zenon DEF LinkInv, Datagrams
  <2>3. trouble \in 0..MaxTrouble /\ strays \in 0..trouble
    BY LinkAssumption DEF LinkInv, Counters
  <2>4. QED
    BY <2>2, <2>3 DEF LinkInv, Counters, Place, TypeOK
<1>2. QED
  BY LinkInvariant, <1>1, PTL

(* register_Server, server_Alive: the answer read is the one to the last   *)
(* request until an answer is late or copied, and every one that is puts   *)
(* the thread at most one answer behind.                                   *)
THEOREM AnswersMatched == Spec => []AnswersMatch
<1>1. LinkInv => AnswersMatch
  <2> SUFFICES ASSUME LinkInv PROVE AnswersMatch
    OBVIOUS
  <2>1. ASSUME strays = 0, NEW i \in DOMAIN socket PROVE socket[i].ours
    <3>1. socket[i] \in FineAnswer
      BY ElementOfSeq DEF LinkInv, Datagrams
    <3>2. QED
      BY <2>1, <3>1 DEF FineAnswer
  <2>2. QED
    BY <2>1 DEF AnswersMatch, LinkInv, Behind
<1>2. QED
  BY LinkInvariant, <1>1, PTL
=============================================================================
