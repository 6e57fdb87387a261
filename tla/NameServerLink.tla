--------------------------- MODULE NameServerLink ---------------------------
(***************************************************************************)
(* The server's thread that keeps it registered (alive_thread_func,        *)
(* register_Server, server_Alive), the UDP network and the name server.    *)
(*                                                                         *)
(* The name server is not part of the repository.  It is what its answers  *)
(* show: a REG is answered by an ACK with a new id, an ALIVE by an ACK if  *)
(* its id is known and by a NOTREG otherwise; it may forget an id.  ALIVE  *)
(* is taken to reach the name server REG was sent to, and datagrams from   *)
(* anybody else are left out, as are the number of clients and the sleeps. *)
(*                                                                         *)
(* A definition named X_Something is a faulty X; no action uses one.       *)
(***************************************************************************)
EXTENDS Integers, Sequences

CONSTANT MaxTrouble   (* bound: losses, copies, late answers, forgotten ids *)

ASSUME LinkAssumption == MaxTrouble \in Nat

VARIABLES
  pc,        (* about to send REG or ALIVE, or waiting for its answer       *)
  idNum,     (* the id of the last registration, 0 before the first         *)
  requests,  (* on their way to the name server                             *)
  answers,   (* on their way to the server                                  *)
  socket,    (* answers in the buffer of the UDP socket                     *)
  known,     (* the ids the name server knows                               *)
  given,     (* the last id it has given                                    *)
  trouble,   (* what has gone wrong so far                                  *)
  strays     (* of that: answers that came after their 5 seconds, copies    *)

vars == <<pc, idNum, requests, answers, socket, known, given, trouble, strays>>

Waiting == pc \in {"waitREG", "waitALIVE"}

InTransit == Len(requests) + Len(answers) + Len(socket)

(* Datagrams arrive in any order.                                          *)
Without(s, i) == SubSeq(s, 1, i - 1) \o SubSeq(s, i + 1, Len(s))

(* `ours' says that nothing has been sent since the request was.           *)
Aged(s) == [i \in DOMAIN s |-> [s[i] EXCEPT !.ours = FALSE]]

Sends(op) ==
  /\ pc = op
  /\ pc' = IF op = "REG" THEN "waitREG" ELSE "waitALIVE"
  /\ requests' = Append(Aged(requests), [op |-> op, id |-> idNum, ours |-> TRUE])
  /\ answers' = Aged(answers)
  /\ socket' = Aged(socket)
  /\ UNCHANGED <<idNum, known, given, trouble, strays>>

Takes == socket # <<>> /\ socket' = Tail(socket)

(***************************************************************************)
(* register_Server: until an ACK comes, whichever request it answers.      *)
(***************************************************************************)
sendREG_Twice ==
  /\ pc = "REG" /\ pc' = "waitREG"
  /\ requests' = Aged(requests) \o [n \in 1..2 |-> [op |-> "REG", id |-> idNum, ours |-> n = 2]]
  /\ answers' = Aged(answers)
  /\ socket' = Aged(socket)
  /\ UNCHANGED <<idNum, known, given, trouble, strays>>

sendREG == Sends("REG")

register_Server ==
  /\ pc = "waitREG" /\ Takes
  /\ \/ /\ Head(socket).op = "ACK"
        /\ idNum' = Head(socket).id
        /\ pc' = "ALIVE"
     \/ /\ Head(socket).op # "ACK"
        /\ pc' = "REG"
        /\ UNCHANGED idNum
  /\ UNCHANGED <<requests, answers, known, given, trouble, strays>>

(***************************************************************************)
(* server_Alive and what alive_thread_func makes of its result.            *)
(***************************************************************************)
sendALIVE == Sends("ALIVE")

server_Alive_TrustsAll ==
  /\ pc = "waitALIVE" /\ Takes
  /\ pc' = "ALIVE"
  /\ UNCHANGED <<idNum, requests, answers, known, given, trouble, strays>>

server_Alive ==
  /\ pc = "waitALIVE" /\ Takes
  /\ pc' = IF Head(socket).op = "ACK" THEN "ALIVE" ELSE "REG"
  /\ UNCHANGED <<idNum, requests, answers, known, given, trouble, strays>>

(* poll() returns 0.  When the answer is still to come, it will be late.   *)
TimesOut_Proceeds ==
  /\ Waiting /\ socket = <<>>
  /\ pc' = "ALIVE"
  /\ \/ InTransit = 0 /\ UNCHANGED <<trouble, strays>>
     \/ /\ InTransit > 0 /\ trouble < MaxTrouble
        /\ trouble' = trouble + 1 /\ strays' = strays + 1
  /\ UNCHANGED <<idNum, requests, answers, socket, known, given>>

TimesOut ==
  /\ Waiting /\ socket = <<>>
  /\ pc' = IF pc = "waitREG" THEN "REG" ELSE "ALIVE"
  /\ \/ InTransit = 0 /\ UNCHANGED <<trouble, strays>>
     \/ /\ InTransit > 0 /\ trouble < MaxTrouble
        /\ trouble' = trouble + 1 /\ strays' = strays + 1
  /\ UNCHANGED <<idNum, requests, answers, socket, known, given>>

(***************************************************************************)
(* The name server and the network.                                        *)
(***************************************************************************)
Answers(request) ==
  \/ /\ request.op = "REG"
     /\ given' = given + 1
     /\ known' = known \cup {given + 1}
     /\ answers' = Append(answers, [op |-> "ACK", id |-> given + 1, ours |-> request.ours])
  \/ /\ request.op = "ALIVE"
     /\ answers' = Append(answers,
          [op |-> IF request.id \in known THEN "ACK" ELSE "NOTREG",
           id |-> request.id, ours |-> request.ours])
     /\ UNCHANGED <<known, given>>

NameServer ==
  \E i \in DOMAIN requests :
    /\ Answers(requests[i])
    /\ requests' = Without(requests, i)
    /\ UNCHANGED <<pc, idNum, socket, trouble, strays>>

Arrives ==
  \E i \in DOMAIN answers :
    /\ socket' = Append(socket, answers[i])
    /\ answers' = Without(answers, i)
    /\ UNCHANGED <<pc, idNum, requests, known, given, trouble, strays>>

Trouble == trouble < MaxTrouble /\ trouble' = trouble + 1

Lost ==
  /\ Trouble
  /\ \/ \E i \in DOMAIN requests : requests' = Without(requests, i) /\ UNCHANGED answers
     \/ \E i \in DOMAIN answers : answers' = Without(answers, i) /\ UNCHANGED requests
  /\ UNCHANGED <<pc, idNum, socket, known, given, strays>>

Copied ==
  /\ Trouble /\ strays' = strays + 1
  /\ \/ \E i \in DOMAIN requests : requests' = Append(requests, requests[i]) /\ UNCHANGED answers
     \/ \E i \in DOMAIN answers : answers' = Append(answers, answers[i]) /\ UNCHANGED requests
  /\ UNCHANGED <<pc, idNum, socket, known, given>>

Forgets ==
  /\ Trouble
  /\ \E id \in known : known' = known \ {id}
  /\ UNCHANGED <<pc, idNum, requests, answers, socket, given, strays>>

-----------------------------------------------------------------------------
Init ==
  /\ pc = "REG" /\ idNum = 0
  /\ requests = <<>> /\ answers = <<>> /\ socket = <<>>
  /\ known = {} /\ given = 0
  /\ trouble = 0 /\ strays = 0

alive_thread_func ==
  sendREG \/ register_Server \/ sendALIVE \/ server_Alive \/ TimesOut

Next == alive_thread_func \/ NameServer \/ Arrives \/ Lost \/ Copied \/ Forgets

Spec == Init /\ [][Next]_vars

(* The thread runs, the name server answers, and what is not lost arrives. *)
FairSpec ==
  Spec /\ WF_vars(alive_thread_func) /\ WF_vars(NameServer) /\ WF_vars(Arrives)

-----------------------------------------------------------------------------
Request == [op : {"REG", "ALIVE"}, id : Nat, ours : BOOLEAN]
Answer == [op : {"ACK", "NOTREG"}, id : Nat, ours : BOOLEAN]

(* An ALIVE is sent for an id the name server has given.                   *)
TypeOK ==
  /\ pc \in {"REG", "waitREG", "ALIVE", "waitALIVE"}
  /\ given \in Nat /\ known \subseteq 1..given
  /\ idNum \in 0..given
  /\ pc \in {"ALIVE", "waitALIVE"} => idNum # 0
  /\ requests \in Seq(Request) /\ answers \in Seq(Answer) /\ socket \in Seq(Answer)
  /\ trouble \in 0..MaxTrouble /\ strays \in 0..trouble

(* register_Server, server_Alive: the thread never reads an answer away    *)
(* without having asked, so as long as no answer was late and none came    *)
(* twice the one it reads answers its last request; and every stray        *)
(* answer puts it at most one answer behind.                               *)
AnswersMatch ==
  /\ strays = 0 => \A i \in DOMAIN socket : socket[i].ours
  /\ InTransit <= strays + (IF Waiting THEN 1 ELSE 0)

(* alive_thread_func, "keeps the server registered", "re-register": once   *)
(* nothing goes wrong any more the name server knows the id the server     *)
(* has, for good, though the thread may read answers to earlier requests   *)
(* for ever.                                                               *)
StaysRegistered == <>[](idNum \in known)
=============================================================================
