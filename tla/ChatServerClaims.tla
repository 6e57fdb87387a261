-------------------------- MODULE ChatServerClaims --------------------------
(***************************************************************************)
(* What comments in the repository say of the chat server and the server   *)
(* does not keep.  Each is the one property of a run that violates it.     *)
(***************************************************************************)
EXTENDS ChatServer, TLC

Symmetry == Permutations(Conn) \cup Permutations(Names \ {NoName})

(* chat_server.c:493-496, "Checks that the client ID of a connecting       *)
(* client is not already taken": no two members have the same name.  The   *)
(* search and the append are two sections of the lock, with the broadcast  *)
(* of the PJOIN between them.                                              *)
UniqueNames ==
  \A i, j \in Slots :
    Occupied(i) /\ Occupied(j) /\ clientList[i].name = clientList[j].name => i = j
=============================================================================
