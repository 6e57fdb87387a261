---------------------------- MODULE ChatServerMC ----------------------------
EXTENDS ChatServer, TLC
Symmetry == Permutations(Conn) \cup Permutations(Names \ {NoName})

(* What the steps that touch the table and the descriptors go by.  The     *)
(* rest, who has received what and what the items say, is only written:    *)
(* two states that differ in nothing else have the same futures of the     *)
(* table, and one of them is enough for properties of the table.           *)
TableView ==
  <<listener, pc, cl, ident, found, clientList, files,
    Len(messageQueue), Len(sending), njoin>>
=============================================================================
