------------------------------ MODULE ChatRoom ------------------------------
(***************************************************************************)
(* What the chat server promises to those who are connected: one room.     *)
(* Everything that is said goes into one line, and whoever is in the room  *)
(* when its turn comes hears it, once, in the order of the line.  A person *)
(* is announced before entering and enters once.                           *)
(*                                                                         *)
(* Not everybody hears: who does is settled on arrival.                    *)
(***************************************************************************)
EXTENDS Integers, Sequences

CONSTANT Person

VARIABLES
  standing,  (* away, outside, announced, in, leaving, left                *)
  hearing,   (* those whose log is kept                                    *)
  said,      (* how many messages a person has put into the line           *)
  list,      (* the list of those in the room that a person is to be given *)
  line,      (* what was said and not heard yet                            *)
  log        (* what a person has heard                                    *)

vars == <<standing, hearing, said, list, line, log>>

Is(p, S) == standing[p] \in S

Becomes(p, S, to) == Is(p, S) /\ standing' = [standing EXCEPT ![p] = to]

Inside == {p \in Person : standing[p] = "in"}

Hears(P, words) ==
  log' = [p \in Person |-> IF p \in P \cap hearing THEN log[p] \o words ELSE log[p]]

Puts(p, op) ==
  /\ line' = Append(line, [op |-> op, who |-> p, nr |-> said[p] + 1])
  /\ UNCHANGED <<hearing, list, log>>

Arrive(p) ==
  /\ Becomes(p, {"away"}, "outside")
  /\ hearing' \in {hearing, hearing \cup {p}}
  /\ UNCHANGED <<said, list, line, log>>

Announce(p) ==
  /\ Becomes(p, {"outside", "announced"}, "announced")
  /\ Hears(Inside, <<[op |-> "PJOIN", who |-> p]>>)
  /\ UNCHANGED <<hearing, said, list, line>>

Enter(p) ==
  /\ Becomes(p, {"announced"}, "in")
  /\ UNCHANGED <<hearing, said, list, line, log>>

(* The list is that of one moment, after the person's entrance unless the  *)
(* room was full.                                                          *)
List(p) ==
  /\ Is(p, {"announced", "in"})
  /\ list' = [list EXCEPT ![p] = Inside]
  /\ UNCHANGED <<standing, hearing, said, line, log>>

Welcome(p) ==
  /\ Is(p, {"announced", "in"})
  /\ Hears({p}, <<[op |-> "PARTICIPANTS", roster |-> list[p]]>>)
  /\ list' = [list EXCEPT ![p] = {}]
  /\ UNCHANGED <<standing, hearing, said, line>>

Warn(p) ==
  /\ Is(p, {"outside", "announced", "in"})
  /\ Hears({p}, <<[op |-> "QUIT"]>>)
  /\ UNCHANGED <<standing, hearing, said, list, line>>

Refuse(p) ==
  /\ Becomes(p, {"outside", "announced"}, "left")
  /\ Hears({p}, <<[op |-> "TAKEN"], [op |-> "QUIT"]>>)
  /\ UNCHANGED <<hearing, said, list, line>>

Say(p) ==
  /\ Is(p, {"announced", "in"})
  /\ Puts(p, "MESS")
  /\ said' = [said EXCEPT ![p] = @ + 1]
  /\ UNCHANGED standing

Leave(p) ==
  /\ Becomes(p, {"outside", "announced", "in"}, "leaving")
  /\ UNCHANGED <<hearing, said, list, line, log>>

Bye(p) ==
  /\ Becomes(p, {"leaving"}, "left")
  /\ Puts(p, "PLEAVE")
  /\ UNCHANGED said

(* Without a word.                                                         *)
Go(p) ==
  /\ Becomes(p, {"outside", "announced"}, "left")
  /\ UNCHANGED <<hearing, said, list, line, log>>

Hear ==
  /\ line # <<>>
  /\ Hears(Inside, <<Head(line)>>)
  /\ line' = Tail(line)
  /\ UNCHANGED <<standing, hearing, said, list>>

Init ==
  /\ standing = [p \in Person |-> "away"]
  /\ hearing = {}
  /\ said = [p \in Person |-> 0]
  /\ list = [p \in Person |-> {}]
  /\ line = <<>>
  /\ log = [p \in Person |-> <<>>]

Next ==
  \/ \E p \in Person :
       \/ Arrive(p) \/ Announce(p) \/ Enter(p) \/ List(p) \/ Welcome(p)
       \/ Warn(p) \/ Refuse(p) \/ Say(p) \/ Leave(p) \/ Bye(p) \/ Go(p)
  \/ Hear

Spec == Init /\ [][Next]_vars
=============================================================================
