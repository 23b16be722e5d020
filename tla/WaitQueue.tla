----------------------------- MODULE WaitQueue ------------------------------
(***************************************************************************)
(* Wait queues (wait.h, list.h): a circular list of nodes, one on the      *)
(* kernel stack of each sleeper, seen as the sequence of the sleepers.     *)
(* list_add puts a node right behind the head, list_del unlinks it         *)
(* wherever it is.                                                         *)
(***************************************************************************)
EXTENDS Integers, Sequences, SequencesExt

add_wait_queue(q, p) == <<p>> \o q

\* Mutant of remove_wait_queue: the node stays linked.
RemoveNothing(q, p) == q

remove_wait_queue(q, p) ==
  IF p \in ToSet(q) THEN RemoveAt(q, CHOOSE i \in DOMAIN q : q[i] = p) ELSE q
=============================================================================
