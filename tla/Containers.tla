----------------------------- MODULE Containers -----------------------------
(***************************************************************************)
(* What the compiler relies on when it keeps its data in an arena: a       *)
(* vector is a sequence, a pointer table a map from ids to pointers that   *)
(* is NULL where nothing was set, an allocated node keeps what was written *)
(* to it.  An operation that needs memory may be refused it, and then      *)
(* changes nothing.                                                        *)
(***************************************************************************)
EXTENDS Integers, Sequences

CONSTANTS Values, NULL, MaxIndex

VARIABLES vec, table, nodes, result

vars == <<vec, table, nodes, result>>

Init ==
  /\ vec = <<>>
  /\ table = [i \in 0..MaxIndex |-> NULL]
  /\ nodes = <<>>
  /\ result = NULL

Refused == result' = FALSE /\ UNCHANGED <<vec, table, nodes>>

Push(v) ==
  /\ vec' = Append(vec, v)
  /\ result' = TRUE
  /\ UNCHANGED <<table, nodes>>

Pop ==
  /\ IF vec = <<>>
       THEN result' = NULL /\ UNCHANGED vec
       ELSE result' = vec[Len(vec)] /\ vec' = SubSeq(vec, 1, Len(vec) - 1)
  /\ UNCHANGED <<table, nodes>>

Set(i, v) ==
  /\ table' = [table EXCEPT ![i] = v]
  /\ result' = TRUE
  /\ UNCHANGED <<vec, nodes>>

NewNode(v) ==
  /\ nodes' = Append(nodes, v)
  /\ result' = TRUE
  /\ UNCHANGED <<vec, table>>

Next ==
  \/ Refused \/ Pop
  \/ \E v \in Values : Push(v) \/ NewNode(v)
  \/ \E i \in 0..MaxIndex, v \in Values : Set(i, v)

Spec == Init /\ [][Next]_vars
=============================================================================
