---------------------------- MODULE MCZreGossip ----------------------------
(***************************************************************************)
(* Instance of ZreGossip for TLC: a hub of its own, or inside node n1.     *)
(***************************************************************************)
EXTENDS ZreGossip

CONSTANT n1

EachOnce == [k \in Kinds |-> 1]

MCInit == Init /\ host \in {None, n1}
MCSpec == MCInit /\ [][Next]_vars /\ Fairness
=============================================================================
