--------------------------- MODULE MCZreElection ---------------------------
(***************************************************************************)
(* Instances of ZreElection for TLC: a duel of two contestants with every  *)
(* kind of environment step; three nodes of which one contests the group;  *)
(* three contestants whom nothing disturbs.                                *)
(***************************************************************************)
EXTENDS ZreElection

Budget(join, leave, depart, early) ==
    [k \in Kinds |-> CASE k = "join" -> join [] k = "leave" -> leave
                       [] k = "depart" -> depart [] k = "early" -> early]

BudgetOf ==
    [C \in SUBSET Node |-> CASE Cardinality(C) = 1 -> Budget(1, 0, 0, 0)
                             [] Cardinality(C) = 2 -> Budget(1, 1, 1, 1)
                             [] OTHER -> Budget(0, 0, 0, 0)]

MCInit ==
    /\ Init
    /\ \/ live = {1, 2} /\ contest = {1, 2}
       \/ live = Node /\ contest = {2} /\ own \in {{1, 2}, Node}

MCSpec == MCInit /\ [][Next]_vars /\ Fairness

SplitInit == Init /\ live = Node /\ contest = Node /\ own = Node
SplitSpec == SplitInit /\ [][Next]_vars
=============================================================================
