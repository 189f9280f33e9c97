------------------------------ MODULE MCZreMesh ------------------------------
(***************************************************************************)
(* Instances of ZreMesh for TLC.  A budget names how often each kind of     *)
(* environment step may happen; the cfg picks one.                          *)
(***************************************************************************)
EXTENDS ZreMeshPresence, TLC

Budget(op, boot, stop, crash, cuts) ==
    [k \in Kinds |-> CASE k = "op" -> op [] k = "boot" -> boot
                       [] k = "stop" -> stop [] k = "crash" -> crash
                       [] k = "cut" -> cuts]

Symmetry == Permutations(Node)

FaultBudget == Budget(2, 3, 1, 1, 1)
PairBudget == Budget(4, 2, 1, 1, 0)
CutBudget == Budget(0, 2, 0, 0, 1)

\* Either four commands, or one command, a stop and a crash: the rest of
\* PairBudget counts as spent.
PairInit == Fresh /\ spent \in {Budget(0, 0, 1, 1, 0), Budget(3, 0, 0, 0, 0)}

PairSpec == PairInit /\ [][Next]_vars /\ Fairness
=============================================================================
