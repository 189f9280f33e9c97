--------------------------- MODULE MCZreTransfer ---------------------------
(***************************************************************************)
(* Two senders for TLC.                                                    *)
(***************************************************************************)
EXTENDS ZreTransfer

Budget == [k \in Kinds |-> 1]

MCSpec == Init /\ [][Next]_vars /\ Fairness
=============================================================================
