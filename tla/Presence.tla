------------------------------- MODULE Presence -------------------------------
(***************************************************************************)
(* What a node promises its application about the other nodes.  A peer is  *)
(* met silently (a beacon, a dial) or by its HELLO; it is announced by one *)
(* event (ENTER, with a JOIN for each group it is in), may join and leave  *)
(* groups while it is present, and one EXIT ends the meeting and takes it  *)
(* out of all groups at once.  The EXIT comes whether or not there was an  *)
(* ENTER.  Nothing is announced while the node is being stopped, and a     *)
(* node that starts again has met nobody.                                  *)
(***************************************************************************)
CONSTANTS Node, Group

VARIABLES
    running,   \* nodes whose application receives events
    met,       \* met[n]: peers in n's table, announced or not
    present,   \* present[n]: peers announced by n and not taken back
    groups     \* groups[n][p]: groups p is in, as n announced it

vars == <<running, met, present, groups>>

Init ==
    /\ running = {}
    /\ met = [n \in Node |-> {}]
    /\ present = [n \in Node |-> {}]
    /\ groups = [n \in Node |-> [p \in Node |-> {}]]

Start(n) ==
    /\ n \notin running
    /\ met[n] = {} /\ present[n] = {}
    /\ running' = running \cup {n}
    /\ UNCHANGED <<met, present, groups>>

\* From here to Halt the application sees what it saw last.
Stop(n) ==
    /\ n \in running
    /\ running' = running \ {n}
    /\ UNCHANGED <<met, present, groups>>

Halt(n) ==
    /\ running' = running \ {n}
    /\ met' = [met EXCEPT ![n] = {}]
    /\ present' = [present EXCEPT ![n] = {}]
    /\ groups' = [groups EXCEPT ![n] = [p \in Node |-> {}]]

\* A peer is entered in the table and greeted: no event.
Meet(n, p) ==
    /\ n \in running
    /\ p \notin met[n]
    /\ met' = [met EXCEPT ![n] = @ \cup {p}]
    /\ UNCHANGED <<running, present, groups>>

\* ENTER.  A peer that is present may be announced again, with more groups,
\* when its connection was torn down and made anew.
Enter(n, p, G) ==
    /\ n \in running
    /\ met' = [met EXCEPT ![n] = @ \cup {p}]
    /\ present' = [present EXCEPT ![n] = @ \cup {p}]
    /\ groups' = [groups EXCEPT ![n][p] = @ \cup G]
    /\ UNCHANGED running

Join(n, p, g) ==
    /\ n \in running
    /\ p \in present[n]
    /\ groups' = [groups EXCEPT ![n][p] = @ \cup {g}]
    /\ UNCHANGED <<running, met, present>>

Leave(n, p, g) ==
    /\ n \in running
    /\ p \in present[n]
    /\ groups' = [groups EXCEPT ![n][p] = @ \ {g}]
    /\ UNCHANGED <<running, met, present>>

\* EXIT, one for each peer that was met, so also for one whose ENTER never
\* came; an application that counts on pairs must look p up.
Exit(n, p) ==
    /\ n \in running
    /\ p \in met[n]
    /\ met' = [met EXCEPT ![n] = @ \ {p}]
    /\ present' = [present EXCEPT ![n] = @ \ {p}]
    /\ groups' = [groups EXCEPT ![n][p] = {}]
    /\ UNCHANGED running

Next ==
    \E n \in Node :
        \/ Start(n) \/ Stop(n) \/ Halt(n)
        \/ \E p \in Node :
              \/ Meet(n, p)
              \/ \E G \in SUBSET Group : Enter(n, p, G)
              \/ \E g \in Group : Join(n, p, g) \/ Leave(n, p, g)
              \/ Exit(n, p)

Spec == Init /\ [][Next]_vars
=============================================================================
