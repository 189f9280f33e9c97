--------------------------- MODULE ZreMeshPresence ---------------------------
(***************************************************************************)
(* ZreMesh implements Presence: what the handlers do to the tables is what *)
(* the application may be told.  A node that is down presents nobody,      *)
(* whatever stop() left behind in its tables.                              *)
(***************************************************************************)
EXTENDS ZreMesh

\* Whom n has in its table, and whom its application was told of.
Listed(n) == IF phase[n] = "down" THEN {} ELSE known[n]
Presented(n) == IF phase[n] = "down" THEN {} ELSE seen[n]

P == INSTANCE Presence WITH
        running <- {n \in Node : Up(n)},
        met <- [n \in Node |-> Listed(n)],
        present <- [n \in Node |-> Presented(n)],
        groups <- pgroups

\* Every step of the mesh is one event of one node, the silent entry of a peer
\* in its table, or nothing to the application: a HELLO never re-announces an
\* already announced peer with fewer groups, a JOIN or LEAVE is never reported
\* of a peer before its ENTER or after its EXIT, each entry that is removed, by
\* a port-0 beacon or by expiry, announced or not, gives exactly one EXIT, which
\* leaves no group behind, and stop() reports nothing and removes nobody
\* (node.py:898-963, 1826-1845, 1971-2000, 2029-2175).
EventsInOrder == P!Spec

\* A node that is down has no peer in a group: nothing is left for the next
\* start to present (with Tables, what the mapping needs).
DownBare ==
    \A n \in Node : phase[n] = "down" => pgroups[n] = [p \in Node |-> {}]
=============================================================================
