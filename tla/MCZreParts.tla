----------------------------- MODULE MCZreParts -----------------------------
(***************************************************************************)
(* Parts of the program that do not look at each other, so one of them     *)
(* moves in a behaviour, which `side' names: what a node makes of          *)
(* addresses (MCZreAddress), config_sync.py, or task_queue.py.             *)
(***************************************************************************)
EXTENDS MCZreAddress, ZreConfig, ZreTasks

CONSTANTS n1, n2, n3, k1

Symmetry == Permutations({n2, n3})

\* Three nodes of which one sets, and two that both do.
Setting(writers) == writer = [k \in Key |-> writers]
MCWriters == [Key -> {{n1}, {n2, n3}}]

\* task_queue.py joins when its node runs, config_sync.py before the run loop
\* does anything: every HELLO says so.
MCInit ==
    /\ \/ side \in {"beacon", "dial"} /\ up = {} /\ joined = {} /\ Setting({n1})
       \/ side = "config" /\ up = Node /\ joined = up /\ Setting({n1})
       \/ side = "config" /\ up = {n2, n3} /\ joined = up /\ Setting({n2, n3})
       \/ side = "tasks" /\ up = Node /\ joined = {} /\ Setting({n1})
    /\ AddressInit /\ GroupInit /\ ConfigInit /\ TasksInit

partVars == <<addressVars, mesh, configVars, taskVars>>

MCNext ==
    \/ AddressNext /\ UNCHANGED <<mesh, configVars, taskVars>>
    \/ /\ side \in {"config", "tasks"}
       /\ UNCHANGED addressVars
       /\ \/ GroupNext /\ UNCHANGED <<configVars, taskVars>>
          \/ side = "config" /\ ConfigNext /\ UNCHANGED taskVars
          \/ side = "tasks" /\ TasksNext /\ UNCHANGED configVars

MCSpec == MCInit /\ [][MCNext]_partVars
=============================================================================
