----------------------------- MODULE ZreConfig -----------------------------
(***************************************************************************)
(* examples/config_sync.py: settings that every node holds.  A change is   *)
(* shouted with its version; a node that sees another enter shouts all it  *)
(* has, for what was set before.                                           *)
(***************************************************************************)
EXTENDS ZreGroup, SequencesExt

CONSTANTS
    Key,       \* settings
    Writers,   \* what programs there may be, see writer
    Sets       \* the highest version that a program sets

VARIABLES
    writer,    \* writer[k]: nodes whose program sets k, always the same
    config,    \* config[n][k]: <<node that set it, count>>, or <<>>
    versions,  \* versions[n][k]
    tasks      \* tasks[n]: updates whose shout() is a scheduled asyncio task

configVars == <<writer, config, versions, tasks>>

ASSUME WriterAssumption == Writers \subseteq [Key -> SUBSET Node]
ASSUME SetsAssumption == Sets \in Nat
ASSUME FiniteAssumption == IsFiniteSet(Node) /\ IsFiniteSet(Key)

Update(n, k, value, version) ==
    [key |-> k, value |-> value, version |-> version, source |-> n]

ConfigInit ==
    /\ writer \in Writers
    /\ config = [n \in Node |-> [k \in Key |-> <<>>]]
    /\ versions = [n \in Node |-> [k \in Key |-> 0]]
    /\ tasks = [n \in Node |-> <<>>]

Schedule(n, updates) == tasks' = [tasks EXCEPT ![n] = @ \o updates]

\* ConfigManager.set.  The caller goes on at once, the update is shouted later.
Set(n, k) ==
    /\ n \in up \cap writer[k]
    /\ versions[n][k] < Sets
    /\ LET version == versions[n][k] + 1
           value == <<n, version>>
       IN  /\ versions' = [versions EXCEPT ![n][k] = version]
           /\ config' = [config EXCEPT ![n][k] = value]
           /\ Schedule(n, <<Update(n, k, value, version)>>)
    /\ UNCHANGED <<mesh, writer>>

\* The event loop runs a scheduled shout; the run loop may have handled messages
\* since it was scheduled.
RunTask(n) ==
    /\ tasks[n] # <<>>
    /\ tasks' = [tasks EXCEPT ![n] = Tail(@)]
    /\ Shout(n, Head(tasks[n]))
    /\ UNCHANGED <<joined, peers, events, writer, config, versions>>

\* _broadcast_full_config.
FullConfig(n) ==
    LET set == SetToSeq({k \in Key : config[n][k] # <<>>})
    IN  [i \in DOMAIN set |-> Update(n, set[i], config[n][set[i]], versions[n][set[i]])]

\* Mutant of Answer: what was set before a node entered is not sent again.
AnswerNothing(n) == UNCHANGED tasks

\* handle_message, ENTER.
Answer(n) == Schedule(n, FullConfig(n))

\* Mutant of Newer: the version is not looked at.
NewerAlways(n, u) == u.source # n

\* The updates that handle_message takes.
Newer(n, u) == u.source # n /\ u.version > versions[n][u.key]

\* handle_message.
HandleConfig(n) ==
    /\ Consume(n)
    /\ \/ /\ Event(n).cmd = "HELLO"
          /\ Answer(n)
          /\ UNCHANGED <<config, versions>>
       \/ /\ Event(n).cmd = "SHOUT"
          /\ LET u == Event(n).payload
             IN  IF Newer(n, u)
                 THEN /\ config' = [config EXCEPT ![n][u.key] = u.value]
                      /\ versions' = [versions EXCEPT ![n][u.key] = u.version]
                 ELSE UNCHANGED <<config, versions>>
          /\ UNCHANGED tasks
    /\ UNCHANGED <<joined, peers, net, writer>>

ConfigNext ==
    \E n \in Node : (\E k \in Key : Set(n, k)) \/ RunTask(n) \/ HandleConfig(n)

\* The program joins before the run loop does anything.
ConfigSpec ==
    /\ up \subseteq Node /\ joined = up
    /\ GroupInit /\ ConfigInit
    /\ [][ConfigNext \/ (GroupNext /\ UNCHANGED configVars)]_<<mesh, configVars>>

-----------------------------------------------------------------------------
(* Properties *)

\* Once everybody has met and all updates were handled, all have the same version
\* of each setting, and the same value if one node sets it, whoever came late
\* (config_sync.py:127-129: "Rebroadcast the full config so late joiners
\* converge").
Converged ==
    Rest /\ tasks = [n \in Node |-> <<>>] =>
        \A k \in Key, n, p \in up :
            /\ versions[n][k] = versions[p][k]
            /\ Cardinality(writer[k]) <= 1 => config[n][k] = config[p][k]

\* A value is never ahead of what its writer set, and whoever has the version that
\* a sole writer has now has its value too: rebroadcasts of nodes that are behind,
\* which carry their own id, change nothing.
NoRollback ==
    \A k \in Key, n, p \in Node : writer[k] = {p} =>
        /\ versions[n][k] <= versions[p][k]
        /\ versions[n][k] = versions[p][k] => config[n][k] = config[p][k]

-----------------------------------------------------------------------------
(* Why they hold: an inductive invariant in three parts *)

Value == Node \X (Nat \ {0})
Updates == [key : Key, value : Value, version : Nat \ {0}, source : Node]
Letters ==
    [cmd : {"HELLO"}, from : Node, payload : {TRUE}]
      \cup [cmd : {"SHOUT"}, from : Node, payload : Updates]

\* A node that does not run has and gets nothing, and a setting has a value once
\* it has a version.
ConfigTypes ==
    /\ up \subseteq Node /\ joined = up
    /\ writer \in [Key -> SUBSET Node]
    /\ knows \in [Node -> SUBSET up] /\ members \in [Node -> SUBSET up]
    /\ versions \in [Node -> [Key -> Nat]]
    /\ config \in [Node -> [Key -> {<<>>} \cup Value]]
    /\ tasks \in [Node -> Seq(Updates)]
    /\ net \in [Node -> [Node -> Seq(Letters)]]
    /\ events \in [Node -> Seq(Letters)]
    /\ \A n \in Node :
          /\ n \notin knows[n] /\ members[n] \subseteq knows[n]
          /\ \A k \in Key : config[n][k] = <<>> <=> versions[n][k] = 0
          /\ n \notin up => /\ tasks[n] = <<>> /\ events[n] = <<>>
                           /\ \A k \in Key : versions[n][k] = 0

\* u claims nothing that a sole writer of its key did not set.
Fresh(u) ==
    \A p \in Node : writer[u.key] \subseteq {p} =>
        /\ u.version <= versions[p][u.key]
        /\ u.version = versions[p][u.key] => u.value = config[p][u.key]

\* An update says it is of the node that shouts it, which is as far itself.
Sound(u, n) == n \in up /\ u.source = n /\ u.version <= versions[n][u.key] /\ Fresh(u)

\* Whatever is scheduled, on its way or queued is sound.
Honest ==
    /\ \A n \in Node : \A u \in Range(tasks[n]) : Sound(u, n)
    /\ \A n, p \in Node : \A m \in Range(net[n][p]) :
          {n, p} \subseteq up /\ n # p /\ m.from = n /\ (m.cmd = "SHOUT" => Sound(m.payload, n))
    /\ \A p \in Node : \A m \in Range(events[p]) :
          m.from \in up \ {p} /\ (m.cmd = "SHOUT" => Sound(m.payload, m.from))

\* No node has what the sole writer of a setting never set: NoRollback, also
\* where nobody sets it.
Behind ==
    \A k \in Key, n, p \in Node : writer[k] \subseteq {p} =>
        /\ versions[n][k] <= versions[p][k]
        /\ versions[n][k] = versions[p][k] => config[n][k] = config[p][k]

\* A message of version v or later of k.
Brings(q, k, v) ==
    \E m \in Range(q) : m.cmd = "SHOUT" /\ m.payload.key = k /\ m.payload.version >= v

\* m has version v of k, and is about to shout it, or will be when p enters or
\* when it handles that.
Offers(m, p, k, v) ==
    /\ versions[m][k] >= v
    /\ \/ \E u \in Range(tasks[m]) : u.key = k /\ u.version >= v
       \/ \E e \in Range(events[m]) : e.cmd = "HELLO" /\ e.from = p
       \/ p \notin members[m]

\* p has version v of k, or will.
Covered(p, k, v) ==
    \/ versions[p][k] >= v \/ Brings(events[p], k, v)
    \/ \E m \in up \ {p} : Brings(net[m][p], k, v) \/ Offers(m, p, k, v)

\* A HELLO is on its way to whoever was dialled and did not take one.
Greeted ==
    \A n, p \in up : p \in knows[n] /\ n \notin members[p] =>
        \E m \in Range(net[n][p]) : m.cmd = "HELLO"

AllCovered == Greeted /\ \A n, p \in up, k \in Key : Covered(p, k, versions[n][k])
=============================================================================
