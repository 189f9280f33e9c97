----------------------------- MODULE ZreTasks -----------------------------
(***************************************************************************)
(* examples/task_queue.py: a coordinator shouts tasks, every worker that   *)
(* is in the group does them and whispers the result back.  The programs   *)
(* join when they have found somebody, which is seldom before the others   *)
(* have.  The end of the coordinator, after its last task, is left out.    *)
(***************************************************************************)
EXTENDS ZreGroup, Functions

CONSTANTS
    Coordinator,  \* a node; the others are workers
    Tasks         \* tasks that it shouts

VARIABLES
    issued,       \* counter: tasks 1..issued were shouted
    pending,      \* tasks without a result
    doing,        \* doing[w]: the task w sleeps over, or 0
    worked        \* history: worked[w], the tasks that w took, in order

taskVars == <<issued, pending, doing, worked>>

ASSUME CoordinatorAssumption == Coordinator \in Node
ASSUME TasksAssumption == Tasks \in Nat

Worker == up \ {Coordinator}

TasksInit ==
    /\ issued = 0
    /\ pending = {}
    /\ doing = [w \in Node |-> 0]
    /\ worked = [w \in Node |-> <<>>]

\* Both programs join after 30 looks at peers(), or once there is one.
Enlist(n) ==
    /\ n \in up \ joined
    /\ SendJoin(n)
    /\ UNCHANGED <<peers, events, issued, pending, doing, worked>>

\* run_coordinator: a task is shouted if peers() has anybody, member or not.
Issue ==
    /\ Coordinator \in joined
    /\ issued < Tasks
    /\ knows[Coordinator] # {}
    /\ issued' = issued + 1
    /\ pending' = pending \cup {issued + 1}
    /\ Shout(Coordinator, issued + 1)
    /\ UNCHANGED <<joined, peers, events, doing, worked>>

\* handle_events of the coordinator: the first result counts.
TakeResult ==
    /\ Consume(Coordinator)
    /\ pending' = IF Event(Coordinator).cmd = "WHISPER"
                  THEN pending \ {Event(Coordinator).payload} ELSE pending
    /\ UNCHANGED <<joined, peers, net, issued, doing, worked>>

\* handle_events of a worker takes the next event when the last task is done.
TakeTask(w) ==
    /\ doing[w] = 0
    /\ Consume(w)
    /\ IF Event(w).cmd = "SHOUT"
       THEN /\ doing' = [doing EXCEPT ![w] = Event(w).payload]
            /\ worked' = [worked EXCEPT ![w] = Append(@, Event(w).payload)]
       ELSE UNCHANGED <<doing, worked>>
    /\ UNCHANGED <<joined, peers, net, issued, pending>>

\* Mutant of Result: a worker reports to a worker.
ResultAstray(w) == Whisper(w, w, doing[w])

\* Only the coordinator shouts: peer_id of the event.
Result(w) == Whisper(w, Coordinator, doing[w])

\* The result, half a second later.
Report(w) ==
    /\ doing[w] # 0
    /\ doing' = [doing EXCEPT ![w] = 0]
    /\ Result(w)
    /\ UNCHANGED <<joined, peers, events, issued, pending, worked>>

TasksNext ==
    \/ \E n \in Node : Enlist(n)
    \/ Issue \/ TakeResult
    \/ \E w \in Worker : TakeTask(w) \/ Report(w)

TasksSpec ==
    /\ Coordinator \in up /\ up \subseteq Node /\ joined = {}
    /\ GroupInit /\ TasksInit
    /\ [][TasksNext \/ (GroupNext /\ UNCHANGED taskVars)]_<<mesh, taskVars>>

-----------------------------------------------------------------------------
(* Properties *)

\* Once nothing is on its way, a task still waits for its result exactly if no
\* worker got it, because none was known as a member when it was shouted; and a
\* worker that got a task got all later ones, in order, each once.
Served ==
    Rest /\ doing = [w \in Node |-> 0] =>
        /\ pending = (1..issued) \ UNION {Range(worked[w]) : w \in Worker}
        /\ \A w \in Worker :
              LET missed == issued - Len(worked[w])
              IN  worked[w] = [i \in 1..Len(worked[w]) |-> missed + i]

-----------------------------------------------------------------------------
(* Why it holds: an inductive invariant in three parts *)

\* Only the coordinator shouts, and only workers whisper, to it.
Letter ==
    [cmd : {"HELLO", "JOIN"}, from : Node, payload : BOOLEAN]
      \cup [cmd : {"SHOUT"}, from : {Coordinator}, payload : Nat \ {0}]
      \cup [cmd : {"WHISPER"}, from : Node \ {Coordinator}, payload : Nat \ {0}]

Queued ==
    /\ net \in [Node -> [Node -> Seq(Letter)]] /\ events \in [Node -> Seq(Letter)]
    /\ \A n, p \in Node : \A m \in Range(net[n][p]) :
          n # p /\ {n, p} \subseteq up /\ m.from = n /\ (m.cmd = "WHISPER" => p = Coordinator)
    /\ \A p \in Node : \A m \in Range(events[p]) :
          p \in up /\ m.from \in up \ {p} /\ (m.cmd = "WHISPER" => p = Coordinator)

TasksTypes ==
    /\ Coordinator \in up /\ up \subseteq Node
    /\ knows \in [Node -> SUBSET up] /\ members \in [Node -> SUBSET up]
    /\ \A n \in Node : n \notin knows[n] /\ members[n] \subseteq knows[n]
    /\ issued \in Nat /\ pending \subseteq 1..issued
    /\ doing \in [Node -> Nat] /\ worked \in [Node -> Seq(Nat \ {0})]
    /\ Queued

\* The tasks shouted in q are a + 1 to b, in order.
Carries(q, a, b) ==
    LET shouts == {i \in DOMAIN q : q[i].cmd = "SHOUT"}
    IN  /\ {q[i].payload : i \in shouts} = a + 1 .. b
        /\ \A i, j \in shouts : i < j => q[i].payload < q[j].payload

\* w took tasks up to a, those up to b wait in its queue, and the rest is on its
\* way; all of that if it is a member.
Upto(w, a, b) ==
    /\ Carries(events[w], a, b) /\ Carries(net[Coordinator][w], b, issued)
    /\ a <= b /\ b <= issued /\ Len(worked[w]) <= a
    /\ \A i \in 1..Len(worked[w]) : worked[w][i] = a - Len(worked[w]) + i
    /\ w \notin members[Coordinator] => a = issued /\ worked[w] = <<>>

InOrder == \A w \in Worker : \E a, b \in 0..issued : Upto(w, a, b)

Took(t) == \E w \in Worker : t \in Range(worked[w])

\* A result of t on its way.
Reported(q, t) == \E m \in Range(q) : m.cmd = "WHISPER" /\ m.payload = t

\* A task with a result was taken, one that was taken waits for its result only
\* while whoever took it is at it or has reported, and a worker that gets tasks
\* knows the coordinator, so that its reports go out.
Reporting ==
    /\ \A t \in 1..issued : t \notin pending => Took(t)
    /\ \A w \in Worker : doing[w] # 0 => doing[w] \in Range(worked[w])
    /\ \A n \in Node : \A m \in Range(net[n][Coordinator]) \cup Range(events[Coordinator]) :
          m.cmd = "WHISPER" => Took(m.payload)
    /\ \A w \in Worker : \A t \in Range(worked[w]) \cap pending :
          doing[w] = t \/ Reported(net[w][Coordinator], t) \/ Reported(events[Coordinator], t)
    /\ \A w \in Worker :
          doing[w] # 0 \/ (\E m \in Range(events[w]) : m.cmd = "SHOUT") => Coordinator \in knows[w]
=============================================================================
