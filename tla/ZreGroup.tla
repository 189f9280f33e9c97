----------------------------- MODULE ZreGroup -----------------------------
(***************************************************************************)
(* The part of a mesh that the programs of examples/ stand on: nodes that  *)
(* nothing disturbs (ZreMesh shows what else can happen) and one group.    *)
(* A program takes events in a task of its own, some time after the run    *)
(* loop emitted them.  Its commands do not wait: the run loop empties      *)
(* _api_queue before it looks at a socket, and lets no other task run in   *)
(* between, so a command is done in the step that asks for it.             *)
(***************************************************************************)
EXTENDS Naturals, Sequences, FiniteSets

CONSTANT Node  \* uuids

VARIABLES
    up,        \* nodes that run, always the same
    joined,    \* nodes that have the group among their own
    knows,     \* knows[n]: keys of _peers
    members,   \* members[n]: Group.peers
    net,       \* net[n][p]: sent by n, not yet handled by p
    events     \* events[n]: _event_queue, as the messages that caused the events

peers == <<up, knows, members>>
mesh == <<up, joined, knows, members, net, events>>

\* A HELLO and a JOIN say whether their sender is in the group.
Hello(n) == [cmd |-> "HELLO", from |-> n, payload |-> n \in joined]
JoinMsg(n) == [cmd |-> "JOIN", from |-> n, payload |-> TRUE]
Data(cmd, n, payload) == [cmd |-> cmd, from |-> n, payload |-> payload]

GroupInit ==
    /\ knows = [n \in Node |-> {}]
    /\ members = [n \in Node |-> {}]
    /\ net = [n \in Node |-> [p \in Node |-> <<>>]]
    /\ events = [n \in Node |-> <<>>]

\* One message to every node of a set.
Send(n, to, msg) ==
    net' = [net EXCEPT ![n] = [p \in Node |-> IF p \in to THEN Append(@[p], msg) ELSE @[p]]]

\* _join_group, _do_shout and _do_whisper.
SendJoin(n) == joined' = joined \cup {n} /\ Send(n, knows[n], JoinMsg(n))
Shout(n, payload) == Send(n, members[n], Data("SHOUT", n, payload))
Whisper(n, to, payload) == Send(n, {to} \cap knows[n], Data("WHISPER", n, payload))

\* A beacon of p: n dials and greets it.
Discover(n, p) ==
    /\ {n, p} \subseteq up
    /\ p \notin knows[n] \cup {n}
    /\ knows' = [knows EXCEPT ![n] = @ \cup {p}]
    /\ Send(n, {p}, Hello(n))
    /\ UNCHANGED <<up, joined, members, events>>

\* n handles a message of p.  The first is HELLO: it admits p, is answered if p
\* is new, and is the ENTER event.  A JOIN is an event that no program looks at.
Receive(n, p) ==
    /\ net[p][n] # <<>>
    /\ LET m == Head(net[p][n])
           rest == [net EXCEPT ![p][n] = Tail(@)]
       IN  /\ knows' = [knows EXCEPT ![n] = @ \cup {p}]
           /\ net' = IF p \in knows[n] THEN rest
                     ELSE [rest EXCEPT ![n][p] = Append(@, Hello(n))]
           /\ members' = IF m.cmd \in {"HELLO", "JOIN"} /\ m.payload
                         THEN [members EXCEPT ![n] = @ \cup {p}] ELSE members
           /\ events' = IF m.cmd = "JOIN" THEN events
                        ELSE [events EXCEPT ![n] = Append(@, m)]
    /\ UNCHANGED <<up, joined>>

\* A program takes an event.
Event(n) == Head(events[n])
Consume(n) ==
    /\ events[n] # <<>>
    /\ events' = [events EXCEPT ![n] = Tail(@)]

GroupNext == \E n, p \in Node : Discover(n, p) \/ Receive(n, p)

\* All found each other, and nothing is on its way.
Rest ==
    /\ \A n \in Node : events[n] = <<>>
    /\ \A n, p \in up : net[n][p] = <<>> /\ (n # p => p \in knows[n])
=============================================================================
