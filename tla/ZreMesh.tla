------------------------------- MODULE ZreMesh -------------------------------
(***************************************************************************)
(* The peer mesh of zre/node.py in beacon mode: discovery by UDP beacon,   *)
(* the HELLO handshake over one DEALER per peer, group membership, and the *)
(* ways a peer is lost (port-0 beacon, expiry, a full send queue, a crash).*)
(*                                                                         *)
(* A node is named by its uuid.  Everything a handler of Node does between *)
(* two polls is one action: the run loop is a single coroutine that does   *)
(* not yield inside a handler.  Elections (no contest group is set), Curve *)
(* keys, connect_peer and the gossip hub are left out; so are the timers,  *)
(* of which only the effect remains: a peer may be expired once nothing of *)
(* it arrives (see `cut').                                                 *)
(***************************************************************************)
EXTENDS Naturals, Sequences, FiniteSets

CONSTANTS
    Node,    \* uuids
    Group,   \* group names
    HWM,     \* SNDHWM of a peer's DEALER: messages queued before EAGAIN
    Bound    \* how often each kind of environment step may happen

Kinds == {"op", "boot", "stop", "crash", "cut"}

ASSUME HWMAssumption == HWM \in Nat \ {0}
ASSUME BoundAssumption == Bound \in [Kinds -> Nat]

VARIABLES
    phase,    \* phase[n]: "down", "up" (_running) or "closing" (inside stop())
    known,    \* known[n]: keys of _peers
    linked,   \* linked[n]: peers whose Peer.connected holds
    ready,    \* ready[n]: peers whose Peer.ready holds
    pgroups,  \* pgroups[n][p]: Peer.groups of p as n has it
    members,  \* members[n][g]: keys of Group.peers
    own,      \* own[n]: _own_groups
    seen,     \* seen[n]: peers for which n's application got ENTER and no EXIT
    net,      \* net[n][p]: what n's DEALERs to p sent and p has not handled
    air,      \* air[n][p]: beacons of n on their way to p
    cut,      \* cut[n][p]: p hears nothing of n for the expired timeout
    spent,    \* spent[k]: environment steps of kind k so far
    torn      \* torn[n]: peers whose session with n was ever interrupted

node == <<known, linked, ready, pgroups, members, own, seen>>
vars == <<phase, known, linked, ready, pgroups, members, own, seen, net, air,
          cut, spent, torn>>

Hello(G) == [type |-> "HELLO", groups |-> G]
Command(t, g) == [type |-> t, group |-> g]
Whisper == [type |-> "WHISPER"]

Message ==
    [type : {"HELLO"}, groups : SUBSET Group]
        \cup [type : {"JOIN", "LEAVE", "SHOUT"}, group : Group]
        \cup {Whisper}

TypeOK ==
    /\ phase \in [Node -> {"down", "up", "closing"}]
    /\ known \in [Node -> SUBSET Node]
    /\ linked \in [Node -> SUBSET Node]
    /\ ready \in [Node -> SUBSET Node]
    /\ pgroups \in [Node -> [Node -> SUBSET Group]]
    /\ members \in [Node -> [Group -> SUBSET Node]]
    /\ own \in [Node -> SUBSET Group]
    /\ seen \in [Node -> SUBSET Node]
    /\ net \in [Node -> [Node -> Seq(Message)]]
    /\ air \in [Node -> [Node -> SUBSET {"here", "gone"}]]
    /\ cut \in [Node -> [Node -> BOOLEAN]]
    /\ spent \in [Kinds -> Nat]
    /\ torn \in [Node -> SUBSET Node]

\* No process has run yet.
Fresh ==
    /\ phase = [n \in Node |-> "down"]
    /\ known = [n \in Node |-> {}]
    /\ linked = [n \in Node |-> {}]
    /\ ready = [n \in Node |-> {}]
    /\ pgroups = [n \in Node |-> [p \in Node |-> {}]]
    /\ members = [n \in Node |-> [g \in Group |-> {}]]
    /\ own = [n \in Node |-> {}]
    /\ seen = [n \in Node |-> {}]
    /\ net = [n \in Node |-> [p \in Node |-> <<>>]]
    /\ air = [n \in Node |-> [p \in Node |-> {}]]
    /\ cut = [n \in Node |-> [p \in Node |-> FALSE]]
    /\ torn = [n \in Node |-> {}]

Init == Fresh /\ spent = [k \in Kinds |-> 0]

-----------------------------------------------------------------------------
(* Helpers shared by the handlers *)

Up(n) == phase[n] = "up"

\* A budgeted step of the environment.
Charge(k) ==
    /\ spent[k] < Bound[k]
    /\ spent' = [spent EXCEPT ![k] = @ + 1]

\* The pairs {n, q}, q in Q, are no longer in their first undisturbed session.
Tear(n, Q) ==
    torn' = [m \in Node |-> IF m = n THEN torn[n] \cup (Q \ {n})
                            ELSE IF m \in Q THEN torn[m] \cup {n}
                            ELSE torn[m]]

\* A UDP broadcast of n: every other node may receive it, or none.
Cast(n, b) ==
    air' = [air EXCEPT ![n] = [q \in Node |-> IF q = n THEN @[q]
                                              ELSE @[q] \cup {b}]]

\* The peers among T that n still has a DEALER to, with or without room.
Clogged(n, T) == {q \in T \cap linked[n] : Len(net[n][q]) >= HWM}

\* Peer.send_encoded to every peer of T: one that is not connected is skipped,
\* a full queue (EAGAIN) tears the connection down but keeps the table entry.
Post(n, T, m) ==
    /\ net' = [net EXCEPT ![n] = [q \in Node |->
                  IF q \in (T \cap linked[n]) \ Clogged(n, T)
                  THEN Append(@[q], m) ELSE @[q]]]
    /\ linked' = [linked EXCEPT ![n] = @ \ Clogged(n, T)]
    /\ ready' = [ready EXCEPT ![n] = @ \ Clogged(n, T)]
    /\ Tear(n, Clogged(n, T))

\* p is taken out of every group of G: Peer.groups and Group.peers.
Withdraw(n, p, G) ==
    /\ pgroups' = [pgroups EXCEPT ![n][p] = @ \ G]
    /\ members' = [members EXCEPT ![n] = [g \in Group |->
                      IF g \in G THEN @[g] \ {p} ELSE @[g]]]

\* p is entered into every group of G.
Enrol(n, p, G) ==
    /\ pgroups' = [pgroups EXCEPT ![n][p] = @ \cup G]
    /\ members' = [members EXCEPT ![n] = [g \in Group |->
                      IF g \in G THEN @[g] \cup {p} ELSE @[g]]]

\* Mutant of Drop: the entry forgets its groups, the groups keep the entry.
DropUnlisted(n, p) ==
    /\ pgroups' = [pgroups EXCEPT ![n][p] = {}]
    /\ known' = [known EXCEPT ![n] = @ \ {p}]
    /\ linked' = [linked EXCEPT ![n] = @ \ {p}]
    /\ ready' = [ready EXCEPT ![n] = @ \ {p}]
    /\ seen' = [seen EXCEPT ![n] = @ \ {p}]
    /\ Tear(n, {p})
    /\ UNCHANGED members

\* _remove_peer: out of every group it was in, disconnected, EXIT emitted.
Drop(n, p) ==
    /\ Withdraw(n, p, pgroups[n][p])
    /\ known' = [known EXCEPT ![n] = @ \ {p}]
    /\ linked' = [linked EXCEPT ![n] = @ \ {p}]
    /\ ready' = [ready EXCEPT ![n] = @ \ {p}]
    /\ seen' = [seen EXCEPT ![n] = @ \ {p}]
    /\ Tear(n, {p})

-----------------------------------------------------------------------------
(* Life cycle: start(), stop() and the crash of a process *)

\* Nothing of an earlier session is left between n and p.
Clean(n, p) ==
    /\ p \notin known[n] /\ n \notin known[p]
    /\ net[n][p] = <<>> /\ net[p][n] = <<>>
    /\ air[n][p] = {} /\ air[p][n] = {}

\* The state of a Node object before start().
Forget(n) ==
    /\ known' = [known EXCEPT ![n] = {}]
    /\ linked' = [linked EXCEPT ![n] = {}]
    /\ ready' = [ready EXCEPT ![n] = {}]
    /\ pgroups' = [pgroups EXCEPT ![n] = [p \in Node |-> {}]]
    /\ members' = [members EXCEPT ![n] = [g \in Group |-> {}]]
    /\ own' = [own EXCEPT ![n] = {}]
    /\ seen' = [seen EXCEPT ![n] = {}]

\* A new Node object with this uuid on its (fixed) port; start() beacons.  A
\* pair with no trace of an earlier session starts undisturbed.
Boot(n) ==
    /\ phase[n] = "down"
    /\ Charge("boot")
    /\ phase' = [phase EXCEPT ![n] = "up"]
    /\ Forget(n)
    /\ torn' = [m \in Node |->
                  {q \in torn[m] : ~(n \in {m, q} /\ Clean(m, q))}]
    /\ Cast(n, "here")
    /\ UNCHANGED <<net, cut>>

\* stop(), first half: the port-0 beacon.  The LEAVEs follow, then Close; the
\* node handles nothing in between, other nodes may.
Stop(n) ==
    /\ Up(n)
    /\ Charge("stop")
    /\ phase' = [phase EXCEPT ![n] = "closing"]
    /\ Cast(n, "gone")
    /\ Tear(n, Node)
    /\ UNCHANGED <<node, net, cut>>

\* stop(), second half: every DEALER closed, _peers cleared; _groups stays.
Close(n) ==
    /\ phase[n] = "closing"
    /\ own[n] = {}
    /\ phase' = [phase EXCEPT ![n] = "down"]
    /\ known' = [known EXCEPT ![n] = {}]
    /\ linked' = [linked EXCEPT ![n] = {}]
    /\ ready' = [ready EXCEPT ![n] = {}]
    /\ pgroups' = [pgroups EXCEPT ![n] = [p \in Node |-> {}]]
    /\ UNCHANGED <<members, own, seen, net, air, cut, spent, torn>>

\* The process dies: nothing is announced, its memory is gone.
Crash(n) ==
    /\ phase[n] # "down"
    /\ Charge("crash")
    /\ phase' = [phase EXCEPT ![n] = "down"]
    /\ Forget(n)
    /\ Tear(n, Node)
    /\ UNCHANGED <<net, air, cut>>

-----------------------------------------------------------------------------
(* The application's commands, executed by the run loop *)

\* Mutant of Join: JOIN only to the peers that are ready.
JoinReady(n, g) ==
    /\ Up(n)
    /\ g \notin own[n]
    /\ Charge("op")
    /\ own' = [own EXCEPT ![n] = @ \cup {g}]
    /\ Post(n, ready[n], Command("JOIN", g))
    /\ UNCHANGED <<phase, known, pgroups, members, seen, air, cut>>

\* _join_group: JOIN to every entry of _peers, greeted or not.
Join(n, g) ==
    /\ Up(n)
    /\ g \notin own[n]
    /\ Charge("op")
    /\ own' = [own EXCEPT ![n] = @ \cup {g}]
    /\ Post(n, known[n], Command("JOIN", g))
    /\ UNCHANGED <<phase, known, pgroups, members, seen, air, cut>>

\* _leave_group, as a command or for each own group within stop().
Leave(n, g) ==
    /\ g \in own[n]
    /\ \/ Up(n) /\ Charge("op")
       \/ phase[n] = "closing" /\ UNCHANGED spent
    /\ own' = [own EXCEPT ![n] = @ \ {g}]
    /\ Post(n, known[n], Command("LEAVE", g))
    /\ UNCHANGED <<phase, known, pgroups, members, seen, air, cut>>

\* _do_shout: to the peers that n counts as members, joined itself or not.
Shout(n, g) ==
    /\ Up(n)
    /\ Charge("op")
    /\ Post(n, members[n][g], Command("SHOUT", g))
    /\ UNCHANGED <<phase, known, pgroups, members, own, seen, air, cut>>

\* _do_whisper: to a connected entry of _peers, ready or not.
SendWhisper(n, p) ==
    /\ Up(n)
    /\ p \in linked[n]
    /\ Charge("op")
    /\ Post(n, {p}, Whisper)
    /\ UNCHANGED <<phase, known, pgroups, members, own, seen, air, cut>>

-----------------------------------------------------------------------------
(* Beacons: _send_beacon and _handle_beacon *)

SendBeacon(n) ==
    /\ Up(n)
    /\ Cast(n, "here")
    /\ UNCHANGED <<phase, node, net, cut, spent, torn>>

\* n takes beacon b of p from the air.
Hear(n, p, b) ==
    /\ Up(n)
    /\ b \in air[p][n]
    /\ ~cut[p][n]
    /\ air' = [air EXCEPT ![p][n] = @ \ {b}]
    /\ UNCHANGED <<phase, own, cut, spent>>

\* A known peer is refreshed.
RecvHereKnown(n, p) ==
    /\ Hear(n, p, "here")
    /\ p \in known[n]
    /\ UNCHANGED <<known, linked, ready, pgroups, members, seen, net, torn>>

\* Mutant of Discover: HELLO lists the known peers in place of the own groups.
DiscoverMixedUp(n, p) ==
    /\ Hear(n, p, "here")
    /\ p \notin known[n]
    /\ known' = [known EXCEPT ![n] = @ \cup {p}]
    /\ linked' = [linked EXCEPT ![n] = @ \cup {p}]
    /\ net' = [net EXCEPT ![n][p] = Append(@, Hello(known[n] \cup {p}))]
    /\ UNCHANGED <<ready, pgroups, members, seen, torn>>

\* A new uuid is dialled; HELLO is the first message of the fresh DEALER.
Discover(n, p) ==
    /\ Hear(n, p, "here")
    /\ p \notin known[n]
    /\ known' = [known EXCEPT ![n] = @ \cup {p}]
    /\ linked' = [linked EXCEPT ![n] = @ \cup {p}]
    /\ net' = [net EXCEPT ![n][p] = Append(@, Hello(own[n]))]
    /\ UNCHANGED <<ready, pgroups, members, seen, torn>>

\* Mutant of RecvGone: the connection of the removed peer is not closed.
RecvGoneOpen(n, p) ==
    /\ Hear(n, p, "gone")
    /\ known' = [known EXCEPT ![n] = @ \ {p}]
    /\ ready' = [ready EXCEPT ![n] = @ \ {p}]
    /\ seen' = [seen EXCEPT ![n] = @ \ {p}]
    /\ Withdraw(n, p, Group)
    /\ UNCHANGED <<linked, net, torn>>

\* Port 0: the peer is removed, ready or not; an unknown uuid is ignored.
RecvGone(n, p) ==
    /\ Hear(n, p, "gone")
    /\ UNCHANGED net
    /\ IF p \in known[n]
       THEN Drop(n, p)
       ELSE UNCHANGED <<known, linked, ready, pgroups, members, seen, torn>>

\* UDP loses a beacon.
LoseBeacon(n, p, b) ==
    /\ b \in air[p][n]
    /\ air' = [air EXCEPT ![p][n] = @ \ {b}]
    /\ UNCHANGED <<phase, node, net, cut, spent, torn>>

-----------------------------------------------------------------------------
(* Messages on the ROUTER: _handle_peer_msg and _handle_hello *)

\* Mutant of Take: messages are still handled while stop() runs.
TakeClosing(n, p, T) ==
    /\ phase[n] # "down"
    /\ ~cut[p][n]
    /\ net[p][n] # <<>>
    /\ Head(net[p][n]).type \in T
    /\ UNCHANGED <<phase, own, air, cut, spent>>

\* n takes the next message of p, of one of types T, from its ROUTER.
Take(n, p, T) ==
    /\ Up(n)
    /\ ~cut[p][n]
    /\ net[p][n] # <<>>
    /\ Head(net[p][n]).type \in T
    /\ UNCHANGED <<phase, own, air, cut, spent>>

Enter(n, p) ==
    /\ ready' = [ready EXCEPT ![n] = @ \cup {p}]
    /\ seen' = [seen EXCEPT ![n] = @ \cup {p}]

Consume(n, p) == net' = [net EXCEPT ![p][n] = Tail(@)]

\* HELLO of a ready peer: refreshed in place, its groups are not looked at,
\* and it gets no answer.
HelloRefresh(n, p) ==
    /\ Take(n, p, {"HELLO"})
    /\ p \in ready[n]
    /\ Consume(n, p)
    /\ UNCHANGED <<known, linked, ready, pgroups, members, seen, torn>>

\* Mutant of HelloComplete: HELLO is answered though the peer was greeted.
HelloAnswered(n, p) ==
    /\ Take(n, p, {"HELLO"})
    /\ p \in known[n] \ ready[n]
    /\ LET taken == [net EXCEPT ![p][n] = Tail(@)]
       IN  net' = [taken EXCEPT ![n][p] = Append(@, Hello(own[n]))]
    /\ Enter(n, p)
    /\ Enrol(n, p, Head(net[p][n]).groups)
    /\ UNCHANGED <<known, linked, torn>>

\* HELLO of a peer that n found by beacon and has greeted: no answer.
HelloComplete(n, p) ==
    /\ Take(n, p, {"HELLO"})
    /\ p \in known[n] \ ready[n]
    /\ Consume(n, p)
    /\ Enter(n, p)
    /\ Enrol(n, p, Head(net[p][n]).groups)
    /\ UNCHANGED <<known, linked, torn>>

\* Mutant of HelloAdmit: HELLO is not answered.
HelloUnanswered(n, p) ==
    /\ Take(n, p, {"HELLO"})
    /\ p \notin known[n]
    /\ known' = [known EXCEPT ![n] = @ \cup {p}]
    /\ linked' = [linked EXCEPT ![n] = @ \cup {p}]
    /\ Consume(n, p)
    /\ Enter(n, p)
    /\ Enrol(n, p, Head(net[p][n]).groups)
    /\ UNCHANGED torn

\* HELLO of an unknown uuid: dialled, ready at once, answered with HELLO.
HelloAdmit(n, p) ==
    /\ Take(n, p, {"HELLO"})
    /\ p \notin known[n]
    /\ known' = [known EXCEPT ![n] = @ \cup {p}]
    /\ linked' = [linked EXCEPT ![n] = @ \cup {p}]
    /\ LET taken == [net EXCEPT ![p][n] = Tail(@)]
       IN  net' = [taken EXCEPT ![n][p] = Append(@, Hello(own[n]))]
    /\ Enter(n, p)
    /\ Enrol(n, p, Head(net[p][n]).groups)
    /\ UNCHANGED torn

\* Mutant of RecvJoin: a peer that is not ready may join.
RecvJoinEarly(n, p) ==
    /\ Take(n, p, {"JOIN"})
    /\ p \in known[n]
    /\ Consume(n, p)
    /\ Enrol(n, p, {Head(net[p][n]).group})
    /\ UNCHANGED <<known, linked, ready, seen, torn>>

RecvJoin(n, p) ==
    /\ Take(n, p, {"JOIN"})
    /\ p \in ready[n]
    /\ Consume(n, p)
    /\ Enrol(n, p, {Head(net[p][n]).group})
    /\ UNCHANGED <<known, linked, ready, seen, torn>>

RecvLeave(n, p) ==
    /\ Take(n, p, {"LEAVE"})
    /\ p \in ready[n]
    /\ Consume(n, p)
    /\ Withdraw(n, p, {Head(net[p][n]).group})
    /\ UNCHANGED <<known, linked, ready, seen, torn>>

\* WHISPER and SHOUT only reach the application.
RecvData(n, p) ==
    /\ Take(n, p, {"WHISPER", "SHOUT"})
    /\ p \in ready[n]
    /\ Consume(n, p)
    /\ UNCHANGED <<known, linked, ready, pgroups, members, seen, torn>>

\* Anything but HELLO from a uuid that is unknown or not ready is dropped.
RecvIgnored(n, p) ==
    /\ Take(n, p, {"JOIN", "LEAVE", "WHISPER", "SHOUT"})
    /\ p \notin ready[n]
    /\ Consume(n, p)
    /\ UNCHANGED <<known, linked, ready, pgroups, members, seen, torn>>

Receive(n, p) ==
    \/ HelloRefresh(n, p) \/ HelloComplete(n, p) \/ HelloAdmit(n, p)
    \/ RecvJoin(n, p) \/ RecvLeave(n, p)
    \/ RecvData(n, p) \/ RecvIgnored(n, p)

-----------------------------------------------------------------------------
(* Silence and expiry; what libzmq loses *)

\* From now on n hears nothing of p for longer than the expired timeout: a
\* partition, or one of the two processes stalled.
Silence(n, p) ==
    /\ n # p
    /\ ~cut[p][n]
    /\ Charge("cut")
    /\ cut' = [cut EXCEPT ![p][n] = TRUE]
    /\ UNCHANGED <<phase, node, net, air, torn>>

Resume(n, p) ==
    /\ cut[p][n]
    /\ cut' = [cut EXCEPT ![p][n] = FALSE]
    /\ UNCHANGED <<phase, node, net, air, spent, torn>>

\* Nothing of p reaches n, and nothing is about to.
Silent(n, p) ==
    \/ cut[p][n]
    \/ phase[p] = "down" /\ air[p][n] = {} /\ net[p][n] = <<>>

\* Mutant of Expire: a peer that was never ready does not expire.
ExpireReady(n, p) ==
    /\ Up(n)
    /\ p \in ready[n]
    /\ Silent(n, p)
    /\ Drop(n, p)
    /\ UNCHANGED <<phase, own, net, air, cut, spent>>

\* _reap: a peer silent for the expired timeout is removed.
Expire(n, p) ==
    /\ Up(n)
    /\ p \in known[n]
    /\ Silent(n, p)
    /\ Drop(n, p)
    /\ UNCHANGED <<phase, own, net, air, cut, spent>>

\* linger=0: what a closed DEALER of n had not transmitted is lost.
Discard(n, p) ==
    /\ p \notin linked[n]
    /\ net[n][p] # <<>>
    /\ net' = [net EXCEPT ![n][p] = SubSeq(@, 1, Len(@) - 1)]
    /\ UNCHANGED <<phase, node, air, cut, spent, torn>>

\* What was on its way to a process that died is lost; libzmq keeps the rest
\* for the process that binds the port next.
Perish(n, p) ==
    /\ phase[p] = "down"
    /\ net[n][p] # <<>>
    /\ net' = [net EXCEPT ![n][p] = Tail(@)]
    /\ UNCHANGED <<phase, node, air, cut, spent, torn>>

-----------------------------------------------------------------------------

Next ==
    \/ \E n \in Node :
          \/ Boot(n) \/ Stop(n) \/ Close(n) \/ Crash(n) \/ SendBeacon(n)
          \/ \E g \in Group : Join(n, g) \/ Leave(n, g) \/ Shout(n, g)
    \/ \E n, p \in Node :
          \/ SendWhisper(n, p)
          \/ RecvHereKnown(n, p) \/ Discover(n, p) \/ RecvGone(n, p)
          \/ \E b \in {"here", "gone"} : LoseBeacon(n, p, b)
          \/ Receive(n, p)
          \/ Silence(n, p) \/ Resume(n, p) \/ Expire(n, p)
          \/ Discard(n, p) \/ Perish(n, p)

Spec == Init /\ [][Next]_vars

-----------------------------------------------------------------------------
(* Safety *)

\* Both run and nothing ever interrupted them: no peer of the pair was removed,
\* stopped, crashed or cut off by a full queue.
Undisturbed(n, p) == n # p /\ Up(n) /\ Up(p) /\ p \notin torn[n]

\* The two indexes of membership agree: Group.peers (peers_by_group, the
\* targets of a SHOUT) lists p exactly when the entry of p in _peers lists the
\* group.  Six handlers update them separately (node.py:1832-1836, 1981-2000,
\* 2121-2127, 2158-2162); a peer removed with a group left behind would be
\* shouted to for ever.
GroupIndex ==
    \A n \in Node : Up(n) =>
        \A g \in Group, p \in Node :
            p \in members[n][g] <=> p \in known[n] /\ g \in pgroups[n][p]

\* What the application was told (ENTER, EXIT) brackets what the node acts on:
\* every ready peer was announced, every announced peer is still in _peers
\* (and so in peers()), and nobody is in a group before ENTER.
AppView ==
    \A n \in Node : Up(n) =>
        /\ ready[n] \subseteq seen[n]
        /\ seen[n] \subseteq known[n]
        /\ \A p \in Node : pgroups[n][p] # {} => p \in seen[n]

\* Between undisturbed nodes no message is lost to the "not ready" check of
\* _handle_peer_msg: whatever is not HELLO finds its sender ready, however
\* the beacons, the two HELLOs and the commands interleave.
NeverDeaf ==
    \A n, p \in Node : Undisturbed(n, p) =>
        (net[p][n] # <<>> /\ Head(net[p][n]).type # "HELLO" => p \in ready[n])

\* Between undisturbed nodes HELLO leads the connection, there is at most one,
\* and a ready peer is never greeted again, so no HELLO storm ("HELLO is always
\* the first command on a fresh DEALER", node.py:1897).
HelloFirst ==
    \A n, p \in Node : Undisturbed(n, p) =>
        \A i \in DOMAIN net[p][n] :
            net[p][n][i].type = "HELLO" => i = 1 /\ p \notin ready[n]

Affirms(m, g) ==
    \/ m.type = "HELLO" /\ g \in m.groups
    \/ m.type = "JOIN" /\ m.group = g
Denies(m, g) ==
    \/ m.type = "HELLO" /\ g \notin m.groups
    \/ m.type = "LEAVE" /\ m.group = g
Says(m, g, b) == IF b THEN Affirms(m, g) ELSE Denies(m, g)
Tells(m, g) == Affirms(m, g) \/ Denies(m, g)

\* No message of queue q is about g.
Quiet(q, g) == \A j \in DOMAIN q : ~Tells(q[j], g)

\* The last message of q about g says what b says.
LastTells(q, g, b) ==
    \E i \in DOMAIN q :
        /\ Says(q[i], g, b)
        /\ \A j \in DOMAIN q : j > i => ~Tells(q[j], g)

\* What p has of n's membership in g is right, up to what is on its way.
Agrees(n, p, g) ==
    \/ LastTells(net[n][p], g, g \in own[n])
    \/ Quiet(net[n][p], g) /\ (g \in own[n] <=> g \in pgroups[p][n])

\* Between undisturbed nodes the view that p has of n's groups is n's own, up
\* to what is still on its way: the last message about a group that p has not
\* handled says whether n is in it, and if there is none p has it right.  A
\* JOIN or LEAVE that races the handshake is neither missed nor undone by the
\* group list of the HELLO.
ViewAgrees ==
    \A n, p \in Node : Undisturbed(n, p) /\ p \in known[n] =>
        \A g \in Group : Agrees(n, p, g)

-----------------------------------------------------------------------------
(* The inductive strengthening of the properties above *)

\* One node's own tables.
Local(n) ==
    /\ \A g \in Group, p \in Node : p \in members[n][g] <=> g \in pgroups[n][p]
    /\ \A p \in Node : pgroups[n][p] # {} => p \in seen[n]
    /\ ready[n] \subseteq seen[n]
    /\ seen[n] \subseteq known[n]
    /\ linked[n] \subseteq known[n]

\* Every node's tables are consistent while it runs, and empty while it is down.
Tables ==
    \A n \in Node : IF phase[n] = "down" THEN known[n] = {} /\ linked[n] = {}
                    ELSE Local(n)

\* HELLO is the first message of q if `greeting' holds, and no other is HELLO.
Leads(q, greeting) ==
    \A i \in DOMAIN q : q[i].type = "HELLO" <=> i = 1 /\ greeting

\* Between undisturbed nodes: n greets p once, when it enters p in its table,
\* and until p handles the HELLO it leads n's queue and n is not ready at p.
Greeted(n, p) ==
    /\ p \in known[n] => p \in linked[n]
    /\ p \in seen[n] => p \in ready[n]
    /\ p \notin known[n] => net[n][p] = <<>> /\ n \notin ready[p]
    /\ p \in known[n] /\ n \notin ready[p] => net[n][p] # <<>>
    /\ Leads(net[n][p], n \notin ready[p])

\* A pair that has not met: at least one of the two is not running yet.
Unmet(n, p) ==
    /\ p \notin known[n]
    /\ net[n][p] = <<>>
    /\ ~Up(n) => air[n][p] = {}

\* The handshake invariant: what every session looks like that was never
\* interrupted, from before both nodes run.
Session(n, p) ==
    n # p /\ p \notin torn[n] =>
        IF Up(n) /\ Up(p) THEN Greeted(n, p) ELSE Unmet(n, p)

Handshake ==
    /\ Tables
    /\ \A n, p \in Node : p \in torn[n] <=> n \in torn[p]
    /\ \A n, p \in Node : Session(n, p)

-----------------------------------------------------------------------------
(* Liveness.  The run loop never stops polling, so every queued message and  *)
(* every beacon that the network delivers is handled, a beacon is sent every *)
(* interval, the reaper runs every second, and a stopping node finishes.     *)
(* The network does not lose every beacon, and a cut ends.                   *)

Fairness ==
    /\ \A n \in Node :
          /\ WF_vars(SendBeacon(n))
          /\ WF_vars(Close(n))
          /\ \A g \in Group : WF_vars(phase[n] = "closing" /\ Leave(n, g))
    /\ \A n, p \in Node :
          /\ WF_vars(Receive(n, p))
          /\ SF_vars(RecvHereKnown(n, p) \/ Discover(n, p))
          /\ SF_vars(RecvGone(n, p) \/ LoseBeacon(n, p, "gone"))
          /\ WF_vars(Expire(n, p))
          /\ WF_vars(Resume(n, p))
          /\ WF_vars(Perish(n, p))

LiveSpec == Spec /\ Fairness

\* Two nodes that both run from some point on end up ready for each other.
\* PROTOCOL.md:63: "HELLO is answered with HELLO so both sides reach readiness".
BothReady ==
    \A n, p \in Node : n # p =>
        (<>[](Up(n) /\ Up(p)) => <>[](p \in ready[n] /\ n \in ready[p]))

\* A node that is gone for good is forgotten by every node that runs on, by
\* its port-0 beacon or by expiry, late HELLOs and stale beacons notwithstanding.
DepartedForgotten ==
    \A n, p \in Node :
        <>[](Up(n) /\ phase[p] = "down") => <>[](p \notin known[n])
=============================================================================
