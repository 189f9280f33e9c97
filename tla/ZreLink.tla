------------------------------ MODULE ZreLink ------------------------------
(***************************************************************************)
(* The timers and the sequence numbers of a connection in zre/node.py:     *)
(* PING and PING_OK, EVASIVE and its throttle, expiry, and the numbers     *)
(* that Peer.next_seq stamps and Peer.check_seq compares.  Two of the      *)
(* applications of examples/ that follow a node's events come with it: the *)
(* status of health_monitor.py and the registry of service_discovery.py.   *)
(*                                                                         *)
(* A tick is one interval of the reaper.  Within a tick every node handles *)
(* what it was sent and reaps once, in any order, unless it is asleep: its *)
(* application blocks the event loop.  Nodes hear of each other by beacons *)
(* or gossip tuples, or dial each other by address; nothing but PING keeps *)
(* a quiet connection alive in between.                                    *)
(***************************************************************************)
EXTENDS Naturals, Sequences, FiniteSetsExt

CONSTANTS
    Node,
    EV, EX, IV,  \* _ev_timeout, _ex_timeout, _evasive_emit_interval, in ticks
    Width,       \* sequence numbers are modulo Width (2^16)
    HWM,         \* a queue of fewer messages than this refuses none (SNDHWM)
    Bound,       \* how often each kind of environment step may happen
    Total        \* how many of those steps may happen in all

Kinds == {"dial", "announce", "whisper", "depart", "sleep", "jam"}

ASSUME TimeAssumption == {EV, EX, IV} \subseteq Nat \ {0} /\ EV < EX
ASSUME WidthAssumption == Width \in Nat /\ Width > 3
ASSUME QueueAssumption == HWM \in Nat \ {0}
ASSUME BoundAssumption == Bound \in [Kinds -> Nat] /\ Total \in Nat

VARIABLES
    live,      \* nodes that run
    asleep,    \* running nodes that handle nothing in this tick
    reaped,    \* nodes whose reaper ran in this tick
    peer,      \* peer[n][p]: n's Peer of p, in _peers or in _pending
    emitted,   \* emitted[n][p]: ticks since _evasive_emit_at, at most IV
    net,       \* net[n][p]: what n sent p and p has not handled
    status,    \* status[n][p]: HealthMonitor.peers of n's application
    services,  \* services[n]: the registry of n's application
    hush,      \* history: ticks since n reported p EVASIVE, at most IV; IV again
               \* once p sent a HELLO or WHISPER that n took, or left
    spent      \* spent[k]: environment steps of kind k so far

app == <<status, services>>
vars == <<live, asleep, reaped, peer, emitted, net, status, services, hush, spent>>

Commands == {"HELLO", "WHISPER", "PING", "PING_OK", "GOODBYE"}

\* A Peer: a placeholder, in _peers, in _peers and ready; on is its connected.
\* evasive and expired are the ticks since evasive_at and expired_at were set.
NoPeer == [kind |-> "none", on |-> FALSE, sent |-> 0, want |-> 0, evasive |-> 0, expired |-> 0]
Peer == [kind : {"none", "pending", "known", "ready"}, on : BOOLEAN,
         sent : 0 .. Width - 1, want : 0..Width,
         evasive : 0 .. EV + 1, expired : 0 .. EX + 1]

TypeOK ==
    /\ asleep \subseteq live /\ reaped \subseteq live /\ live \subseteq Node
    /\ peer \in [Node -> [Node -> Peer]]
    /\ \A n \in Node : peer[n][n] = NoPeer
    /\ emitted \in [Node -> [Node -> 0..IV]]
    /\ net \in [Node -> [Node -> Seq([cmd : Commands, seq : 0 .. Width - 1])]]
    /\ status \in [Node -> [Node -> {"unknown", "healthy", "evasive", "dead"}]]
    /\ services \in [Node -> SUBSET Node]
    /\ hush \in [Node -> [Node -> 0..IV]]
    /\ spent \in [Kinds -> Nat]

Init ==
    /\ live = Node
    /\ asleep = {}
    /\ reaped = {}
    /\ peer = [n \in Node |-> [p \in Node |-> NoPeer]]
    /\ emitted = [n \in Node |-> [p \in Node |-> IV]]
    /\ net = [n \in Node |-> [p \in Node |-> <<>>]]
    /\ status = [n \in Node |-> [p \in Node |-> "unknown"]]
    /\ services = [n \in Node |-> {}]
    /\ hush = emitted
    /\ spent = [k \in Kinds |-> 0]

-----------------------------------------------------------------------------
(* Helpers *)

Charge(k) ==
    /\ spent[k] < Bound[k]
    /\ MapThenSumSet(LAMBDA x : spent[x], Kinds) < Total
    /\ spent' = [spent EXCEPT ![k] = @ + 1]

Awake == live \ asleep

InTable(n, p) == peer[n][p].kind \in {"known", "ready"}
Ready(n, p) == peer[n][p].kind = "ready"

\* Peer.refresh.
Refresh(e) == [e EXCEPT !.evasive = 0, !.expired = 0]

\* Mutant of NextSeq: the counter is not masked.
NextSeqUnmasked(e) == e.sent + 1

\* Peer.next_seq.
NextSeq(e) == (e.sent + 1) % Width

\* Peer.send_encoded on a connection: e after it, and the links if zmq queues cmd.
Stamped(e) == [e EXCEPT !.sent = NextSeq(e)]
Posted(links, n, p, e, cmd) ==
    [links EXCEPT ![n][p] = Append(@, [cmd |-> cmd, seq |-> NextSeq(e)])]

\* If it does not (EAGAIN), the peer is disconnected: no longer ready, but still in
\* the table, and nobody is told.  A HELLO is among the first two messages of a
\* connection, which a queue of 1000 does not refuse.
CanJam(n, p) == peer[n][p].on /\ Len(net[n][p]) >= HWM
Cut(e) == [Stamped(e) EXCEPT !.on = FALSE, !.kind = "known"]

\* What is left of the queue q to p when its DEALER is closed with linger 0.
Written(q, p) == {SubSeq(q, 1, i) : i \in IF p \in live THEN 0..Len(q) ELSE {0}}

Set(n, p, e) == peer' = [peer EXCEPT ![n][p] = e]

\* _evasive_emit_at forgets p.
Rearm(n, p) == emitted' = [emitted EXCEPT ![n][p] = IV]

\* n's application hears of p again.
Heard(n, p) == hush' = [hush EXCEPT ![n][p] = IV]

\* The DEALER of n to p is closed.  While p runs everything was written to it.
Shut(links, n, P) ==
    [links EXCEPT ![n] = [p \in Node |-> IF p \in P \ live THEN <<>> ELSE @[p]]]

\* ENTER, EXIT and EVASIVE as the two applications take them.
Enter(n, p) ==
    /\ status' = [status EXCEPT ![n][p] = "healthy"]
    /\ services' = [services EXCEPT ![n] = @ \cup {p}]

Told(s, mark) == IF s = "unknown" THEN s ELSE mark

\* Peers Q exit and peers S are evasive.
Report(n, Q, S) ==
    /\ status' = [status EXCEPT ![n] = [p \in Node |->
           IF p \in Q THEN Told(@[p], "dead")
           ELSE IF p \in S THEN Told(@[p], "evasive") ELSE @[p]]]
    /\ services' = [services EXCEPT ![n] = @ \ Q]

-----------------------------------------------------------------------------
(* Meeting *)

\* connect_peer: a placeholder, greeted.
Dial(n, p) ==
    /\ n \in Awake /\ n # p
    /\ peer[n][p].kind = "none"
    /\ Charge("dial")
    /\ Set(n, p, [Stamped(NoPeer) EXCEPT !.kind = "pending", !.on = TRUE])
    /\ net' = Posted(net, n, p, NoPeer, "HELLO")
    /\ UNCHANGED <<live, asleep, reaped, emitted, hush, app>>

\* A beacon or tuple of p.  A peer of the table is refreshed; a placeholder is
\* adopted and greeted again; an unknown peer is dialled and greeted.
Announce(n, p) ==
    /\ n \in Awake /\ p \in live /\ n # p
    /\ IF InTable(n, p)
       THEN Set(n, p, Refresh(peer[n][p])) /\ UNCHANGED <<net, spent>>
       ELSE /\ Charge("announce")
            /\ Set(n, p, [Refresh(Stamped(peer[n][p])) EXCEPT !.kind = "known", !.on = TRUE])
            /\ net' = Posted(net, n, p, peer[n][p], "HELLO")
    /\ UNCHANGED <<live, asleep, reaped, emitted, hush, app>>

\* n takes the next message of p, which is a cmd.
Taking(n, p, cmd) ==
    /\ n \in Awake
    /\ net[p][n] # <<>>
    /\ Head(net[p][n]).cmd = cmd
    /\ UNCHANGED <<live, asleep, reaped>>

Take(n, p, cmd) == Taking(n, p, cmd) /\ UNCHANGED spent

Taken(n, p) == [net EXCEPT ![p][n] = Tail(@)]

\* HELLO.  It sets want_seq to 1 in an entry of the table only; it refreshes
\* every entry but one that waited for it, connected or not.
RecvHello(n, p) ==
    /\ Take(n, p, "HELLO")
    /\ Rearm(n, p)
    /\ Heard(n, p)
    /\ LET e == peer[n][p]
       IN  CASE e.kind = "ready" ->
                  /\ Set(n, p, [Refresh(e) EXCEPT !.want = 1])
                  /\ net' = Taken(n, p)
             [] e.kind = "known" ->
                  /\ Set(n, p, [e EXCEPT !.want = 1, !.kind = "ready"])
                  /\ net' = Taken(n, p)
             [] e.kind = "pending" ->
                  /\ Set(n, p, [Refresh(e) EXCEPT !.kind = "ready"])
                  /\ net' = Taken(n, p)
             [] OTHER ->
                  /\ Set(n, p, [Stamped(NoPeer) EXCEPT !.kind = "ready", !.on = TRUE])
                  /\ net' = Posted(Taken(n, p), n, p, NoPeer, "HELLO")
    /\ IF Ready(n, p) THEN UNCHANGED app ELSE Enter(n, p)

-----------------------------------------------------------------------------
(* Commands *)

\* whisper: to any connected peer of the table, ready or not.
Whisper(n, p) ==
    /\ n \in Awake
    /\ InTable(n, p) /\ peer[n][p].on
    /\ Charge("whisper")
    /\ Set(n, p, Stamped(peer[n][p]))
    /\ net' = Posted(net, n, p, peer[n][p], "WHISPER")
    /\ UNCHANGED <<live, asleep, reaped, emitted, hush, app>>

\* The queue is full.
WhisperCut(n, p) ==
    /\ n \in Awake
    /\ InTable(n, p) /\ CanJam(n, p)
    /\ Charge("jam")
    /\ Set(n, p, Cut(peer[n][p]))
    /\ \E q \in Written(net[n][p], p) : net' = [net EXCEPT ![n][p] = q]
    /\ UNCHANGED <<live, asleep, reaped, emitted, hush, app>>

\* Mutant of Checked: a gap is reported and the counter left alone.
CheckedOnce(e, seq) == [Refresh(e) EXCEPT !.want = (e.want + 1) % Width]

\* check_seq, and the correction after a gap; then the timers.
Checked(e, seq) == [Refresh(e) EXCEPT !.want = seq]

\* A gap is reported.
Gap(e, seq) == seq # e.want + 1

RecvWhisper(n, p) ==
    /\ Take(n, p, "WHISPER")
    /\ Ready(n, p)
    /\ Rearm(n, p)
    /\ Heard(n, p)
    /\ Set(n, p, Checked(peer[n][p], Head(net[p][n]).seq))
    /\ net' = Taken(n, p)
    /\ UNCHANGED app

\* Mutant of RecvPing: nothing is answered.
RecvPingMute(n, p) ==
    /\ Take(n, p, "PING")
    /\ Ready(n, p)
    /\ Set(n, p, Checked(peer[n][p], Head(net[p][n]).seq))
    /\ net' = Taken(n, p)
    /\ UNCHANGED <<emitted, hush, app>>

\* Answered, if there is a connection.
RecvPing(n, p) ==
    /\ Take(n, p, "PING")
    /\ Ready(n, p)
    /\ LET e == Checked(peer[n][p], Head(net[p][n]).seq)
       IN  IF e.on
           THEN Set(n, p, Stamped(e)) /\ net' = Posted(Taken(n, p), n, p, e, "PING_OK")
           ELSE Set(n, p, e) /\ net' = Taken(n, p)
    /\ UNCHANGED <<emitted, hush, app>>

\* The queue for the answer is full.
RecvPingCut(n, p) ==
    /\ Taking(n, p, "PING")
    /\ Ready(n, p) /\ CanJam(n, p)
    /\ Charge("jam")
    /\ Set(n, p, Cut(Checked(peer[n][p], Head(net[p][n]).seq)))
    /\ \E q \in Written(net[n][p], p) : net' = [Taken(n, p) EXCEPT ![n][p] = q]
    /\ UNCHANGED <<emitted, hush, app>>

\* Mutant of RecvPingOk: an answer counts as traffic of the application.
RecvPingOkRearms(n, p) ==
    /\ Take(n, p, "PING_OK")
    /\ Ready(n, p)
    /\ Rearm(n, p)
    /\ Set(n, p, Checked(peer[n][p], Head(net[p][n]).seq))
    /\ net' = Taken(n, p)
    /\ UNCHANGED <<hush, app>>

RecvPingOk(n, p) ==
    /\ Take(n, p, "PING_OK")
    /\ Ready(n, p)
    /\ Set(n, p, Checked(peer[n][p], Head(net[p][n]).seq))
    /\ net' = Taken(n, p)
    /\ UNCHANGED <<emitted, hush, app>>

\* Mutant of RecvGoodbye: no EXIT.
RecvGoodbyeSilent(n, p) ==
    /\ Take(n, p, "GOODBYE")
    /\ Ready(n, p)
    /\ Set(n, p, NoPeer)
    /\ Rearm(n, p)
    /\ Heard(n, p)
    /\ net' = Shut(Taken(n, p), n, {p})
    /\ UNCHANGED app

RecvGoodbye(n, p) ==
    /\ Take(n, p, "GOODBYE")
    /\ Ready(n, p)
    /\ Set(n, p, NoPeer)
    /\ Rearm(n, p)
    /\ Heard(n, p)
    /\ net' = Shut(Taken(n, p), n, {p})
    /\ Report(n, {p}, {})

\* A sender that is not ready is not listened to.
RecvIgnored(n, p) ==
    /\ \E cmd \in Commands \ {"HELLO"} : Take(n, p, cmd)
    /\ ~Ready(n, p)
    /\ net' = Taken(n, p)
    /\ UNCHANGED <<peer, emitted, hush, app>>

Receive(n, p) ==
    \/ RecvHello(n, p) \/ RecvWhisper(n, p) \/ RecvPing(n, p) \/ RecvPingCut(n, p)
    \/ RecvPingOk(n, p) \/ RecvGoodbye(n, p) \/ RecvIgnored(n, p)

-----------------------------------------------------------------------------
(* Time *)

Overdue(n) == {p \in Node : peer[n][p].kind # "none" /\ peer[n][p].expired > EX}
Quiet(n) == {p \in Node : InTable(n, p) /\ peer[n][p].evasive > EV} \ Overdue(n)

\* Mutant of Probed: the probe itself counts as a sign of life.
ProbedRefresh(e) == Refresh(IF e.on THEN Stamped(e) ELSE e)

\* A quiet peer, probed if there is a connection.
Probed(e) == [IF e.on THEN Stamped(e) ELSE e EXCEPT !.evasive = 0]

\* The peers whose silence the application is told of.
Noisy(n) == {p \in Quiet(n) : emitted[n][p] >= IV}

\* What may be left of the queues to some of the quiet peers, all of them full.
Jams(n) ==
    UNION {{left \in [J -> UNION {Written(net[n][p], p) : p \in J}] :
               \A p \in J : left[p] \in Written(net[n][p], p)} :
           J \in SUBSET {p \in Quiet(n) : CanJam(n, p)}}

\* _reap: who is overdue is removed, who is quiet is probed, and reported if it
\* was not lately.
Reap(n) ==
    /\ n \in Awake \ reaped
    /\ reaped' = reaped \cup {n}
    /\ \E left \in Jams(n) :
          /\ IF DOMAIN left = {} THEN UNCHANGED spent ELSE Charge("jam")
          /\ peer' = [peer EXCEPT ![n] = [p \in Node |->
                 IF p \in Overdue(n) THEN NoPeer
                 ELSE IF p \in DOMAIN left THEN [Cut(@[p]) EXCEPT !.evasive = 0]
                 ELSE IF p \in Quiet(n) THEN Probed(@[p]) ELSE @[p]]]
          /\ net' = [Shut(net, n, Overdue(n)) EXCEPT ![n] = [p \in Node |->
                 IF p \in DOMAIN left THEN left[p]
                 ELSE IF p \in Quiet(n) /\ peer[n][p].on
                 THEN Append(@[p], [cmd |-> "PING", seq |-> NextSeq(peer[n][p])])
                 ELSE @[p]]]
    /\ emitted' = [emitted EXCEPT ![n] = [p \in Node |->
           IF p \in Overdue(n) THEN IV ELSE IF p \in Noisy(n) THEN 0 ELSE @[p]]]
    /\ hush' = [hush EXCEPT ![n] = [p \in Node |->
           IF p \in Overdue(n) THEN IV ELSE IF p \in Noisy(n) THEN 0 ELSE @[p]]]
    /\ Report(n, {p \in Overdue(n) : InTable(n, p)}, Noisy(n))
    /\ UNCHANGED <<live, asleep>>

Older(age, limit) == IF age < limit THEN age + 1 ELSE limit

\* The next tick; S are asleep in it.
Tick(S) ==
    /\ Awake \subseteq reaped
    /\ \A n \in Awake, p \in Node : net[p][n] = <<>>
    /\ IF S = {} THEN UNCHANGED spent ELSE Charge("sleep")
    /\ reaped' = {}
    /\ asleep' = S
    /\ peer' = [n \in Node |-> [p \in Node |->
           IF peer[n][p].kind = "none" THEN NoPeer
           ELSE [peer[n][p] EXCEPT !.evasive = Older(@, EV + 1),
                                   !.expired = Older(@, EX + 1)]]]
    /\ emitted' = [n \in Node |-> [p \in Node |-> Older(emitted[n][p], IV)]]
    /\ hush' = [n \in Node |-> [p \in Node |-> Older(hush[n][p], IV)]]
    /\ UNCHANGED <<live, net, app>>

-----------------------------------------------------------------------------
(* Departure *)

\* n stops, with a GOODBYE to its peers (gossip mode), or dies without.
Depart(n) ==
    /\ n \in Awake
    /\ Charge("depart")
    /\ live' = live \ {n}
    /\ reaped' = reaped \ {n}
    /\ peer' = [peer EXCEPT ![n] = [p \in Node |-> NoPeer]]
    /\ emitted' = [emitted EXCEPT ![n] = [p \in Node |-> IV]]
    /\ hush' = [hush EXCEPT ![n] = [p \in Node |-> IV]]
    /\ status' = [status EXCEPT ![n] = [p \in Node |-> "unknown"]]
    /\ services' = [services EXCEPT ![n] = {}]
    /\ LET lost == [p \in Node |-> [Shut(net, n, Node)[p] EXCEPT ![n] = <<>>]]
       IN  \/ net' = lost
           \/ net' = [lost EXCEPT ![n] = [p \in Node |->
                  IF InTable(n, p) /\ peer[n][p].on /\ p \in live
                  THEN Append(@[p], [cmd |-> "GOODBYE", seq |-> NextSeq(peer[n][p])])
                  ELSE @[p]]]
    /\ UNCHANGED asleep

\* The node is started again, under its uuid and port.
Boot(n) ==
    /\ n \notin live
    /\ live' = live \cup {n}
    /\ UNCHANGED <<asleep, reaped, peer, emitted, net, app, hush, spent>>

-----------------------------------------------------------------------------

Next ==
    \/ \E n, p \in Node : Dial(n, p) \/ Announce(n, p) \/ Whisper(n, p) \/ WhisperCut(n, p)
                             \/ Receive(n, p)
    \/ \E n \in Node : Reap(n) \/ Depart(n) \/ Boot(n)
    \/ \E S \in {{}} \cup {{n} : n \in live} : Tick(S)

Spec == Init /\ [][Next]_vars

Fairness ==
    /\ \A n \in Node : WF_vars(Reap(n))
    /\ \A n, p \in Node : WF_vars(Receive(n, p))
    /\ WF_vars(Tick({}))

LiveSpec == Spec /\ Fairness

-----------------------------------------------------------------------------
(* Properties *)

\* No gap is reported on a connection that lost nothing (Peer.check_seq), but:
\* by the first command after the HELLO of a peer that was new, after the
\* second HELLO of an adopted connection, and where the numbers wrap.
GapsExplained ==
    [][\A n, p \in Node :
         \A cmd \in {"WHISPER", "PING", "PING_OK"} :
           LET e == peer[n][p]
               seq == Head(net[p][n]).seq
           IN  /\ Taking(n, p, cmd)
               /\ net'[p][n] = Tail(net[p][n])
               /\ Ready(n, p)
               /\ Gap(e, seq)
               => \/ e.want = 0 /\ seq \in {2, 3}
                  \/ e.want = 1 /\ seq = 3
                  \/ seq = 0]_vars

\* How long the nodes may sleep in all, and nobody give up on anybody.
Slack == EX - EV - 1

\* PING keeps the quietest connection alive: while no node departs, no queue is
\* full, and none is asleep for longer than the timeouts leave room for, _reap
\* removes no peer.
Patience ==
    [][spent'["depart"] = 0 /\ spent'["jam"] = 0 /\ spent'["sleep"] <= Slack =>
         \A n \in Node : services[n] \subseteq services'[n]]_vars

\* A silence is reported once (_evasive_emit_at): after EVASIVE there is no
\* other for IV ticks, unless the peer sent something of its application,
\* greeted again or left in between.
Episodes ==
    [][\A n, p \in Node : p \in Noisy(n) /\ n \in reaped' \ reaped => hush[n][p] = IV]_vars

\* As of the events that were emitted: the registry of an application has every
\* ready peer, and its health monitor knows it; it has nobody else but peers of the
\* table that a full queue disconnected, of which no EXIT tells; and who left the
\* table is not taken for alive.
AppsRight ==
    \A n, p \in Node :
        LET e == peer[n][p]
        IN  /\ Ready(n, p) => p \in services[n] /\ status[n][p] \in {"healthy", "evasive"}
            /\ p \in services[n] => Ready(n, p) \/ (e.kind = "known" /\ ~e.on)
            /\ e.kind = "none" => status[n][p] \in {"unknown", "dead"}

\* A session that one side lost, by a departure, a sleep or a full queue, ends on
\* the other side too, if the beacons or tuples end: then two nodes have each other
\* ready, or neither has the other, as _reap removes whom it only hears nothing from.
Resolved ==
    <>[][\A n, p \in Node : ~Announce(n, p)]_vars =>
        \A n, p \in Node : n # p => <>[](Ready(n, p) <=> Ready(p, n))

-----------------------------------------------------------------------------
(* Why the invariants and GapsExplained hold *)

\* A node sends nothing to itself, one that does not run has no peers, and of a
\* peer that was removed nothing is left.
Apart ==
    \A n \in Node :
        /\ net[n][n] = <<>>
        /\ \A p \in Node : peer[n][p].kind = "none" \/ n \notin live => peer[n][p] = NoPeer

\* No application was told of a placeholder, but that it left.
Unheard ==
    \A n, p \in Node : peer[n][p].kind = "pending" => status[n][p] \in {"unknown", "dead"}

\* A number that is no gap after want, or one of those that are explained.
Fits(want, seq) ==
    seq = want + 1 \/ seq = 0 \/ (want = 0 /\ seq \in {2, 3}) \/ (want = 1 /\ seq = 3)

\* q is on its way from a node whose entry is s to one whose entry is e: each
\* message but a HELLO has the number after that of the one before it, the last
\* one the number in s while it is connected, and the next one that a ready receiver takes fits.
Numbered(q, s, e) ==
    /\ \A i \in 1..Len(q) : q[i].cmd = "HELLO" => q[i].seq \in {1, 2}
    /\ \A i \in 1..Len(q) - 1 :
          q[i + 1].cmd # "HELLO" => q[i + 1].seq = (q[i].seq + 1) % Width
    /\ s.kind = "pending" => s.sent = 1 /\ s.want = 0
    /\ s.on /\ q # <<>> => s.sent = q[Len(q)].seq
    /\ e.kind = "ready" /\ q # <<>> => q[1].cmd = "HELLO" \/ Fits(e.want, q[1].seq)
    /\ e.kind = "ready" /\ q = <<>> /\ s.on => Fits(e.want, NextSeq(s))

InSequence == \A p, n \in Node : Numbered(net[p][n], peer[p][n], peer[n][p])
-----------------------------------------------------------------------------
(* Why Patience holds *)

Peaceful == spent["depart"] = 0 /\ spent["jam"] = 0 /\ spent["sleep"] <= Slack

\* A sleep that is not over has aged nothing yet.
Nap == IF asleep = {} THEN 0 ELSE 1

Has(q, cmd) == \E i \in 1..Len(q) : q[i].cmd = cmd

\* q is on its way as in Numbered: who has an entry of the other is connected and has greeted it, and
\* a HELLO is ahead of all else that one who is not ready is sent.
Greeted(q, s, e) ==
    /\ s.kind = "none" => q = <<>> /\ e.kind # "ready"
    /\ s.kind # "none" => s.on
    /\ s.kind # "none" /\ e.kind # "ready" => q # <<>>
    /\ e.kind # "ready" /\ q # <<>> => Head(q).cmd = "HELLO"
    /\ ~Has(q, "GOODBYE")

\* A peer e that was probed and not heard since: the probe is on its way, among q, or
\* the answer, among r; or the peer is quiet again.
Probing(e, q, r) ==
    e.kind \in {"known", "ready"} =>
        \/ e.evasive = e.expired \/ e.evasive > EV
        \/ Has(q, "PING") \/ Has(r, "PING_OK")

\* A reaper that ran leaves nobody quiet, and only ticks that a node slept through
\* make an entry older than the silence that is probed.
Timed(n, p) ==
    /\ n \in reaped /\ InTable(n, p) => peer[n][p].evasive <= EV
    /\ peer[n][p].kind # "none" => peer[n][p].expired + Nap <= EV + 1 + spent["sleep"]

Kept ==
    Peaceful =>
        /\ live = Node
        /\ Nap <= spent["sleep"]
        /\ \A n, p \in Node : n # p =>
              /\ Greeted(net[p][n], peer[p][n], peer[n][p])
              /\ Probing(peer[n][p], net[n][p], net[p][n])
              /\ Timed(n, p)
=============================================================================
