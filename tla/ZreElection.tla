---------------------------- MODULE ZreElection ----------------------------
(***************************************************************************)
(* The election of one group's leader in zre/node.py: ELECT and LEADER     *)
(* waves between the members, what starts them (HELLO, JOIN) and restarts  *)
(* them (LEAVE, departure), and the resend of a stalled wave.              *)
(*                                                                         *)
(* A node is its uuid, a number: identities are compared as strings of one *)
(* length, so they are ordered.  Nodes meet as in ZreMesh, over FIFO links *)
(* that lose nothing while both run.  The 2 s between two resends appear   *)
(* as: once everything is quiet, or early at the expense of a bound.       *)
(***************************************************************************)
EXTENDS Naturals, Sequences, FiniteSets

CONSTANTS
    Node,        \* uuids
    None,
    Bound        \* Bound[C][k]: how often environment steps of kind k may happen
                 \* when the nodes C contest the group

Kinds == {"join", "leave", "depart", "early"}

ASSUME NodeAssumption == Node \subseteq Nat /\ IsFiniteSet(Node)
ASSUME NoneAssumption == None \notin Node
ASSUME BoundAssumption == Bound \in [SUBSET Node -> [Kinds -> Nat]]

VARIABLES
    live,      \* nodes that run
    contest,   \* nodes that have the group in _contest_groups
    own,       \* nodes that have the group in _own_groups
    known,     \* known[n]: keys of _peers
    ready,     \* ready[n]: peers whose Peer.ready holds
    peers,     \* peers[n]: Group.peers of n (all connected)
    election,  \* election[n]: Group.election, or NoElection
    leader,    \* leader[n]: Group.leader, or None
    told,      \* told[n]: the last LEADER event n's application got, or None
    net,       \* net[n][p]: what n sent p and p has not handled
    spent      \* spent[k]: environment steps of kind k so far

table == <<known, ready>>
ballot == <<election, leader, told>>
vars == <<live, contest, own, known, ready, peers, election, leader, told, net, spent>>

Hello(b) == [type |-> "HELLO", in |-> b]
Join == [type |-> "JOIN"]
Leave == [type |-> "LEAVE"]
Elect(c) == [type |-> "ELECT", id |-> c]
Leader(c) == [type |-> "LEADER", id |-> c]

Message == [type : {"HELLO"}, in : BOOLEAN]
             \cup {Join, Leave}
             \cup [type : {"ELECT", "LEADER"}, id : Node]

\* erec and lrec are only compared with the number of neighbours: they stop
\* counting at Many.
Many == Cardinality(Node)
Election == [caw : Node, father : Node \cup {None}, erec : 0..Many, lrec : 0..Many]
NoElection == [caw |-> None, father |-> None, erec |-> 0, lrec |-> 0]
Open(n) == election[n] # NoElection

TypeOK ==
    /\ live \subseteq Node
    /\ contest \subseteq Node
    /\ own \subseteq Node
    /\ known \in [Node -> SUBSET Node]
    /\ ready \in [Node -> SUBSET Node]
    /\ peers \in [Node -> SUBSET Node]
    /\ \A n \in Node : peers[n] \subseteq ready[n] /\ ready[n] \subseteq known[n] \ {n}
    /\ election \in [Node -> Election \cup {NoElection}]
    /\ leader \in [Node -> Node \cup {None}]
    /\ told \in [Node -> Node \cup {None}]
    /\ net \in [Node -> [Node -> Seq(Message)]]
    /\ spent \in [Kinds -> Nat]

Init ==
    /\ live \in SUBSET Node
    /\ contest \in SUBSET live
    /\ own \in SUBSET live
    /\ known = [n \in Node |-> {}]
    /\ ready = [n \in Node |-> {}]
    /\ peers = [n \in Node |-> {}]
    /\ election = [n \in Node |-> NoElection]
    /\ leader = [n \in Node |-> None]
    /\ told = [n \in Node |-> None]
    /\ net = [n \in Node |-> [p \in Node |-> <<>>]]
    /\ spent = [k \in Kinds |-> 0]

-----------------------------------------------------------------------------
(* Helpers *)

Charge(k) ==
    /\ spent[k] < Bound[contest][k]
    /\ spent' = [spent EXCEPT ![k] = @ + 1]

\* Links `links' after n sent m to every peer of T; what goes to a dead node is lost.
Send(links, n, T, m) ==
    [links EXCEPT ![n] = [p \in Node |->
        IF p \in T \cap live THEN Append(@[p], m) ELSE @[p]]]

Taken(n, p) == [net EXCEPT ![p][n] = Tail(@)]

\* _finish_election: w leads, as far as n is concerned.
Finish(n, w) ==
    /\ election' = [election EXCEPT ![n] = NoElection]
    /\ leader' = [leader EXCEPT ![n] = w]
    /\ told' = [told EXCEPT ![n] = w]

\* Mutant of Start: who contests stands, in the group or not.
StartPhantom(n, T, links) ==
    IF n \notin contest
    THEN net' = links /\ UNCHANGED ballot
    ELSE IF T = {}
    THEN net' = links /\ Finish(n, n)
    ELSE /\ election' = [election EXCEPT ![n] =
                            [caw |-> n, father |-> None, erec |-> 0, lrec |-> 0]]
         /\ leader' = [leader EXCEPT ![n] = None]
         /\ net' = Send(links, n, T, Elect(n))
         /\ UNCHANGED told

\* _start_election, the group having the peers T: a running election is thrown
\* away, n stands itself.  Only a member that contests the group does it.
Start(n, T, links) ==
    IF n \notin contest \cap own
    THEN net' = links /\ UNCHANGED ballot
    ELSE IF T = {}
    THEN net' = links /\ Finish(n, n)
    ELSE /\ election' = [election EXCEPT ![n] =
                            [caw |-> n, father |-> None, erec |-> 0, lrec |-> 0]]
         /\ leader' = [leader EXCEPT ![n] = None]
         /\ net' = Send(links, n, T, Elect(n))
         /\ UNCHANGED told

\* _restart_election_if_needed, after the group lost a peer.  T and K are what
\* is left of Group.peers and _peers.  n itself is never in K.
Restart(n, T, K, links) ==
    IF n \in contest /\ leader[n] \notin K \cup {None}
    THEN Start(n, T, links)
    ELSE /\ net' = links
         /\ IF n \in contest /\ Open(n) /\ T = {}
            THEN Finish(n, n)
            ELSE /\ election' = IF n \in contest /\ leader[n] # None
                                THEN [election EXCEPT ![n] = NoElection]
                                ELSE election
                 /\ UNCHANGED <<leader, told>>

-----------------------------------------------------------------------------
(* The mesh below: meeting and departing *)

\* A beacon of p is heard: p is dialled and greeted.
Discover(n, p) ==
    /\ {n, p} \subseteq live /\ n # p
    /\ p \notin known[n]
    /\ known' = [known EXCEPT ![n] = @ \cup {p}]
    /\ net' = Send(net, n, {p}, Hello(n \in own))
    /\ UNCHANGED <<live, contest, own, ready, peers, ballot, spent>>

\* n takes the next message of p, of type t.
Take(n, p, t) ==
    /\ n \in live
    /\ net[p][n] # <<>>
    /\ Head(net[p][n]).type = t
    /\ UNCHANGED <<live, contest, own, spent>>

\* HELLO: a peer that was not ready is, and if the HELLO lists the group an
\* election starts.  An unknown peer is answered first.
RecvHello(n, p) ==
    /\ Take(n, p, "HELLO")
    /\ LET answered == IF p \in known[n] THEN Taken(n, p)
                       ELSE Send(Taken(n, p), n, {p}, Hello(n \in own))
           grown == peers[n] \cup {p}
       IN  IF p \in ready[n]
           THEN net' = Taken(n, p) /\ UNCHANGED <<table, peers, ballot>>
           ELSE /\ known' = [known EXCEPT ![n] = @ \cup {p}]
                /\ ready' = [ready EXCEPT ![n] = @ \cup {p}]
                /\ IF Head(net[p][n]).in
                   THEN /\ peers' = [peers EXCEPT ![n] = grown]
                        /\ Start(n, grown, answered)
                   ELSE net' = answered /\ UNCHANGED <<peers, ballot>>

\* n stops or dies; what it had not handled is lost.
Depart(n) ==
    /\ n \in live
    /\ Charge("depart")
    /\ live' = live \ {n}
    /\ net' = [p \in Node |-> [net[p] EXCEPT ![n] = <<>>]]
    /\ UNCHANGED <<contest, own, table, peers, ballot>>

\* Mutant of Remove: Group.leave is forgotten.
RemoveKeepsGroup(n, p) ==
    /\ n \in live
    /\ p \in known[n] \ live
    /\ known' = [known EXCEPT ![n] = @ \ {p}]
    /\ ready' = [ready EXCEPT ![n] = @ \ {p}]
    /\ UNCHANGED <<live, contest, own, peers, ballot, net, spent>>

\* The port-0 beacon, GOODBYE or the expiry of a node that departed.
Remove(n, p) ==
    /\ n \in live
    /\ p \in known[n] \ live
    /\ known' = [known EXCEPT ![n] = @ \ {p}]
    /\ ready' = [ready EXCEPT ![n] = @ \ {p}]
    /\ peers' = [peers EXCEPT ![n] = @ \ {p}]
    /\ IF p \in peers[n]
       THEN Restart(n, peers[n] \ {p}, known[n] \ {p}, net)
       ELSE UNCHANGED <<ballot, net>>
    /\ UNCHANGED <<live, contest, own, spent>>

-----------------------------------------------------------------------------
(* Membership *)

\* _join_group: JOIN to every peer.  No election is started here.
JoinGroup(n) ==
    /\ n \in live \ own
    /\ Charge("join")
    /\ own' = own \cup {n}
    /\ net' = Send(net, n, known[n], Join)
    /\ UNCHANGED <<live, contest, table, peers, ballot>>

\* _leave_group: a running election and the leader stay as they are.
LeaveGroup(n) ==
    /\ n \in live \cap own
    /\ Charge("leave")
    /\ own' = own \ {n}
    /\ net' = Send(net, n, known[n], Leave)
    /\ UNCHANGED <<live, contest, table, peers, ballot>>

\* Mutant of RecvJoin: a JOIN starts no election.
RecvJoinQuietly(n, p) ==
    /\ Take(n, p, "JOIN")
    /\ p \in ready[n]
    /\ peers' = [peers EXCEPT ![n] = @ \cup {p}]
    /\ net' = Taken(n, p)
    /\ UNCHANGED <<table, ballot>>

\* JOIN: the group has one more peer, and whoever heard it starts an election.
RecvJoin(n, p) ==
    /\ Take(n, p, "JOIN")
    /\ p \in ready[n]
    /\ peers' = [peers EXCEPT ![n] = @ \cup {p}]
    /\ Start(n, peers[n] \cup {p}, Taken(n, p))
    /\ UNCHANGED table

\* LEAVE: the group has one peer less.
RecvLeave(n, p) ==
    /\ Take(n, p, "LEAVE")
    /\ p \in ready[n]
    /\ peers' = [peers EXCEPT ![n] = @ \ {p}]
    /\ Restart(n, peers[n] \ {p}, known[n], Taken(n, p))
    /\ UNCHANGED table

\* A sender that is not ready is not listened to.
RecvIgnored(n, p) ==
    /\ \E t \in {"JOIN", "LEAVE", "ELECT", "LEADER"} : Take(n, p, t)
    /\ p \notin ready[n]
    /\ net' = Taken(n, p)
    /\ UNCHANGED <<table, peers, ballot>>

-----------------------------------------------------------------------------
(* The waves *)

More(k) == IF k < Many THEN k + 1 ELSE Many

\* Mutant of Superior: the highest id wins.
SuperiorHighest(n, c) == ~Open(n) \/ c > election[n].caw

\* n changes over to c: it supports nobody yet, or c is lower.
Superior(n, c) == ~Open(n) \/ c < election[n].caw

\* Mutant of Won: not waiting for the neighbours.
WonEarly(n) == election[n].caw = n

\* n's own wave came back from every neighbour.
Won(n) == election[n].caw = n /\ election[n].erec >= Cardinality(peers[n])

\* Mutant of Relays: the winner's neighbours keep the news to themselves.
RelaysNever(n, w) == w = n /\ election[n].lrec = 0

\* n passes on that w leads: the first time it hears of another's victory.
Relays(n, w) == w # n /\ election[n].lrec = 0

\* _handle_elect: a better challenger, or the first, makes p the father and is
\* passed on; another challenger than the one supported is ignored.  When every
\* neighbour was heard the wave echoes to the father, or the winner tells all.
RecvElect(n, p) ==
    /\ Take(n, p, "ELECT")
    /\ p \in ready[n]
    /\ LET c == Head(net[p][n]).id
           joins == Superior(n, c)
           base == IF joins THEN [caw |-> c, father |-> p, erec |-> 0, lrec |-> 0]
                   ELSE election[n]
           e == [base EXCEPT !.erec = More(@)]
           passed == IF joins THEN Send(Taken(n, p), n, peers[n] \ {p}, Elect(c))
                     ELSE Taken(n, p)
           echoed == IF e.caw = n THEN Send(passed, n, peers[n], Leader(n))
                     ELSE IF e.father \in known[n]
                     THEN Send(passed, n, {e.father}, Elect(c))
                     ELSE passed
       IN  IF c # base.caw
           THEN net' = Taken(n, p) /\ UNCHANGED election
           ELSE /\ election' = [election EXCEPT ![n] = e]
                /\ net' = IF e.erec < Cardinality(peers[n]) THEN passed ELSE echoed
    /\ UNCHANGED <<table, peers, leader, told>>

\* _handle_leader: the first LEADER is passed on to all, unless it names n;
\* when every neighbour has sent one the election is over.
RecvLeader(n, p) ==
    /\ Take(n, p, "LEADER")
    /\ p \in ready[n]
    /\ LET w == Head(net[p][n]).id
           e == [election[n] EXCEPT !.lrec = More(@)]
       IN  IF ~Open(n)
           THEN net' = Taken(n, p) /\ UNCHANGED ballot
           ELSE /\ net' = IF Relays(n, w) THEN Send(Taken(n, p), n, peers[n], Leader(w))
                          ELSE Taken(n, p)
                /\ IF e.lrec >= Cardinality(peers[n])
                   THEN Finish(n, w)
                   ELSE /\ election' = [election EXCEPT ![n] = e]
                        /\ UNCHANGED <<leader, told>>
    /\ UNCHANGED <<table, peers>>

Quiet == \A n, p \in live : net[n][p] = <<>>

\* _maintain_elections, for a member that contests the group: an election with
\* nobody left is won; one that stalled is sent again.
Maintain(n) ==
    /\ n \in live \cap own \cap contest
    /\ Open(n)
    /\ IF peers[n] = {}
       THEN Finish(n, n) /\ UNCHANGED <<net, spent>>
       ELSE LET e == election[n]
                m == IF Won(n) THEN Leader(n) ELSE Elect(e.caw)
            IN  /\ \/ Quiet /\ UNCHANGED spent
                   \/ ~Quiet /\ Charge("early")
                /\ net' = Send(net, n, IF e.caw = n THEN peers[n]
                                       ELSE peers[n] \ {e.father}, m)
                /\ UNCHANGED ballot
    /\ UNCHANGED <<live, contest, own, table, peers>>

-----------------------------------------------------------------------------

Receive(n, p) ==
    \/ RecvHello(n, p) \/ RecvJoin(n, p) \/ RecvLeave(n, p)
    \/ RecvIgnored(n, p) \/ RecvElect(n, p) \/ RecvLeader(n, p)

Next ==
    \/ \E n \in Node : JoinGroup(n) \/ LeaveGroup(n) \/ Depart(n) \/ Maintain(n)
    \/ \E n, p \in Node : Discover(n, p) \/ Receive(n, p) \/ Remove(n, p)

Spec == Init /\ [][Next]_vars

Fairness ==
    /\ \A n \in Node : WF_vars(Maintain(n))
    /\ \A n, p \in Node : WF_vars(Discover(n, p)) /\ WF_vars(Receive(n, p))
                            /\ WF_vars(Remove(n, p))

LiveSpec == Spec /\ Fairness

-----------------------------------------------------------------------------
(* Properties *)

Members == live \cap own

\* Everything sent was handled, everybody has met everybody, no election is open.
Settled ==
    /\ Quiet
    /\ \A n \in live : known[n] = live \ {n} /\ ~Open(n)

Lowest(S) == CHOOSE m \in S : \A q \in S : m <= q

\* Nobody joined late or left: the members are those the HELLOs named.
Calm == spent["join"] + spent["leave"] = 0

\* The election elects one: when all is settled no two members have been told
\* different leaders by their last LEADER event (_finish_election), whatever
\* waves of _start_election overlapped, were restarted or sent again.
Agreement == Settled =>
    \A n, p \in Members : told[n] # None /\ told[p] # None => told[n] = told[p]

\* When all is settled, every member of a group of several contestants got a
\* LEADER event: neither _handle_leader nor _restart_election_if_needed closes
\* an election without one, and a JOIN starts the election nobody had.
Elected == Settled /\ Cardinality(Members) > 1 /\ Members \subseteq contest =>
    \A n \in Members : told[n] # None

\* As long as the members are those the HELLOs named, the lowest contestant of
\* a settled group of several leads (_handle_elect).
LowestLeads == Settled /\ Calm /\ Cardinality(Members) > 1 /\ Members \cap contest # {} =>
    \A n \in Members : told[n] = Lowest(Members \cap contest)

\* Who has joined, as long as nobody left; anybody after that.
Joined == IF spent["leave"] = 0 THEN own ELSE Node

\* No phantom candidate (the comment in _start_election): a leader that an
\* application is told of contests the group and, if nobody left, is a member
\* of it, however waves overlap, are restarted, sent again or closed because
\* the last neighbour went (_restart_election_if_needed).
NoPhantom == \A n \in Node : told[n] # None => told[n] \in contest \cap Joined

\* In a mesh of two, if nobody leaves the group, the resends of
\* _maintain_elections end every election of a contestant sooner or later.
TwoFinish ==
    Cardinality(live) <= 2 /\ [](spent["leave"] = 0)
        => <>[](\A n \in Members \cap contest : ~Open(n))

-----------------------------------------------------------------------------
(* The inductive invariant.  J: who has joined; C: who contests. *)

\* What p may say to n: only members list the group or say JOIN, the waves go
\* between members, and name a candidate.
Honest(m, p, n, J, C) ==
    /\ m.type = "HELLO" => (m.in => p \in J)
    /\ m.type = "JOIN" => p \in J
    /\ m.type \in {"ELECT", "LEADER"} => p \in J /\ n \in J /\ m.id \in J \cap C

Links(L, J, C) ==
    /\ L \in [Node -> [Node -> Seq(Message)]]
    /\ \A p, n \in Node :
        /\ p = n => L[p][n] = <<>>
        /\ \A i \in 1 .. Len(L[p][n]) : Honest(L[p][n][i], p, n, J, C)

\* A member's election supports a candidate on behalf of a member.
Ballot(e, n, J, C) ==
    \/ e = NoElection
    \/ /\ e \in Election
       /\ n \in J
       /\ e.caw \in J \cap C
       /\ e.father \in (J \ {n}) \cup {None}

\* E, D and T: the elections, the leaders and what applications were told.
Ballots(E, D, T, J, C) ==
    /\ E \in [Node -> Election \cup {NoElection}]
    /\ D \in [Node -> (J \cap C) \cup {None}]
    /\ T \in [Node -> (J \cap C) \cup {None}]
    /\ \A n \in Node : Ballot(E[n], n, J, C)

\* K, R and P: the peers known, ready, and in the group.
Tables(K, R, P, J) ==
    /\ K \in [Node -> SUBSET Node]
    /\ R \in [Node -> SUBSET Node]
    /\ P \in [Node -> SUBSET Node]
    /\ \A n \in Node : P[n] \subseteq R[n] \cap J /\ R[n] \subseteq K[n] /\ n \notin K[n]

Counts ==
    /\ live \subseteq Node
    /\ contest \subseteq Node
    /\ own \subseteq Node
    /\ spent \in [Kinds -> Nat]

Inv ==
    /\ Counts
    /\ Tables(known, ready, peers, Joined)
    /\ Ballots(election, leader, told, Joined, contest)
    /\ Links(net, Joined, contest)

-----------------------------------------------------------------------------
(* Why Elected holds: who is in the group with another is awake, or will be *)

Awake(n) == Open(n) \/ told[n] # None

Announces(m) == m.type = "JOIN" \/ (m.type = "HELLO" /\ m.in)
Wave(m) == m.type \in {"ELECT", "LEADER"}

\* Of a queue: it announces a member; it asks for votes; it has no HELLO; HELLO
\* leads it, and there is no other.
Ann(q) == \E i \in 1 .. Len(q) : Announces(q[i])
Asks(q) == \E i \in 1 .. Len(q) : q[i].type = "ELECT"
NoHello(q) == \A i \in 1 .. Len(q) : q[i].type # "HELLO"
Leads(q) == Len(q) > 0 /\ \A i \in 1 .. Len(q) : q[i].type = "HELLO" <=> i = 1

\* p's HELLO to n was handled, is the first thing n will hear, or was not sent.
Met(p, n) ==
    IF p \in ready[n] THEN n \in known[p] /\ NoHello(net[p][n])
    ELSE IF n \in known[p] THEN Leads(net[p][n])
    ELSE net[p][n] = <<>>

\* The contestant p wakes n: it has asked n, or will when it hears of n; unless
\* n contests too and will hear of p.
Wakes(p, n) ==
    {p, n} \subseteq own /\ p \in contest /\ (Calm \/ n \in contest) =>
        \/ Awake(n) \/ Asks(net[p][n]) \/ Ann(net[n][p]) \/ p \notin known[n]
        \/ n \in contest /\ (Ann(net[p][n]) \/ n \notin known[p])

\* The contestant n wakes when it hears of p.
Stirs(p, n) ==
    Calm /\ {p, n} \subseteq own /\ n \in contest =>
        Awake(n) \/ Ann(net[p][n]) \/ n \notin known[p]

Waking ==
    /\ \A n \in Node : leader[n] # None => told[n] # None
    /\ \A p, n \in live : p # n => Met(p, n) /\ Wakes(p, n) /\ Stirs(p, n)

-----------------------------------------------------------------------------
(* Why two agree: of two contestants, a the lower, while nobody left *)

\* Of a queue: its waves are of S; what announces a member comes before all
\* waves, and once; nobody leaves; no m comes after l.
Only(q, S) == \A i \in 1 .. Len(q) : Wave(q[i]) => q[i] \in S
Proper(q) == \A i, j \in 1 .. Len(q) :
    i < j /\ Announces(q[j]) => ~Announces(q[i]) /\ ~Wave(q[i])
NoLeave(q) == \A i \in 1 .. Len(q) : q[i].type # "LEAVE"
Never(q, l, m) == \A i, j \in 1 .. Len(q) : i < j /\ q[i] = l => q[j] # m

\* A member is in the group of who has heard of it, or is announced; n has an
\* election open only with p.
Heard(p, n) ==
    /\ Proper(net[p][n]) /\ NoLeave(net[p][n])
    /\ Ann(net[p][n]) => p \notin peers[n]
    /\ p \in own /\ n \in known[p] => p \in peers[n] \/ Ann(net[p][n])
    /\ Open(n) => p \in peers[n]

Stands(n, c) == Open(n) /\ election[n].caw = c

\* Nobody stands yet.
Idle(a, b) ==
    /\ ~Open(a) /\ ~Open(b) /\ told[a] = None /\ told[b] = None
    /\ Only(net[a][b], {}) /\ Only(net[b][a], {})
    /\ Calm /\ a \in own => b \notin peers[a]

\* b stands, and a will hear of b before it hears of that.
Waits(a, b) ==
    /\ a \in own /\ Ann(net[b][a])
    /\ ~Open(a) /\ told[a] = None /\ told[b] = None
    /\ Only(net[a][b], {}) /\ Only(net[b][a], {Elect(b)})
    /\ Open(b) => Stands(b, b) /\ election[b].erec = 0

\* b has not given way yet: it stands, or will when it hears of a.
Opposes(a, b) == Ann(net[a][b]) \/ Stands(b, b)

\* a leads or will: b's votes find a's election open, and give way.
LowerLeads(a, b) ==
    /\ a \in own /\ b \in peers[a]
    /\ told[a] \in {None, a} /\ told[b] \in {None, a}
    /\ Only(net[a][b], {Elect(a), Leader(a)})
    /\ Only(net[b][a], {Elect(a), Leader(a), Elect(b)})
    /\ Open(a) => Stands(a, a)
    /\ Open(b) => Stands(b, a) \/ (Stands(b, b) /\ election[b].erec = 0)
    /\ Opposes(a, b) => /\ Open(a) /\ election[a].erec = 0
                        /\ Only(net[a][b], {Elect(a)}) /\ Only(net[b][a], {Elect(b)})
    /\ ~Only(net[b][a], {Elect(a), Leader(a)}) => Open(a)
    /\ Never(net[b][a], Leader(a), Elect(b))

\* b leads or will: a knew of b before a joined.
HigherLeads(a, b) ==
    /\ a \in own /\ b \in peers[a] /\ ~Calm
    /\ \A n \in {a, b} : told[n] \in {None, b} /\ (Open(n) => Stands(n, b))
    /\ \A q \in {net[a][b], net[b][a]} : Only(q, {Elect(b), Leader(b)})

Duo(a, b) ==
    contest = {a, b} /\ {a, b} \subseteq live /\ spent["leave"] = 0 =>
        /\ Heard(a, b) /\ Heard(b, a)
        /\ Idle(a, b) \/ Waits(a, b) \/ LowerLeads(a, b) \/ HigherLeads(a, b)
=============================================================================
