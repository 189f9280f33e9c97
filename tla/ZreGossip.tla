----------------------------- MODULE ZreGossip -----------------------------
(***************************************************************************)
(* Discovery through a gossip hub: zre/gossip.py (the hub) and the hub     *)
(* links of zre/node.py.  Every node publishes the endpoint it listens on; *)
(* the hub keeps one tuple per uuid and forwards what is new to all its    *)
(* clients; a tuple that is new to a node makes it dial the endpoint.      *)
(*                                                                         *)
(* The hub runs alone (host = None, python3 -m zre.gossip) or inside the   *)
(* node `host' (gossip_bind), and then lives and dies with it.  Endpoints: *)
(* a node binds another port at every start, so its endpoint is the number *)
(* of the start; 0 stands for no tuple and no peer.                        *)
(*                                                                         *)
(* A hub link is a DEALER socket: what it has queued survives a hub that   *)
(* goes away, and reaches the next one (ZeroMQ reconnects by itself).  At  *)
(* the hub each link is a pipe of its own with a routing id of its own, so *)
(* what a closed link had sent is read before or after what the next link  *)
(* of that node sends.  ZRE traffic is cut down to HELLO and GOODBYE;      *)
(* ZreMesh has the rest.                                                   *)
(***************************************************************************)
EXTENDS Naturals, Sequences, FiniteSets, SequencesExt, FiniteSetsExt

CONSTANTS
    Node,    \* uuids; set_uuid keeps them over restarts
    None,
    Bound,   \* how often each kind of environment step may happen
    Total    \* how many of those steps may happen in all

Kinds == {"reboot", "hasty", "stop", "crash", "hub", "quick", "late", "reset", "unpublish"}

ASSUME NoneAssumption == None \notin Node
ASSUME FiniteAssumption == IsFiniteSet(Node)
ASSUME BoundAssumption == Bound \in [Kinds -> Nat] /\ Total \in Nat

VARIABLES
    host,     \* the node that hosts the hub, or None
    hub,      \* the hub is up
    table,    \* table[k]: GossipHub._tuples
    clients,  \* GossipHub._clients: nodes whose present link the hub has seen
    live,     \* nodes that run
    born,     \* born[n]: starts of n so far, and its endpoint while it runs
    tuples,   \* tuples[n][k]: _gossip_tuples of n
    peers,    \* peers[n][p]: the endpoint that n's Peer p is connected to
    up,       \* up[n]: frames from n's link to the hub
    closed,   \* frames of each link that was closed, which the hub will read
    fresh,    \* nodes whose link is younger than the last end of the hub
    down,     \* down[n]: frames from the hub to n's link
    net,      \* net[n][p]: what n sent to p and p has not handled
    spent     \* spent[k]: environment steps of kind k so far

hubVars == <<hub, table, clients>>
nodeVars == <<live, born, tuples, peers>>
vars == <<host, hub, table, clients, live, born, tuples, peers, up, closed, fresh, down, net, spent>>

Endpoint == 1 .. 1 + Bound["reboot"] + Bound["hasty"]
Publish(k, v) == [type |-> "PUBLISH", key |-> k, value |-> v]
Frame(t) == [type |-> t]
Body == [type : {"HELLO", "PING", "PONG", "INVALID"}]
          \cup [type : {"PUBLISH"}, key : Node, value : Endpoint]

\* HELLO names the endpoint to dial back.
Hello(e) == [type |-> "HELLO", at |-> e]
Goodbye == [type |-> "GOODBYE"]
Letter == [type : {"HELLO"}, at : Endpoint] \cup {Goodbye}

TypeOK ==
    /\ host \in Node \cup {None}
    /\ hub \in BOOLEAN
    /\ table \in [Node -> Endpoint \cup {0}]
    /\ clients \subseteq Node \ {host}
    /\ live \subseteq Node
    /\ born \in [Node -> Endpoint \cup {0}]
    /\ tuples \in [Node -> [Node -> Endpoint \cup {0}]]
    /\ peers \in [Node -> [Node -> Endpoint \cup {0}]]
    /\ \A n \in Node : peers[n][n] = 0
    /\ up \in [Node -> Seq(Body)]
    /\ closed \in Seq(Seq(Body))
    /\ fresh \subseteq live \ {host}
    /\ down \in [Node -> Seq(Body)]
    /\ net \in [Node -> [Node -> Seq(Letter)]]
    /\ spent \in [Kinds -> Nat]

Empty == [k \in Node |-> 0]

Init ==
    /\ host \in Node \cup {None}
    /\ hub = (host = None)
    /\ table = Empty
    /\ clients = {}
    /\ live = {}
    /\ born = Empty
    /\ tuples = [n \in Node |-> Empty]
    /\ peers = [n \in Node |-> Empty]
    /\ up = [n \in Node |-> <<>>]
    /\ closed = <<>>
    /\ fresh = {}
    /\ down = [n \in Node |-> <<>>]
    /\ net = [n \in Node |-> [p \in Node |-> <<>>]]
    /\ spent = [k \in Kinds |-> 0]

-----------------------------------------------------------------------------
(* Helpers *)

Charge(k) ==
    /\ spent[k] < Bound[k]
    /\ MapThenSumSet(LAMBDA x : spent[x], Kinds) < Total
    /\ spent' = [spent EXCEPT ![k] = @ + 1]

\* n runs and has a hub link: a node that binds a hub connects to none.
Client(n) == n \in live /\ n # host

\* One PUBLISH per tuple of t.
Listing(t) == SetToSeq({Publish(k, t[k]) : k \in {x \in Node : t[x] # 0}})

\* Mutant of Announcement: HELLO, and nothing published.
AnnouncementBare(t) == <<Frame("HELLO")>>

\* _gossip_announce, with the tuples t.
Announcement(t) == <<Frame("HELLO")>> \o Listing(t)

\* Links `links' after n sent m to the endpoint e of p: nobody listens at the
\* endpoint of an earlier start.
Send(links, n, p, e, m) ==
    IF p \in live /\ e = born[p] THEN [links EXCEPT ![n][p] = Append(@, m)] ELSE links

\* Mutant of Require: n dials itself as well.
RequireSelf(n, k, v) ==
    IF peers[n][k] # 0
    THEN UNCHANGED <<peers, net>>
    ELSE /\ peers' = [peers EXCEPT ![n][k] = v]
         /\ net' = Send(net, n, k, v, Hello(born[n]))

\* _gossip_require: n hears that k listens at v.  A peer it has is only
\* refreshed; another is dialled and greeted.
Require(n, k, v) ==
    IF n = k \/ peers[n][k] # 0
    THEN UNCHANGED <<peers, net>>
    ELSE /\ peers' = [peers EXCEPT ![n][k] = v]
         /\ net' = Send(net, n, k, v, Hello(born[n]))

\* n's link is closed with linger 0: the hub, if it is up, reads what had left,
\* at least up to a frame that matters.
Close(n) ==
    \/ closed' = closed
    \/ /\ hub
       /\ \E i \in 1..Len(up[n]) :
             up[n][i].type = "PUBLISH" /\ closed' = Append(closed, SubSeq(up[n], 1, i))

Tells(m, k) == m.type = "PUBLISH" /\ m.key = k
Publishes(q, k) == \E i \in 1..Len(q) : Tells(q[i], k)

\* The hub has still to read, on a closed link, what was published of n before.
Haunted(n) == \E j \in 1..Len(closed) : Publishes(closed[j], n)

-----------------------------------------------------------------------------
(* Nodes *)

\* start: the own tuple is announced, or put into the table of the own hub.  A
\* restart before the hub read all of the earlier process is hasty.
Boot(n) ==
    /\ n \notin live
    /\ IF Haunted(n) THEN Charge("hasty")
       ELSE IF born[n] # 0 THEN Charge("reboot")
       ELSE UNCHANGED spent
    /\ live' = live \cup {n}
    /\ born' = [born EXCEPT ![n] = @ + 1]
    /\ LET own == [Empty EXCEPT ![n] = born[n] + 1]
       IN  /\ tuples' = [tuples EXCEPT ![n] = own]
           /\ IF n = host
              THEN /\ hub' = TRUE
                   /\ table' = own
                   /\ clients' = {}
                   /\ UNCHANGED up
              ELSE /\ up' = [up EXCEPT ![n] = Announcement(own)]
                   /\ UNCHANGED hubVars
           /\ fresh' = IF n = host THEN fresh ELSE fresh \cup {n}
    /\ UNCHANGED <<host, peers, closed, down, net>>

\* What the end of n leaves behind, net' being the caller's.
End(n) ==
    /\ live' = live \ {n}
    /\ tuples' = [tuples EXCEPT ![n] = Empty]
    /\ peers' = [peers EXCEPT ![n] = Empty]
    /\ clients' = IF n = host THEN {} ELSE clients \ {n}
    /\ IF n = host
       THEN /\ hub' = FALSE
            /\ table' = Empty
            /\ down' = [p \in Node |-> <<>>]
            /\ fresh' = {}
            /\ closed' = <<>>
            /\ \E lost \in SUBSET live : up' = [p \in Node |-> IF p \in lost THEN <<>> ELSE up[p]]
       ELSE /\ UNCHANGED <<hub, table>>
            /\ down' = [down EXCEPT ![n] = <<>>]
            /\ fresh' = fresh \ {n}
            /\ Close(n)
            /\ up' = [up EXCEPT ![n] = <<>>]
    /\ UNCHANGED <<host, born>>

\* Everything on its way to n is lost.
Deaf(links, n) == [p \in Node |-> [links[p] EXCEPT ![n] = <<>>]]

\* stop: GOODBYE to every peer.
Stop(n) ==
    /\ n \in live
    /\ Charge("stop")
    /\ net' = Deaf([net EXCEPT ![n] = [p \in Node |->
                   IF p \in live /\ peers[n][p] = born[p] THEN Append(@[p], Goodbye) ELSE @[p]]], n)
    /\ End(n)

Crash(n) ==
    /\ n \in live
    /\ Charge("crash")
    /\ net' = Deaf(net, n)
    /\ End(n)

\* _handle_hello in gossip mode: an unknown peer is dialled back and greeted; a
\* peer that is known keeps the connection it has.
RecvHello(p, n) ==
    /\ p \in live
    /\ net[n][p] # <<>> /\ Head(net[n][p]).type = "HELLO"
    /\ LET e == Head(net[n][p]).at
           taken == [net EXCEPT ![n][p] = Tail(@)]
       IN  IF peers[p][n] # 0
           THEN net' = taken /\ UNCHANGED peers
           ELSE /\ peers' = [peers EXCEPT ![p][n] = e]
                /\ net' = Send(taken, p, n, e, Hello(born[p]))
    /\ UNCHANGED <<host, hubVars, live, born, tuples, up, closed, fresh, down, spent>>

RecvGoodbye(p, n) ==
    /\ p \in live
    /\ net[n][p] # <<>> /\ Head(net[n][p]).type = "GOODBYE"
    /\ net' = [net EXCEPT ![n][p] = Tail(@)]
    /\ peers' = [peers EXCEPT ![p][n] = 0]
    /\ UNCHANGED <<host, hubVars, live, born, tuples, up, closed, fresh, down, spent>>

\* p has a connection to the present n: n hears its HELLO, and later its PINGs
\* and PING_OKs.
Heard(n, p) == p \in live /\ n \in live /\ peers[p][n] = born[n]

\* _reap: n has not heard p for the expiry time, which is longer than what is
\* on its way takes.
Expire(n, p) ==
    /\ n \in live
    /\ peers[n][p] # 0
    /\ ~Heard(n, p)
    /\ net[n][p] = <<>> /\ net[p][n] = <<>>
    /\ peers' = [peers EXCEPT ![n][p] = 0]
    /\ UNCHANGED <<host, hubVars, live, born, tuples, up, closed, fresh, down, net, spent>>

\* gossip_unpublish, from the tuples of n and from the table of the hub it hosts.
\* Nobody unpublishes itself.
Unpublish(n, k) ==
    /\ n \in live /\ n # k
    /\ tuples[n][k] # 0 \/ (n = host /\ table[k] # 0)
    /\ Charge("unpublish")
    /\ tuples' = [tuples EXCEPT ![n][k] = 0]
    /\ table' = IF n = host THEN [table EXCEPT ![k] = 0] ELSE table
    /\ UNCHANGED <<host, hub, clients, live, born, peers, up, closed, fresh, down, net>>

-----------------------------------------------------------------------------
(* The hub *)

\* Mutant of Accept: a uuid that is in the table is a duplicate.
AcceptByKey(k, v, S) ==
    IF table[k] # 0
    THEN UNCHANGED <<table, down, peers, net>>
    ELSE /\ table' = [table EXCEPT ![k] = v]
         /\ down' = [n \in Node |-> IF n \in S THEN Append(down[n], Publish(k, v)) ELSE down[n]]
         /\ IF host \in live THEN Require(host, k, v) ELSE UNCHANGED <<peers, net>>

\* Mutant of Accept: no broadcast.
AcceptSilently(k, v, S) ==
    /\ table' = [table EXCEPT ![k] = v]
    /\ UNCHANGED down
    /\ IF host \in live THEN Require(host, k, v) ELSE UNCHANGED <<peers, net>>

\* _accept: a tuple that differs from the stored one replaces it, goes to every
\* client (S) and to the node that hosts the hub.
Accept(k, v, S) ==
    IF table[k] = v
    THEN UNCHANGED <<table, down, peers, net>>
    ELSE /\ table' = [table EXCEPT ![k] = v]
         /\ down' = [n \in Node |-> IF n \in S THEN Append(down[n], Publish(k, v)) ELSE down[n]]
         /\ IF host \in live THEN Require(host, k, v) ELSE UNCHANGED <<peers, net>>

\* handle_socket: one frame of n's link.
HubTake(n) ==
    /\ hub
    /\ up[n] # <<>>
    /\ up' = [up EXCEPT ![n] = Tail(@)]
    /\ clients' = clients \cup {n}
    /\ LET m == Head(up[n])
           Answer(s) == /\ down' = [down EXCEPT ![n] = @ \o s]
                        /\ UNCHANGED <<table, peers, net>>
       IN  \/ m.type = "HELLO" /\ Answer(Listing(table))
           \/ m.type = "PUBLISH" /\ Accept(m.key, m.value, clients')
           \/ m.type = "PING" /\ Answer(<<Frame("PONG")>>)
    /\ UNCHANGED <<host, hub, live, born, tuples, closed, fresh, spent>>

\* One frame of closed link j, whom no answer reaches.
HubDrain(j) ==
    /\ hub
    /\ closed[j] # <<>>
    /\ closed' = [closed EXCEPT ![j] = Tail(@)]
    /\ LET m == Head(closed[j])
       IN  IF m.type = "PUBLISH" THEN Accept(m.key, m.value, clients)
           ELSE UNCHANGED <<table, down, peers, net>>
    /\ UNCHANGED <<host, hub, clients, live, born, tuples, up, fresh, spent>>

\* A hub of its own dies, with the frames that were on the wire.
HubCrash ==
    /\ host = None
    /\ hub
    /\ Charge("hub")
    /\ hub' = FALSE
    /\ table' = Empty
    /\ clients' = {}
    /\ down' = [n \in Node |-> <<>>]
    /\ fresh' = {}
    /\ closed' = <<>>
    /\ \E lost \in SUBSET live : up' = [n \in Node |-> IF n \in lost THEN <<>> ELSE up[n]]
    /\ UNCHANGED <<host, nodeVars, net>>

\* The next hub.  Links that have not been redialled by then reach it without a
\* HELLO: it comes up quickly, at the expense of a bound.
HubStart ==
    /\ host = None
    /\ ~hub
    /\ IF \A n \in Node : Client(n) => n \in fresh THEN UNCHANGED spent ELSE Charge("quick")
    /\ hub' = TRUE
    /\ UNCHANGED <<host, table, clients, nodeVars, up, closed, fresh, down, net>>

\* A czmq hub resets the session of n.  The hub of gossip.py never does: no
\* client sends it INVALID.
HubReset(n) ==
    /\ hub /\ Client(n)
    /\ Charge("reset")
    /\ down' = [down EXCEPT ![n] = Append(@, Frame("INVALID"))]
    /\ UNCHANGED <<host, hubVars, nodeVars, up, closed, fresh, net>>

-----------------------------------------------------------------------------
(* The hub links of the nodes *)

\* _handle_gossip_client: one frame.  A tuple that differs from the stored one
\* replaces it and its endpoint is required; INVALID makes n announce again.
ClientTake(n) ==
    /\ Client(n)
    /\ down[n] # <<>>
    /\ down' = [down EXCEPT ![n] = Tail(@)]
    /\ LET m == Head(down[n])
       IN  \/ /\ m.type = "PUBLISH"
              /\ tuples' = [tuples EXCEPT ![n][m.key] = m.value]
              /\ IF tuples[n][m.key] = m.value
                 THEN UNCHANGED <<peers, net>>
                 ELSE Require(n, m.key, m.value)
              /\ UNCHANGED up
           \/ /\ m.type = "INVALID"
              /\ up' = [up EXCEPT ![n] = @ \o Announcement(tuples[n])]
              /\ UNCHANGED <<tuples, peers, net>>
           \/ /\ m.type = "PONG"
              /\ UNCHANGED <<tuples, peers, net, up>>
    /\ UNCHANGED <<host, hubVars, live, born, closed, fresh, spent>>

\* _gossip_maintain: PING every second.  One at a time is enough.
Ping(n) ==
    /\ Client(n)
    /\ \A i \in DOMAIN up[n] : up[n][i].type # "PING"
    /\ down[n] = <<>>
    /\ up' = [up EXCEPT ![n] = Append(@, Frame("PING"))]
    /\ UNCHANGED <<host, hubVars, nodeVars, closed, fresh, down, net, spent>>

\* _gossip_redial: nothing came from the hub for 5 s, because it is down or (at
\* the expense of a bound) late.  The new link announces all that n has.
Redial(n) ==
    /\ Client(n)
    /\ down[n] = <<>>
    /\ IF hub THEN Charge("late") ELSE n \notin fresh /\ UNCHANGED spent
    /\ Close(n)
    /\ up' = [up EXCEPT ![n] = Announcement(tuples[n])]
    /\ fresh' = fresh \cup {n}
    /\ clients' = clients \ {n}
    /\ UNCHANGED <<host, hub, table, nodeVars, down, net>>

-----------------------------------------------------------------------------

Next ==
    \/ \E n \in Node :
          \/ Boot(n) \/ Stop(n) \/ Crash(n)
          \/ HubTake(n) \/ HubReset(n)
          \/ ClientTake(n) \/ Ping(n) \/ Redial(n)
    \/ \E n, p \in Node :
          RecvHello(n, p) \/ RecvGoodbye(n, p) \/ Expire(n, p) \/ Unpublish(n, p)
    \/ \E j \in 1..Len(closed) : HubDrain(j)
    \/ HubCrash \/ HubStart

Spec == Init /\ [][Next]_vars

Fairness ==
    /\ WF_vars(HubStart) /\ WF_vars(\E j \in 1..Len(closed) : HubDrain(j))
    /\ \A n \in Node :
          /\ WF_vars(HubTake(n)) /\ WF_vars(ClientTake(n))
          /\ WF_vars(Redial(n) /\ ~hub)
    /\ \A n, p \in Node :
          WF_vars(RecvHello(n, p)) /\ WF_vars(RecvGoodbye(n, p)) /\ WF_vars(Expire(n, p))

LiveSpec == Spec /\ Fairness

-----------------------------------------------------------------------------
(* Properties *)

\* Nothing but PINGs and PONGs is on its way between the hub and the nodes.
Calm ==
    /\ hub
    /\ \A n \in Node : \A q \in {up[n], down[n]} :
          \A i \in DOMAIN q : q[i].type \in {"PING", "PONG"}
    /\ \A j \in 1..Len(closed) : closed[j] = <<>>

\* The hub was never replaced behind the back of a link.
Seamless == spent["quick"] = 0 /\ (host = None \/ born[host] <= 1)

\* Nobody announced twice, so nobody announced what it had only learned.
AnnouncedOnce == Seamless /\ spent["hub"] + spent["late"] + spent["reset"] = 0

\* No node came back while the hub still had to read its earlier process.
Unhurried == spent["hasty"] = 0

\* Convergence of the replicated tuple table (gossip.py, _accept and the
\* snapshot that answers HELLO; node.py, _handle_gossip_client): whatever was
\* announced, in whatever order, by new links and by closed ones that the hub
\* reads later, once the frames are handled every client has exactly the hub's
\* tuples, right or wrong.
TablesAgree ==
    Calm /\ Seamless /\ spent["unpublish"] = 0 =>
        \A n \in clients : tuples[n] = table

\* The hub ends up with the present endpoint of every node that runs, stops and
\* restarts under the same uuid included (_accept replaces a tuple whose value
\* differs), with three premises.  No restart is hasty: the hub keeps no order
\* between the frames of the earlier process and those of the new one, and what
\* it reads last stays.  No node announces again what it learned from others
\* (_gossip_announce sends all of _gossip_tuples, however old).  No tuple is
\* deleted at the hub (gossip_unpublish of the node that hosts it).
HubFresh ==
    Calm /\ Unhurried /\ AnnouncedOnce /\ host \notin Node \ live
      /\ (host = None \/ spent["unpublish"] = 0) =>
        \A n \in live : table[n] = born[n]

\* Two nodes that run end up connected to each other (_gossip_require, then
\* HELLO both ways), through stops, late hubs and hubs that go away for more
\* than the 5 s of _gossip_maintain; not if a node returns under its uuid.
Meet ==
    [](spent["reboot"] + spent["hasty"] + spent["quick"] = 0) =>
        <>[](host \notin Node \ live =>
                \A n, p \in live : n # p => peers[n][p] = born[p])
-----------------------------------------------------------------------------
(* Why TypeOK, TablesAgree and HubFresh hold *)

\* Who has the value old for k has v when it handled q.
Becomes(q, k, old, v) ==
    \/ v = old /\ ~Publishes(q, k)
    \/ \E i \in 1..Len(q) :
          Tells(q[i], k) /\ q[i].value = v /\ \A j \in i + 1..Len(q) : ~Tells(q[j], k)

\* The hub's side of the links, and what bounds the endpoints.
Linked ==
    /\ spent["reboot"] <= Bound["reboot"] /\ spent["hasty"] <= Bound["hasty"]
    /\ \A n \in Node : /\ born[n] <= 1 + spent["reboot"] + spent["hasty"] /\ (n \in live => born[n] # 0)
                       /\ net[n][n] = <<>>
                       /\ n \notin live => up[n] = <<>> /\ down[n] = <<>>
    /\ clients \subseteq live
    /\ ~hub => clients = {} /\ table = Empty
    /\ host # None => up[host] = <<>> /\ (hub <=> host \in live)
    /\ host = None /\ spent["hub"] = 0 => hub

\* A link the hub has not seen is greeted first, and announces all its node has.
Joining ==
    \A n \in fresh \ clients :
        /\ up[n] # <<>> /\ up[n][1].type = "HELLO"
        /\ \A k \in Node : ~Publishes(down[n], k)
        /\ \A k \in Node : tuples[n][k] # 0 => Publishes(up[n], k)

\* A client will have the hub's tuple, or tell the hub of one it lacks.
Following ==
    spent["unpublish"] = 0 =>
        \A n \in clients \cap fresh, k \in Node :
            \/ Becomes(down[n], k, tuples[n][k], table[k])
            \/ table[k] = 0 /\ Publishes(up[n], k)

\* The first hub of a node, or one in place of which no other came, or the next one.
Lasting == hub \/ (host # None /\ born[host] = 0)

\* It has only links that greet it.
Greeted == Seamless /\ Lasting => \A n \in Node : Client(n) => n \in fresh

\* Everyone tells of itself, and tells its present endpoint.
Original ==
    Unhurried /\ AnnouncedOnce /\ (host = None \/ spent["unpublish"] = 0) /\ Lasting =>
        /\ \A n \in Node : \A i \in 1..Len(up[n]) : up[n][i].type = "PUBLISH" =>
              up[n][i].key = n /\ up[n][i].value = born[n]
        /\ \A n \in live : ~Haunted(n)
        /\ \A n \in Node : \A i \in 1..Len(down[n]) : down[n][i].type # "INVALID"
        /\ \A n \in live \ {host} : Publishes(up[n], n) \/ table[n] = born[n]
        /\ hub /\ host # None => table[host] = born[host]
=============================================================================
