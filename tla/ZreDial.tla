------------------------------- MODULE ZreDial -------------------------------
(***************************************************************************)
(* The outbound connections of one node: peers found by beacon or gossip,  *)
(* peers dialled by address (connect_peer), and the adoption of a dialled  *)
(* placeholder under the uuid it turns out to have (_adopt_pending).       *)
(*                                                                         *)
(* The other nodes are the environment: any of them may announce itself or *)
(* send HELLO at any time.  Who listens at an address is fixed; the node   *)
(* does not know it.  The two timers are reduced to what they allow: a     *)
(* peer or a placeholder may expire at any time.                           *)
(***************************************************************************)
EXTENDS Naturals, FiniteSets

CONSTANTS
    Peer,       \* uuids of the other nodes
    Endpoint,   \* host:port addresses
    PortOf,     \* PortOf[e]: the port of address e
    Listens,    \* Listens[e]: the node whose inbox is bound there, or Nobody
    Nobody,
    None,
    Announced   \* Announced[u]: addresses under which u is announced: source
                \* address of its beacons, its gossip tuple, its HELLO endpoint

ASSUME NobodyAssumption == Nobody \notin Peer
ASSUME NoneAssumption == None \notin Endpoint
ASSUME ListensAssumption == Listens \in [Endpoint -> Peer \cup {Nobody}]
ASSUME PortAssumption == DOMAIN PortOf = Endpoint
ASSUME AnnouncedAssumption ==
    /\ Announced \in [Peer -> SUBSET Endpoint]
    /\ \A u \in Peer : \A e \in Announced[u] : Listens[e] = u

VARIABLES
    dealer,        \* dealer[u]: address u's entry in _peers was dialled at, or None
    linked,        \* peers whose Peer.connected holds
    ready,         \* peers whose Peer.ready holds
    placeholders   \* addresses dialled, greeted and not yet adopted (_pending)

vars == <<dealer, linked, ready, placeholders>>

Known == {u \in Peer : dealer[u] # None}

TypeOK ==
    /\ dealer \in [Peer -> Endpoint \cup {None}]
    /\ linked \subseteq Known
    /\ ready \subseteq Known
    /\ placeholders \subseteq Endpoint

Init ==
    /\ dealer = [u \in Peer |-> None]
    /\ linked = {}
    /\ ready = {}
    /\ placeholders = {}

-----------------------------------------------------------------------------

\* Mutant of Candidates: any placeholder will do.
CandidatesAny(e) == IF e \in placeholders THEN {e} ELSE placeholders

\* The placeholders that _adopt_pending may take for address e: the one dialled
\* at e itself, else one with the same port whatever its host.
Candidates(e) ==
    IF e \in placeholders THEN {e} ELSE {d \in placeholders : PortOf[d] = PortOf[e]}

\* Mutant of Adopt: the placeholder is not taken out of _pending.
AdoptKept(u, d) ==
    /\ dealer' = [dealer EXCEPT ![u] = d]
    /\ linked' = linked \cup {u}
    /\ UNCHANGED placeholders

\* _adopt_pending: u's entry is the placeholder of address d from now on.
Adopt(u, d) ==
    /\ dealer' = [dealer EXCEPT ![u] = d]
    /\ linked' = linked \cup {u}
    /\ placeholders' = placeholders \ {d}

\* A new Peer object with a DEALER of its own, dialled at e.
Connect(u, e) ==
    /\ dealer' = [dealer EXCEPT ![u] = e]
    /\ linked' = linked \cup {u}
    /\ UNCHANGED placeholders

\* connect_peer, executed by _do_connect.  Nothing happens for an address that
\* a connected peer or a placeholder was dialled at.
Dial(e) ==
    /\ e \notin placeholders
    /\ \A u \in linked : dealer[u] # e
    /\ placeholders' = placeholders \cup {e}
    /\ UNCHANGED <<dealer, linked, ready>>

\* A beacon or a gossip tuple announces u at e: a placeholder is adopted for
\* it, or e is dialled.  (HELLO follows, on an adopted connection a second one.)
Announce(u, e) ==
    /\ u \notin Known
    /\ e \in Announced[u]
    /\ \/ \E d \in Candidates(e) : Adopt(u, d)
       \/ Candidates(e) = {} /\ Connect(u, e)
    /\ UNCHANGED ready

\* HELLO of an unknown uuid: a placeholder is adopted and HELLO not answered,
\* or e is dialled and HELLO answered.  The peer is ready either way.
HelloNew(u, e) ==
    /\ u \notin Known
    /\ e \in Announced[u]
    /\ \/ \E d \in Candidates(e) : Adopt(u, d)
       \/ Candidates(e) = {} /\ Connect(u, e)
    /\ ready' = ready \cup {u}

\* HELLO of a peer in the table that is not ready: ready, connected or not.
HelloKnown(u) ==
    /\ u \in Known \ ready
    /\ ready' = ready \cup {u}
    /\ UNCHANGED <<dealer, linked, placeholders>>

\* A send fails with EAGAIN: Peer.disconnect(), the entry stays in the table.
HangUp(u) ==
    /\ u \in linked
    /\ linked' = linked \ {u}
    /\ ready' = ready \ {u}
    /\ UNCHANGED <<dealer, placeholders>>

\* Mutant of RemovePeer: the entry goes, its connection stays.
RemoveOpen(u) ==
    /\ u \in Known
    /\ dealer' = [dealer EXCEPT ![u] = None]
    /\ UNCHANGED <<linked, ready, placeholders>>

\* EXIT beacon, GOODBYE or expiry of u.
RemovePeer(u) ==
    /\ u \in Known
    /\ dealer' = [dealer EXCEPT ![u] = None]
    /\ linked' = linked \ {u}
    /\ ready' = ready \ {u}
    /\ UNCHANGED placeholders

\* _reap: a placeholder that was never adopted is closed.
ExpirePending(e) ==
    /\ e \in placeholders
    /\ placeholders' = placeholders \ {e}
    /\ UNCHANGED <<dealer, linked, ready>>

Next ==
    \/ \E e \in Endpoint : Dial(e) \/ ExpirePending(e)
    \/ \E u \in Peer, e \in Endpoint : Announce(u, e) \/ HelloNew(u, e)
    \/ \E u \in Peer : HelloKnown(u) \/ HangUp(u) \/ RemovePeer(u)

Spec == Init /\ [][Next]_vars

-----------------------------------------------------------------------------
(* Conditions on the network *)

\* Nodes are told apart by their port: addresses with one port are one node's.
PortsIdentify ==
    \A d, e \in Endpoint : PortOf[d] = PortOf[e] => Listens[d] = Listens[e]

-----------------------------------------------------------------------------
(* Properties *)

\* What is sent to a table entry goes to the node it is filed under: the DEALER
\* of u was dialled at an address of u.  It takes PortsIdentify, as a placeholder
\* is adopted on its port alone.  "When the answer arrives, the
\* placeholder is re-keyed by the real UUID (same dealer, same connection ...)"
\* (node.py:1040-1042).
DealerReachesPeer == \A u \in Known : Listens[dealer[u]] = u

\* connect_peer never opens a second DEALER to an address: it has a connected
\* entry or a placeholder, not both, however dials, announcements, HELLOs and
\* hang-ups mix.
NoDoubleDial == \A u \in linked : dealer[u] \notin placeholders
=============================================================================
