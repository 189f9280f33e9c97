--------------------------- MODULE ZreAddressProofs ---------------------------
(***************************************************************************)
(* Theorems about ZreDial, for every set of peers and addresses, and about *)
(* ZreBeacon, for every set of interfaces and every plan of addresses.     *)
(***************************************************************************)
EXTENDS ZreDial, ZreBeacon, TLAPS

\* The placeholder that is adopted for e is in _pending, and on e's port.
LEMMA CandidateFacts ==
    ASSUME NEW e \in Endpoint, TypeOK, NEW d \in Candidates(e)
    PROVE  d \in placeholders /\ d \in Endpoint /\ PortOf[d] = PortOf[e]
BY DEF Candidates, TypeOK

\* An address without a candidate is not dialled by a placeholder.
LEMMA NoCandidate ==
    ASSUME NEW e \in Endpoint, Candidates(e) = {}
    PROVE  e \notin placeholders
BY DEF Candidates

\* An address announced for u is one u listens at.
LEMMA AnnouncedFacts ==
    ASSUME NEW u \in Peer, NEW e \in Announced[u]
    PROVE  e \in Endpoint /\ Listens[e] = u
BY AnnouncedAssumption

-----------------------------------------------------------------------------

\* The tables keep their types: only entries of _peers are connected or ready,
\* through adoption, hang-up and removal.
THEOREM TypeCorrect == Spec => []TypeOK
<1>1. Init => TypeOK
  BY DEF Init, TypeOK, Known
<1>2. TypeOK /\ [Next]_vars => TypeOK'
  <2> SUFFICES ASSUME TypeOK, [Next]_vars PROVE TypeOK'
    OBVIOUS
  <2> USE NoneAssumption DEF TypeOK, Known
  <2>1. CASE UNCHANGED vars
    BY <2>1 DEF vars
  <2>2. ASSUME NEW e \in Endpoint, Dial(e) PROVE TypeOK'
    BY <2>2 DEF Dial
  <2>3. ASSUME NEW e \in Endpoint, ExpirePending(e) PROVE TypeOK'
    BY <2>3 DEF ExpirePending
  <2>4. ASSUME NEW u \in Peer, NEW d \in Endpoint, Adopt(u, d),
               ready' = ready \/ ready' = ready \cup {u}
        PROVE  TypeOK'
    BY <2>4 DEF Adopt
  <2>5. ASSUME NEW u \in Peer, NEW e \in Endpoint, Connect(u, e),
               ready' = ready \/ ready' = ready \cup {u}
        PROVE  TypeOK'
    BY <2>5 DEF Connect
  <2>6. ASSUME NEW u \in Peer, NEW e \in Endpoint, Announce(u, e) PROVE TypeOK'
    BY <2>4, <2>5, <2>6, CandidateFacts DEF Announce
  <2>7. ASSUME NEW u \in Peer, NEW e \in Endpoint, HelloNew(u, e) PROVE TypeOK'
    BY <2>4, <2>5, <2>7, CandidateFacts DEF HelloNew
  <2>8. ASSUME NEW u \in Peer, HelloKnown(u) PROVE TypeOK'
    BY <2>8 DEF HelloKnown
  <2>9. ASSUME NEW u \in Peer, HangUp(u) PROVE TypeOK'
    BY <2>9 DEF HangUp
  <2>10. ASSUME NEW u \in Peer, RemovePeer(u) PROVE TypeOK'
    BY <2>10 DEF RemovePeer
  <2> QED
    BY <2>1, <2>2, <2>3, <2>6, <2>7, <2>8, <2>9, <2>10 DEF Next
<1> QED
  BY <1>1, <1>2, PTL DEF Spec

-----------------------------------------------------------------------------

\* What a step can do to the entry of a peer: nothing, drop it, adopt a
\* candidate of an announced address, or dial the announced address.
LEMMA EntryStep ==
    ASSUME TypeOK, [Next]_vars, NEW u \in Peer
    PROVE  \/ dealer'[u] = dealer[u]
           \/ dealer'[u] = None
           \/ \E e \in Announced[u] : dealer'[u] = e \/ dealer'[u] \in Candidates(e)
<1> USE DEF TypeOK
<1>1. CASE UNCHANGED vars
  BY <1>1 DEF vars
<1>2. CASE \E e \in Endpoint : Dial(e) \/ ExpirePending(e)
  BY <1>2 DEF Dial, ExpirePending
<1>3. ASSUME NEW v \in Peer, NEW e \in Endpoint, Announce(v, e) \/ HelloNew(v, e)
      PROVE  \/ dealer'[u] = dealer[u]
             \/ \E a \in Announced[u] : dealer'[u] = a \/ dealer'[u] \in Candidates(a)
  BY <1>3 DEF Announce, HelloNew, Adopt, Connect
<1>4. CASE \E v \in Peer : HelloKnown(v) \/ HangUp(v) \/ RemovePeer(v)
  BY <1>4 DEF HelloKnown, HangUp, RemovePeer
<1> QED
  BY <1>1, <1>2, <1>3, <1>4 DEF Next

\* Every entry of _peers has a DEALER to the node it is filed under, where no
\* two nodes share a port (_adopt_pending matches a placeholder by port alone).
THEOREM DealerReachesPeerHolds == PortsIdentify => (Spec => []DealerReachesPeer)
<1> SUFFICES ASSUME PortsIdentify PROVE Spec => []DealerReachesPeer
  OBVIOUS
<1>1. Init => DealerReachesPeer
  BY DEF Init, DealerReachesPeer, Known
<1>2. TypeOK /\ DealerReachesPeer /\ [Next]_vars => DealerReachesPeer'
  <2> SUFFICES ASSUME TypeOK, DealerReachesPeer, [Next]_vars, NEW u \in Known'
               PROVE  Listens[dealer'[u]] = u
    BY DEF DealerReachesPeer
  <2> u \in Peer /\ dealer'[u] # None
    BY DEF Known
  <2>1. CASE dealer'[u] = dealer[u]
    BY <2>1 DEF DealerReachesPeer, Known
  <2>2. ASSUME NEW e \in Announced[u], dealer'[u] = e
        PROVE  Listens[dealer'[u]] = u
    BY <2>2, AnnouncedFacts
  <2>3. ASSUME NEW e \in Announced[u], dealer'[u] \in Candidates(e)
        PROVE  Listens[dealer'[u]] = u
    BY <2>3, AnnouncedFacts, CandidateFacts DEF PortsIdentify
  <2> QED
    BY <2>1, <2>2, <2>3, EntryStep
<1> QED
  BY <1>1, <1>2, TypeCorrect, PTL DEF Spec

\* No address has a connected entry and a placeholder, so that connect_peer
\* opens no second DEALER to it, whoever listens where.
THEOREM NoDoubleDialHolds == Spec => []NoDoubleDial
<1>1. Init => NoDoubleDial
  BY DEF Init, NoDoubleDial
<1>2. TypeOK /\ NoDoubleDial /\ [Next]_vars => NoDoubleDial'
  <2> SUFFICES ASSUME TypeOK, NoDoubleDial, [Next]_vars PROVE NoDoubleDial'
    OBVIOUS
  <2> USE DEF TypeOK, NoDoubleDial
  <2>1. CASE UNCHANGED vars
    BY <2>1 DEF vars
  <2>2. ASSUME NEW e \in Endpoint, Dial(e) \/ ExpirePending(e) PROVE NoDoubleDial'
    BY <2>2 DEF Dial, ExpirePending
  <2>3. ASSUME NEW u \in Peer, NEW d, Adopt(u, d) PROVE NoDoubleDial'
    BY <2>3, linked \subseteq Peer DEF Adopt, Known
  <2>4. ASSUME NEW u \in Peer, NEW e \in Endpoint, Candidates(e) = {}, Connect(u, e)
        PROVE  NoDoubleDial'
    BY <2>4, NoCandidate, linked \subseteq Peer DEF Connect, Known
  <2>5. ASSUME NEW u \in Peer, NEW e \in Endpoint, Announce(u, e) \/ HelloNew(u, e)
        PROVE  NoDoubleDial'
    BY <2>3, <2>4, <2>5 DEF Announce, HelloNew
  <2>6. ASSUME NEW u \in Peer, HelloKnown(u) \/ HangUp(u) \/ RemovePeer(u)
        PROVE  NoDoubleDial'
    BY <2>6, linked \subseteq Peer DEF HelloKnown, HangUp, RemovePeer, Known
  <2> QED
    BY <2>1, <2>2, <2>5, <2>6 DEF Next
<1> QED
  BY <1>1, <1>2, TypeCorrect, PTL DEF Spec

-----------------------------------------------------------------------------
(* Where beacons go *)

\* A mask printed as a number of the host and decoded again is the mask.
LEMMA ReversedTwice ==
    ASSUME NEW a \in Addr
    PROVE  Reversed(a) \in Addr /\ Reversed(Reversed(a)) = a
<1> DEFINE Place(b) == 8 * (3 - b \div 8) + (b % 8)
<1>1. ASSUME NEW b \in Bit PROVE Place(b) \in Bit /\ Place(Place(b)) = b
  BY DEF Bit
<1> HIDE DEF Place
<1>2. \A x \in Addr : Reversed(x) = {Place(b) : b \in x}
  BY DEF Reversed, Place
<1>3. Reversed(a) \in Addr
  BY <1>1, <1>2 DEF Addr
<1>4. Reversed(Reversed(a)) = {Place(c) : c \in {Place(b) : b \in a}}
  BY <1>2, <1>3
<1> QED
  BY <1>1, <1>3, <1>4 DEF Addr

\* No interface has 255.255.255.255 or 127.0.0.1 for its broadcast address.
LEMMA DirectedFacts ==
    ASSUME NEW i \in Iface, NEW net \in Lease[i]
    PROVE  Directed(net) # Limited /\ Directed(net) # Loopback
<1> net.addr \in SUBSET Bit /\ net.len \in 0..32
  BY LeaseAssumption DEF Addr
<1>1. CASE i = Lo
  <2>1. net = Loop
    BY <1>1, LoAssumption
  <2>2. 31 \notin Directed(net) /\ 1 \in Directed(net)
    BY <2>1 DEF Loop, Loopback, Directed, Mask, Bit
  <2> QED
    BY <2>2 DEF Limited, Loopback, Bit
<1>2. CASE i # Lo
  <2> Unicast(net)
    BY <1>2, LeaseAssumption
  <2>1. PICK b \in Mask(net.len) : b \notin net.addr
    BY DEF Unicast
  <2>2. b \in Bit /\ b \notin Directed(net)
    BY <2>1 DEF Directed, Mask, Bit
  <2>3. CASE net.len < 31
    <3>1. 1 \in Directed(net)
      BY <2>3 DEF Directed, Mask, Bit
    <3> QED
      BY <2>2, <3>1 DEF Limited, Loopback
  <2>4. CASE net.len >= 31
    <3>1. Mask(8) \subseteq Mask(net.len) /\ Mask(net.len) \subseteq Bit
      BY <2>4 DEF Mask, Bit
    <3>2. Directed(net) \cap Mask(8) = net.addr \cap Mask(8)
      BY <3>1 DEF Directed
    <3>3. Loopback \cap Mask(8) = 24..30
      BY DEF Loopback, Mask
    <3> QED
      BY <2>2, <3>2, <3>3 DEF Limited, Unicast
  <2> QED
    BY <2>3, <2>4
<1> QED
  BY <1>1, <1>2

\* The directed broadcast address of an interface that is not lo is among those
\* of the routing table.
LEMMA SubnetListed ==
    ASSUME NEW i \in Up, i # Lo, nic[i] \in Lease[i]
    PROVE  Directed(nic[i]) \in LocalSubnets
<1> DEFINE mask == Mask(nic[i].len)
           line == Route(i, mask)
<1>1. nic[i].addr \in Addr /\ nic[i].len \in 0..32 /\ Unicast(nic[i]) /\ i \in Iface
  BY LeaseAssumption DEF Up
<1>2. mask \in Addr /\ mask # {}
  BY <1>1 DEF Mask, Addr, Bit, Unicast
<1>3. line \in RouteTable
  BY DEF RouteTable
<1>4. /\ line.iface = i /\ line.dest = nic[i].addr \cap mask
      /\ line.mask = Reversed(mask)
  BY DEF Route
<1>5. Decoded(line.mask) = mask /\ line.mask # {}
  <2>1. Reversed(line.mask) = mask
    BY <1>2, <1>4, ReversedTwice
  <2>2. Reversed({}) = {}
    BY DEF Reversed
  <2> HIDE DEF mask, line
  <2> QED
    BY <1>2, <2>1, <2>2 DEF Decoded
<1>6. Resolve(line.iface) = nic[i].addr
  BY <1>4 DEF Resolve
<1>7. nic[i].addr \notin {Down, Loopback}
  <2>1. Loopback \cap Mask(8) = 24..30
    BY DEF Loopback, Mask
  <2> QED
    BY <1>1, <2>1, NameAssumption DEF Unicast
<1>8. line.dest # {}
  BY <1>1, <1>4 DEF Unicast
<1>9. Directed(nic[i]) = (Resolve(line.iface) \cap Decoded(line.mask))
                            \cup (Bit \ Decoded(line.mask))
  BY <1>5, <1>6 DEF Directed
<1> HIDE DEF line
<1> QED
  BY <1>1, <1>3, <1>4, <1>5, <1>6, <1>7, <1>8, <1>9 DEF LocalSubnets

LEMMA BeaconInitial == BeaconInit => Placed /\ Aimed
BY DEF BeaconInit, Placed, Aimed

\* The first beacon aims at what the interfaces are.
LEMMA BuildAims ==
    ASSUME Placed, Build, UNCHANGED <<pin, nic>>
    PROVE  Aimed'
<1> USE NameAssumption DEF Up
<1>1. /\ sock' = IF BindAddress \in Addresses THEN BindAddress
                 ELSE IF BindAddress \in {Unpinned, Down} THEN Unpinned
                 ELSE Down
      /\ targets' = {Loopback} \cup (IF InterfaceBroadcast # {} THEN InterfaceBroadcast
                                     ELSE {Limited} \cup LocalSubnets)
      /\ built' = nic /\ pin' = pin
  BY DEF Build
<1>2. \A i \in Up : nic[i] \in Lease[i] /\ nic[i].addr \notin Iface \cup {Unpinned, Down}
  BY DEF Placed
<1>3. ASSUME pin = Unpinned
      PROVE  /\ sock' = Unpinned /\ Limited \in targets'
             /\ \A i \in Iface \ {Lo} : nic[i] # Down => Directed(nic[i]) \in targets'
  <2>1. BindAddress = Unpinned /\ InterfaceBroadcast = {}
    BY <1>3 DEF BindAddress, InterfaceBroadcast
  <2> QED
    BY <1>1, <1>2, <2>1, SubnetListed
<1>4. ASSUME NEW i \in Iface, nic[i] # Down, pin = i
      PROVE  sock' = nic[i].addr /\ targets' = {Loopback, Directed(nic[i])}
  <2>1. BindAddress = nic[i].addr /\ nic[i].addr \in Addresses
    BY <1>4 DEF BindAddress, Resolve, Addresses
  <2>2. InterfaceBroadcast = {Directed(nic[i])}
    BY <1>4 DEF InterfaceBroadcast
  <2> QED
    BY <1>1, <2>1, <2>2
<1>5. \A net : Directed(net)' = Directed(net)
  BY DEF Directed
<1> QED
  BY <1>1, <1>3, <1>4 DEF Aimed, Directed, Mask

LEMMA BeaconStep == Placed /\ Aimed /\ [BeaconNext]_beaconVars => (Placed /\ Aimed)'
<1> SUFFICES ASSUME Placed, Aimed, [BeaconNext]_beaconVars PROVE (Placed /\ Aimed)'
  OBVIOUS
<1>1. CASE UNCHANGED beaconVars
  BY <1>1 DEF beaconVars, Placed, Aimed
<1>2. CASE SendBeacon
  <2>1. CASE sock = Down
    <3>1. Build /\ UNCHANGED <<pin, nic>>
      BY <1>2, <2>1 DEF SendBeacon
    <3>2. Placed'
      BY <3>1 DEF Placed, Build
    <3> QED
      BY <3>1, <3>2, BuildAims
  <2>2. CASE sock # Down
    BY <1>2, <2>2 DEF SendBeacon, Placed, Aimed
  <2> QED
    BY <2>1, <2>2
<1>3. ASSUME NEW i \in Iface, Readdress(i) PROVE (Placed /\ Aimed)'
  BY <1>3 DEF Readdress, Placed, Aimed
<1> QED
  BY <1>1, <1>2, <1>3 DEF BeaconNext

\* What the targets of a socket that is still good reach.
LEMMA Reaches ==
    Placed /\ Aimed => SteadyReach
<1> SUFFICES ASSUME Placed, Aimed, sock # Down PROVE SteadyReach
  BY DEF SteadyReach
<1> USE NameAssumption DEF Up
<1>1. \A i \in Up : /\ nic[i] \in Lease[i] /\ nic[i].addr \notin Iface \cup {Unpinned, Down}
                   /\ Directed(nic[i]) # Limited /\ Directed(nic[i]) # Loopback
  BY DirectedFacts DEF Placed
<1>2. \A i \in Up : Leaves(Directed(nic[i])) = {j \in Up : Directed(nic[i]) = Directed(nic[j])}
  BY <1>1 DEF Leaves
<1>3. ASSUME pin = Unpinned
      PROVE  /\ {gateway} \cap Up \subseteq Reached
             /\ {i \in Up \ {Lo} : nic[i] = built[i] /\ nic[i].len < 31} \subseteq Reached
  <2>1. sock = Unpinned /\ Limited \in targets
    BY <1>3 DEF Aimed
  <2>2. Reached = UNION {Leaves(t) : t \in targets}
    BY <2>1 DEF Reached
  <2>3. Leaves(Limited) = {gateway} \cap Up
    BY <2>1 DEF Leaves
  <2>4. ASSUME NEW i \in Up \ {Lo}, nic[i] = built[i] PROVE i \in Reached
    <3>1. Directed(nic[i]) \in targets
      BY <1>3, <2>4 DEF Aimed
    <3> QED
      BY <1>2, <2>2, <3>1
  <2> QED
    BY <2>1, <2>2, <2>3, <2>4
<1>4. ASSUME NEW i \in Up, nic[i] = built[i], pin = i
      PROVE  i \in Reached /\ \A j \in Reached : Directed(nic[j]) = Directed(nic[i])
  <2>1. sock = nic[i].addr /\ targets = {Loopback, Directed(nic[i])}
    BY <1>4 DEF Aimed
  <2>2. Reached = Leaves(Loopback) \cup Leaves(Directed(nic[i]))
    BY <2>1 DEF Reached, Addresses
  <2>3. Loopback # Limited
    <3>1. 1 \in Limited /\ 1 \notin Loopback
      BY DEF Limited, Loopback, Bit
    <3> QED
      BY <3>1
  <2>4. Leaves(Loopback) = {}
    BY <1>1, <2>3 DEF Leaves
  <2> QED
    BY <1>2, <2>2, <2>4
<1> QED
  BY <1>3, <1>4 DEF SteadyReach

\* Whatever plan of addresses a host has, a node without a pin, or pinned by name,
\* reaches the LANs it is meant for through every interface that is as its first
\* beacon found it, also while others come and go.
THEOREM SteadyReachHolds == BeaconSpec => []SteadyReach
BY BeaconInitial, BeaconStep, Reaches, PTL DEF BeaconSpec
=============================================================================
