----------------------------- MODULE ZreBeacon -----------------------------
(***************************************************************************)
(* Where the beacons of a node go.  The first beacon builds the socket and  *)
(* the list of targets, from the interfaces that the host has then; later   *)
(* ones use both as they are, though addresses come and go.                 *)
(*                                                                          *)
(* An address is the set of its bits that are 1, so & is \cap and | is \cup.*)
(***************************************************************************)
EXTENDS Naturals, FiniteSets

CONSTANTS
    Iface,   \* names of interfaces; on each is one LAN
    Lease,   \* Lease[i]: what i may be given, [addr, len]
    Extra,   \* routes over gateways, [iface, dest, mask]
    Pins,    \* what set_interface() may be given: a name, an address, or Unpinned
    Lo,      \* the loopback interface
    Unpinned,
    Down     \* no address, or no socket

Bit == 0..31
Addr == SUBSET Bit
Mask(len) == (32 - len) .. 31

\* A name is no address.
ASSUME NameAssumption ==
    /\ Lo \in Iface
    /\ {Unpinned, Down} \cap Iface = {} /\ Unpinned # Down
    /\ \A i \in Iface : \A net \in Lease[i] : net.addr \notin Iface \cup {Unpinned, Down}

Limited == Bit                           \* 255.255.255.255
Loopback == {0} \cup 24..30              \* 127.0.0.1
Loop == [addr |-> Loopback, len |-> 8]   \* what lo has

\* Interfaces have unicast addresses: of a network that is neither 0 nor all
\* ones, and but for lo, not of 127/8.
Unicast(net) ==
    /\ net.addr \cap Mask(net.len) \notin {{}, Mask(net.len)}
    /\ net.addr \cap Mask(8) # 24..30

ASSUME LeaseAssumption ==
    \A i \in Iface : /\ Lease[i] \subseteq [addr : Addr, len : 0..32]
                     /\ Down \notin Lease[i]
                     /\ i # Lo => \A net \in Lease[i] : Unicast(net)
ASSUME LoAssumption == Lease[Lo] = {Loop}
ASSUME ExtraAssumption == Extra \subseteq [iface : Iface, dest : Addr, mask : Addr]

VARIABLES
    pin,      \* _interface, always the same
    nic,      \* nic[i]: what i has, or Down
    gateway,  \* interface of the default route
    sock,     \* _send_sock: the address it is bound to, Unpinned, or Down
    targets,  \* _send_targets
    built     \* history: the interfaces when sock was built

beaconVars == <<pin, nic, gateway, sock, targets, built>>

Up == {i \in Iface : nic[i] # Down}
Addresses == {nic[i].addr : i \in Up}

BeaconInit ==
    /\ pin \in Pins
    /\ nic \in [Iface -> UNION {Lease[i] : i \in Iface} \cup {Down}]
    /\ \A i \in Iface : nic[i] \in Lease[i] \cup {Down}
    /\ gateway \in Iface
    /\ sock = Down
    /\ targets = {}
    /\ built = nic

-----------------------------------------------------------------------------
(* The host *)

\* /proc/net/route prints a mask as a number of the host: bytes in reverse.
Reversed(a) == {8 * (3 - b \div 8) + (b % 8) : b \in a}
Route(i, mask) == [iface |-> i, dest |-> nic[i].addr \cap mask, mask |-> Reversed(mask)]
RouteTable ==
    {Route(i, Mask(nic[i].len)) : i \in Up \ {Lo}}
      \cup {[r EXCEPT !.mask = Reversed(@)] : r \in {x \in Extra : x.iface \in Up}}
      \cup {[iface |-> gateway, dest |-> {}, mask |-> {}]}

Directed(net) == (net.addr \cap Mask(net.len)) \cup (Bit \ Mask(net.len))

\* The LANs that a datagram to an address gets to.
Leaves(target) ==
    IF target # Limited THEN {i \in Up : target = Directed(nic[i])}
    ELSE IF sock = Unpinned THEN {gateway} \cap Up
    ELSE {i \in Up : nic[i].addr = sock}

\* Those that a beacon gets to.  A bound socket sends nothing any more once its
\* address is gone.
Reached ==
    IF sock \in Addresses \cup {Unpinned} THEN UNION {Leaves(t) : t \in targets} ELSE {}

\* An interface gets, loses or changes its address.
Readdress(i) ==
    /\ i # Lo
    /\ \E net \in Lease[i] \cup {Down} : net # nic[i] /\ nic' = [nic EXCEPT ![i] = net]
    /\ UNCHANGED <<pin, gateway, sock, targets, built>>

-----------------------------------------------------------------------------
(* The node *)

\* _resolve_interface_ip of a name.
Resolve(i) == IF i \in Up THEN nic[i].addr ELSE Down

\* _resolve_interface_ip of what is pinned.
BindAddress == IF pin \in Iface THEN Resolve(pin) ELSE pin

\* Mutant of Decoded: the bytes stay as they are printed.
DecodedAsPrinted(mask) == mask

\* The netmask of a line of the table.
Decoded(mask) == Reversed(mask)

\* _local_subnet_broadcasts.
LocalSubnets ==
    LET lines == {r \in RouteTable : r.iface # Lo /\ r.dest # {} /\ r.mask # {}
                                     /\ Resolve(r.iface) \notin {Down, Loopback}}
        Broadcast(r) == (Resolve(r.iface) \cap Decoded(r.mask)) \cup (Bit \ Decoded(r.mask))
    IN  {Broadcast(r) : r \in lines}

\* _interface_broadcast.  Only a name has a netmask; an address pinned has none.
InterfaceBroadcast == {Directed(nic[i]) : i \in {pin} \cap Up}

\* _build_send_sock.  An address that the host does not have cannot be bound.
Build ==
    LET subnet == InterfaceBroadcast
    IN  /\ sock' = IF BindAddress \in Addresses THEN BindAddress
                   ELSE IF BindAddress \in {Unpinned, Down} THEN Unpinned
                   ELSE Down
        /\ targets' = {Loopback} \cup (IF subnet # {} THEN subnet ELSE {Limited} \cup LocalSubnets)
        /\ built' = nic

\* _send_beacon.  A target that fails is passed over, and the socket kept.
SendBeacon ==
    /\ IF sock = Down THEN Build ELSE UNCHANGED <<sock, targets, built>>
    /\ UNCHANGED <<pin, nic, gateway>>

BeaconNext == SendBeacon \/ \E i \in Iface : Readdress(i)

BeaconSpec == BeaconInit /\ [][BeaconNext]_beaconVars

-----------------------------------------------------------------------------
(* Properties *)

\* While a LAN's interface is as the first beacon found it, the beacons of a node
\* without a pin reach it, and the LAN of the default route whatever changed; those
\* of a node pinned to an interface by name reach its LAN and no other
\* (docs/PROTOCOL.md:16-19, _local_subnet_broadcasts).  A pin by address and
\* a pinned interface that changed are the subject of PinnedReach.
SteadyReach ==
    sock # Down =>
        /\ pin = Unpinned =>
              /\ {gateway} \cap Up \subseteq Reached
              /\ {i \in Up \ {Lo} : nic[i] = built[i] /\ nic[i].len < 31} \subseteq Reached
        /\ \A i \in Up : nic[i] = built[i] /\ pin = i =>
              i \in Reached /\ \A j \in Reached : Directed(nic[j]) = Directed(nic[i])

\* A beacon is sent every second.
BeaconFairness == WF_beaconVars(SendBeacon)

\* "When an interface is pinned with set_interface, only that interface's subnet
\* broadcast is used" (docs/PROTOCOL.md:18-19), be it pinned by its name or by its
\* address (the docstring of set_interface, node.py:590), and socket and targets are
\* "rebuilt on send failure" (the comment at node.py:534-535): so, once interfaces
\* change no more, beacons reach the LAN of the pinned one and no other.  The code
\* violates it, by a pin by address and by an interface whose address changed.
PinnedReach ==
    <>[][UNCHANGED nic]_beaconVars =>
        \A i \in Iface : <>[](i \in Up /\ nic[i].len < 31 /\ pin \in {i, nic[i].addr} =>
            /\ i \in Reached
            /\ \A j \in Reached : nic[j].len < 31 => Directed(nic[j]) = Directed(nic[i]))

\* Interfaces have, and had, addresses of their own leases.
Placed == \A i \in Iface : {nic[i], built[i]} \subseteq Lease[i] \cup {Down}

\* The socket and its targets are those of the pin and of the interfaces at the
\* first beacon (_build_send_sock); this with Placed is why SteadyReach holds.
Aimed ==
    sock # Down =>
        /\ pin = Unpinned =>
              /\ sock = Unpinned /\ Limited \in targets
              /\ \A i \in Iface \ {Lo} : built[i] # Down => Directed(built[i]) \in targets
        /\ \A i \in Iface : built[i] # Down /\ pin = i =>
              sock = built[i].addr /\ targets = {Loopback, Directed(built[i])}
=============================================================================
