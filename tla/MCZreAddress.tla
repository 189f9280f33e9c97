---------------------------- MODULE MCZreAddress ----------------------------
(***************************************************************************)
(* What one node makes of addresses: its own, where it sends beacons, and   *)
(* those of others, which it dials.  Neither side looks at the other, so    *)
(* one of them moves in a behaviour.                                        *)
(***************************************************************************)
EXTENDS MCZreDial, ZreBeacon

CONSTANTS eth0, virbr0, tun0

VARIABLE side

\* The address a.b.c.d.
IP(a, b, e, g) ==
    LET Bits(x, base) == {base + k : k \in {k \in 0..7 : (x \div 2^k) % 2 = 1}}
    IN  Bits(a, 24) \cup Bits(b, 16) \cup Bits(e, 8) \cup Bits(g, 0)

Net(addr, len) == [addr |-> addr, len |-> len]

\* A card that gets one of two addresses of networks of odd length, a virtual
\* bridge, a point-to-point tunnel, and lo.
MCLease ==
    [i \in Iface |->
        CASE i = eth0 -> {Net(IP(192, 168, 1, 20), 24), Net(IP(10, 20, 77, 9), 20)}
          [] i = virbr0 -> {Net(IP(192, 168, 122, 1), 24), Net(IP(172, 17, 0, 1), 16)}
          [] i = tun0 -> {Net(IP(10, 8, 0, 2), 32)}
          [] i = Lo -> {Loop}]

\* What is behind a gateway on the card.
MCExtra == {[iface |-> eth0, dest |-> IP(10, 96, 0, 0), mask |-> Mask(12)]}

MCPins == {Unpinned, eth0, virbr0, Lo, IP(192, 168, 1, 20), IP(172, 17, 0, 1)}

AddressInit ==
    /\ Init /\ BeaconInit
    /\ nic[Lo] = Loop /\ gateway \in {eth0, virbr0}
    /\ side # "beacon" => pin = Unpinned /\ gateway = eth0 /\ Up = {Lo}

AddressNext ==
    /\ UNCHANGED side
    /\ \/ side = "dial" /\ Next /\ UNCHANGED beaconVars
       \/ side = "beacon" /\ BeaconNext /\ UNCHANGED vars

addressVars == <<vars, beaconVars, side>>

\* The beacons alone, sent for ever.
MCLive == side = "beacon" /\ AddressInit /\ [][AddressNext]_addressVars /\ BeaconFairness
=============================================================================
