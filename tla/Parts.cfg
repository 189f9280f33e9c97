SPECIFICATION MCSpec
CONSTANTS
    c = c
    d = d
    f = f
    Peer = {c, d, f}
    Nobody = Nobody
    None = None
    Endpoint <- AliasNet
    PortOf <- Ports
    Listens <- Owners
    Announced <- AnyOwn
    eth0 = eth0
    virbr0 = virbr0
    tun0 = tun0
    Lo = lo
    Iface = {eth0, virbr0, tun0, lo}
    Lease <- MCLease
    Extra <- MCExtra
    Pins <- MCPins
    Unpinned = Unpinned
    Down = Down
    n1 = n1
    n2 = n2
    n3 = n3
    k1 = k1
    Node = {n1, n2, n3}
    Key = {k1}
    Writers <- MCWriters
    Sets = 2
    Coordinator = n1
    Tasks = 2
SYMMETRY Symmetry
INVARIANTS
    TypeOK
    DealerReachesPeer
    NoDoubleDial
    SteadyReach
    Converged
    NoRollback
    Served
CHECK_DEADLOCK FALSE
