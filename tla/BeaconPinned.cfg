SPECIFICATION MCLive
CONSTANTS
    c = c
    d = d
    f = f
    Peer = {c, d, f}
    Nobody = Nobody
    None = None
    Endpoint <- AliasNet
    PortOf <- Ports
    Listens <- Owners
    Announced <- AnyOwn
    eth0 = eth0
    virbr0 = virbr0
    tun0 = tun0
    Lo = lo
    Iface = {eth0, virbr0, tun0, lo}
    Lease <- MCLease
    Extra <- MCExtra
    Pins <- MCPins
    Unpinned = Unpinned
    Down = Down
PROPERTIES
    PinnedReach
