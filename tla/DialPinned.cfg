SPECIFICATION Spec
CONSTANTS
    c = c
    d = d
    f = f
    Peer = {c, d}
    Nobody = Nobody
    None = None
    Endpoint <- PinnedNet
    PortOf <- Ports
    Listens <- Owners
    Announced <- AnyOwn
INVARIANTS
    DealerReachesPeer
