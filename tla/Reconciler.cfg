SPECIFICATION FairSpec
CONSTANTS
    e1 = e1
    e2 = e2
    e3 = e3
    k1 = k1
    k2 = k2
    k3 = k3
    p1 = p1
    p2 = p2
    b1 = b1
    b2 = b2
    Ep = {e1, e2, e3}
    Key = {k1, k2, k3}
    Port = {p1, p2}
    PortOf <- Ports
    Backend = {b1, b2}
    None = None
    Wants <- ReshapeWants
    DrainGrace = 2
    ShutdownGrace = 1
    MaxConns = 1
INVARIANTS
    OneListenerPerPort
    Converged
    IInv
PROPERTIES
    
    DrainsEnd
    ShutdownEnds
