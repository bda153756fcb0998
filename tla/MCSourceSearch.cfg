SPECIFICATION Spec
CONSTANTS
    p = p
    q = q
    None = None
    Connections <- TwoPeers
    sync_req_span = 3
    Lag = 2
    Heads = {4}
    PeerHeads <- BothFar
    MaxEvents = 2
INVARIANT SearchEnds
CHECK_DEADLOCK FALSE
