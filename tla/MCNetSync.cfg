SPECIFICATION FairSpec
CONSTANTS
    p = p
    q = q
    None = None
    Connections <- TwoPeers
    sync_req_span = 3
    Lag = 2
    Heads = {4}
    PeerHeads <- AnyHeads
    MaxEvents = 1
INVARIANT NoHole
PROPERTIES Watched CatchesUp
CHECK_DEADLOCK FALSE
