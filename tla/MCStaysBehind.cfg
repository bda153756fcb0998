SPECIFICATION FairSpec
CONSTANTS
    p = p
    q = q
    None = None
    Connections <- TwoPeers
    sync_req_span = 3
    Lag = 2
    Heads = {4}
    PeerHeads <- NearAndFar
    MaxEvents = 0
PROPERTY EntersSyncMode
CHECK_DEADLOCK FALSE
