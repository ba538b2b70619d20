CONSTANTS
    p1 = p1
    p2 = p2
    c1 = c1
    c2 = c2
    NoPrio = NoPrio
    NoLedger = NoLedger
    Peers <- TwoPeers
    PeerOrder <- TwoPeerOrder
    Cids <- OneCid
    Prios = {1}
    MaxConns = 1
    MaxEvents = 2
    MaxChan = 1
    MaxInflight = 1
    RxMessages <- MCRxMessages
SPECIFICATION FairSpec
PROPERTY QueuedBlockSent
