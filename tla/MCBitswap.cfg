CONSTANTS
    p1 = p1
    p2 = p2
    c1 = c1
    c2 = c2
    NoPrio = NoPrio
    NoLedger = NoLedger
    Peers <- TwoPeers
    PeerOrder <- TwoPeerOrder
    Cids <- OneCid
    Prios = {1}
    MaxConns = 1
    MaxEvents = 1
    MaxChan = 0
    MaxInflight = 1
    RxMessages <- MCRxMessages
SPECIFICATION Spec
INVARIANTS
    TypeOK
    LedgerWantsWanted
