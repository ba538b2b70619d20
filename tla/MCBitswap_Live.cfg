CONSTANTS
    p1 = p1
    p2 = p2
    c1 = c1
    c2 = c2
    NoPrio = NoPrio
    NoLedger = NoLedger
    Peers <- OnePeer
    PeerOrder <- OnePeerOrder
    Cids <- OneCid
    Prios = {1}
    MaxConns = 2
    MaxEvents = 2
    MaxChan = 1
    MaxInflight = 2
    RxMessages <- MCRxMessages
SPECIFICATION FairSpec
INVARIANTS
    TypeOK
    LedgerWantsWanted
PROPERTY
    QueuedBlocksKept
    QueuedBlockSent
