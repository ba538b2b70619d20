CONSTANTS
    a = a
    b = b
    c = c
    NoKey = NoKey
    Empty = Empty
    Cids <- MCCids
    Desc <- MCDesc
    CidOrder <- MCCidOrder
SPECIFICATION Spec
INVARIANTS
    TypeOK
    AtMostOneMode
    QueryIndirectSound
PROPERTIES
    InsertsNeverUnpin
    PinModesSpec
