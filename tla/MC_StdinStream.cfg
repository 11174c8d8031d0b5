SPECIFICATION FairRun
CONSTANTS
    Conns = {c1, c2}
    NoConn = NoConn
    MaxPos = 2
    MaxLen = 2
    MaxGen = 3
INVARIANTS
    TypeOK
    InOrderOnce
    EofExact
    ReceiptsCovered
    Occupied
PROPERTIES
    FencedStream
    ImplementsPipe
    TakeoverPasses
ACTION_CONSTRAINT Small
