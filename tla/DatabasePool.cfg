SPECIFICATION Spec
CONSTANTS
    Workers = {w}
    Synch = {s}
    Singles = {save}
    Transactions = {trade, mail}
    Directs = {create}
    Size = 2
    Retries = 5
    MaxFaults = 2
    NoOp = NoOp
INVARIANTS
    TypeOK
    AtomicUnlessTorn
    OutcomeHonest
    AtMostOnce
    InOrder
PROPERTY
    EveryOperationEnds
