SPECIFICATION Spec
CONSTANTS
    Workers = {w}
    Synch = {s}
    Singles = {save}
    Transactions = {trade, mail}
    Directs = {create}
    Size = 2
    Retries = 5
    MaxFaults = 2
    NoOp = NoOp
INVARIANT DeadlockRetried
