CONSTANTS
    Deposits = {d1, d2}
    SwapChannels = {s}
    AccountChannels = {a}
    Workers = {w1, w2}
    None = None
SPECIFICATION Spec
CHECK_DEADLOCK FALSE
INVARIANTS TypeOK  RejectionsAreTraceable
PROPERTY SignatureFound
