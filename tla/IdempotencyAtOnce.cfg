\* Requests with one key that arrive at the same time.
CONSTANTS
    Requests = {q1, q2, q3}
    Readers = {r1, r2}
    Writers = {w1}
    MaxVersion = 3
    Tabs = {t1, t2}
    Fetches = {f1, f2}
    MaxPairs = 3
    MaxReceipts = 2
SPECIFICATION ServicesSpec
CHECK_DEADLOCK FALSE
INVARIANTS
    ExecutedOnceAtOnce
