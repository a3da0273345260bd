SPECIFICATION LbSpec
CONSTANTS
    Target = {a, b}
    Request = {r1, r2}
    Lists <- OneList
    MaxFloat = 3
    MaxSvc = 3
    MaxChanges = 1
    MaxResets = 1
SYMMETRY RequestSymmetry
INVARIANTS
    NoLoopLeaked
    ClosedOnce
    OneService
CHECK_DEADLOCK FALSE
