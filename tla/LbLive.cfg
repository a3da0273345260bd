SPECIFICATION LbFairSpec
CONSTANTS
    Target = {a}
    Request = {r1, r2}
    Lists <- SomeLists
    MaxFloat = 3
    MaxSvc = 2
    MaxChanges = 2
    MaxResets = 0
INVARIANT
    BalanceLeast
PROPERTIES
    RequestsAnswered
    CacheConverges
CHECK_DEADLOCK FALSE
