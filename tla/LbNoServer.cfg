SPECIFICATION LbSpec
CONSTANTS
    Target = {a}
    Request = {r1}
    Lists <- OneList
    MaxFloat = 3
    MaxSvc = 1
    MaxChanges = 0
    MaxResets = 0
INVARIANTS
    NoServerAnswered
CHECK_DEADLOCK FALSE
