SPECIFICATION Spec
CONSTANTS
    PLMN_ID = 11
    GUMMEI = 1111
    MSISDN_BASE = 90
    MSISDN_RANGE = 100
    IMSI_RANGE = 10000
    TEID_RANGE = 10
    RanNum = {1}
    MaxRuns = 2
    NWorkers = 2
    MaxUeCount = 2
    MaxCalls = 3
    MaxAttach = 1
    MaxRpcFail = 1
    UpfThread = {t1, t2}
    MaxLoss = 1
    MaxLate = 0
SYMMETRY ThreadSymmetry
INVARIANTS
    NoAmfExit
    IdsResolve
CHECK_DEADLOCK FALSE
