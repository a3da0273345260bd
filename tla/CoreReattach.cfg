SPECIFICATION Spec
CONSTANTS
    PLMN_ID = 11
    GUMMEI = 1111
    MSISDN_BASE = 90
    MSISDN_RANGE = 100
    IMSI_RANGE = 10000
    TEID_RANGE = 10
    RanNum = {0, 1}
    MaxRuns = 1
    NWorkers = 2
    MaxUeCount = 4
    MaxCalls = 6
    MaxAttach = 2
    MaxRpcFail = 0
    UpfThread = {t1}
    MaxLoss = 0
    MaxLate = 0
INVARIANTS
    TypeOK
    NoExit
    AnswersInStep
    NothingLeft
    CreatedMeansStored
PROPERTIES
    OwnSessionOnly
CHECK_DEADLOCK FALSE
