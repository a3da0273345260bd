SPECIFICATION FairSpec
CONSTANTS
    PLMN_ID = 11
    GUMMEI = 1111
    MSISDN_BASE = 90
    MSISDN_RANGE = 100
    IMSI_RANGE = 10000
    TEID_RANGE = 10
    RanNum = {0, 1}
    MaxRuns = 1
    NWorkers = 2
    MaxUeCount = 2
    MaxCalls = 3
    MaxAttach = 1
    MaxRpcFail = 0
    UpfThread = {t1, t2}
    MaxLoss = 0
    MaxLate = 0
INVARIANTS
    SessionAgreed
    DownlinkForwarded
PROPERTIES
    AttachCompletes
    DetachCompletes
CHECK_DEADLOCK FALSE
