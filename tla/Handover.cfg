SPECIFICATION HoFairSpec
CONSTANTS
    PLMN_ID = 11
    GUMMEI = 1111
    MSISDN_BASE = 90
    MSISDN_RANGE = 100
    IMSI_RANGE = 10000
    TEID_RANGE = 3
    HO_KEY_RANGE = 1000
    UE = {1, 2}
    UpfThread = {t1, t2}
    AmfPorts = {7300, 7000}
    UpfPort = 7000
    MaxFault = 1
INVARIANT
    TunnelsKept
PROPERTIES
    MakeBeforeBreak
    HandoverEnds
CHECK_DEADLOCK FALSE
