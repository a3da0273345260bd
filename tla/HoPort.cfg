SPECIFICATION HoSpec
CONSTANTS
    PLMN_ID = 11
    GUMMEI = 1111
    MSISDN_BASE = 90
    MSISDN_RANGE = 100
    IMSI_RANGE = 10000
    TEID_RANGE = 10
    HO_KEY_RANGE = 1000
    UE = {1}
    UpfThread = {t1}
    AmfPorts = {7300}
    UpfPort = 7000
    MaxFault = 0
INVARIANT
    CompletedIsSwitched
CHECK_DEADLOCK FALSE
