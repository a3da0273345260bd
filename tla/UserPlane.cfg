SPECIFICATION UserPlaneSpec
CONSTANTS
  Packets = {1, 2}
  size <- MCSize
  MaxSize = 3
  IntSize = 2
  MaxSend = 3
  MaxEperm = 1
  UE = {1, 2}
  N4Thread = {n1, n2}
  MaxSession = 2
  MaxPkt = 1
  MaxLoss = 1
  AmfThreads = 1
  AusfThreads = 1
  SmfThreads = 1
  LastPort = 65535
  MaxCrash = 1
  MaxOutage = 1
  MysqlUp = TRUE
  MAX_UE_COUNT = 120
  FirstHost = 3
  LastHost = 9
  LastSubnet = 20
INVARIANTS OwnTunnel NoGhostContext StartsSafely AddressesDiffer
PROPERTIES ImplementsChannel AnswerArrives CoreComesUp
CHECK_DEADLOCK FALSE
