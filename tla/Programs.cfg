SPECIFICATION ProgramsSpec
CONSTANTS
  g_threads_count = 3
  g_req_dur = 1
  nstars = 1
  MaxTime = 3
  MaxRegs = 1
  Ues = {1, 2, 3}
  Modulus = 3
  MaxCount = 7
  BUF_SIZE = 1024
  StrLen = 15
  RanIds = {1, 2}
  Calls = {c1, c2}
  Slots = {1, 2, 3, 4}
  Threads = {t1, t2}
  NoCall = NoCall
  Faults = TRUE
  Clients = {c1, c2, c3}
  Times = {1, 2}
  ServerTimes = {2}
  MaxRounds = 1
INVARIANTS IdLeadsHome PacketsAgree ObjectsOwned CountsOnce
PROPERTIES CountsAtOnce ResultsFinal
CHECK_DEADLOCK FALSE
