SPECIFICATION Spec
CONSTANTS
  u1 = u1
  u2 = u2
  c1 = c1
  c2 = c2
  c3 = c3
  Users <- TwoUsers
  Handler = Handler
  Nobody = Nobody
  NoCall = NoCall
  Calls <- ThreeCalls
  Free = Free
  QosSize = 2
  IdSpace = 3
  Refused <- Third
  Keepalive = FALSE
  AllocFails = FALSE
INVARIANTS
  AsyncTypeOK
  CalledOnce
  AckedByServer
  SendsOnConnection
  NothingLost
PROPERTIES
  DeletingStays
  ClearedAll
CHECK_DEADLOCK FALSE
