SPECIFICATION FairSpec
CONSTANTS
  u1 = u1
  u2 = u2
  c1 = c1
  c2 = c2
  c3 = c3
  Users <- OneUser
  Handler = Handler
  Nobody = Nobody
  NoCall = NoCall
  Calls <- TwoCalls
  Free = Free
  QosSize = 1
  IdSpace = 2
  Refused = {}
  Keepalive = TRUE
  AllocFails = TRUE
PROPERTIES
  DisconnectReturns
  SilenceIsNoticed
CHECK_DEADLOCK FALSE
