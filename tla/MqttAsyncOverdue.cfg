SPECIFICATION FairSpec
CONSTANTS
  u1 = u1
  u2 = u2
  c1 = c1
  c2 = c2
  c3 = c3
  Users <- OneUser
  Handler = Handler
  Nobody = Nobody
  NoCall = NoCall
  Calls <- TwoCalls
  Free = Free
  QosSize = 2
  IdSpace = 3
  Refused = {}
  Keepalive = FALSE
  AllocFails = FALSE
PROPERTIES
  OverdueIsNoticed
CHECK_DEADLOCK FALSE
