SPECIFICATION Spec
CONSTANTS
  a1 = a1
  a2 = a2
  m1 = m1
  m2 = m2
  m3 = m3
  Apps <- TwoApps
  Recv = Recv
  Pend = Pend
  Nobody = Nobody
  Msgs <- TwoMsgs
  NoMsg = NoMsg
  Raw <- Second
  Sync <- First
  MaxId = 2
  ReplyCalls = {}
  TimeoutCalls = {}
  BadReplies = FALSE
  DeflateFails = TRUE
PROPERTIES
  DeflateFailureSends
