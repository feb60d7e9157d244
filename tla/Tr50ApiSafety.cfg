SPECIFICATION Spec
CONSTANTS
  a1 = a1
  a2 = a2
  m1 = m1
  m2 = m2
  m3 = m3
  Apps <- TwoApps
  Recv = Recv
  Pend = Pend
  Nobody = Nobody
  Msgs <- ThreeMsgs
  NoMsg = NoMsg
  Raw <- Second
  Sync <- First
  MaxId = 2
  ReplyCalls <- Second
  TimeoutCalls <- Third
  BadReplies = TRUE
  DeflateFails = FALSE
INVARIANTS
  TypeOK
  CompletedOnce
  HeldOnce
  RefusedIsCallers
  CursorLive
  EventAlive
  SendOnLive
PROPERTY
  ImplementsRequests
CHECK_DEADLOCK FALSE
