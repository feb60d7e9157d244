SPECIFICATION FairSpec
CONSTANTS
  u1 = u1
  x1 = x1
  x2 = x2
  Users <- OneUser
  Recv = Recv
  Pend = Pend
  Mail <- TwoMail
  NoMail = NoMail
  ExecCommand = FALSE
INVARIANTS
  OneCheck
  OneAnswer
  NoMailForgotten
PROPERTIES
  CheckEnds
