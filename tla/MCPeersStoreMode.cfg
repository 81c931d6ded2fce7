SPECIFICATION Spec
CHECK_DEADLOCK FALSE
CONSTANTS
  q1 = q1  q2 = q2
  Peer = {q1, q2}
  Free = Free
  OldToken = 9
  OldIp = a1
  Addr = {a1}
  Loopback = Loopback
  NoAddr = NoAddr
  NoCode = NoCode
  PairCodeMaxFailures = 1
  PairCodeTtl = 0
  Proc = {1}
  Times = {0}
  Code = {c1}
  ModeChanges = TRUE
PROPERTIES
  ExistingUnchanged
