SPECIFICATION Spec
CHECK_DEADLOCK FALSE
CONSTANTS
  q1 = q1  q2 = q2
  Peer = {q1, q2}
  Free = Free
  OldToken = 9
  OldIp = a1
  Addr = {a1}
  Loopback = Loopback
  NoAddr = NoAddr
  NoCode = NoCode
  PairCodeMaxFailures = 1
  PairCodeTtl = 0
  Proc = {1, 2}
  Times = {0, 1}
  Code = {c1, c2}
  ModeChanges = TRUE
INVARIANTS
  TypeOK
  Serialized
PROPERTIES
  SavesAreOperations
  ConfirmedByCall
  EveryCallEnds
