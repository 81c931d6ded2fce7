SPECIFICATION Spec
CHECK_DEADLOCK FALSE
CONSTANTS
  s1 = s1  s2 = s2
  Sender = {s1, s2}
  Confirmed = {s1}
  File = {f1, f2}
  Decider = {c1}
  TransferTtl = 1
  Visibilities = {"OFF", "KNOWN"}
  MaxTime = 2
  MaxFaults = 1
INVARIANTS
  TypeOK
  UsableInTime
  UndisturbedUploads
PROPERTIES
  EverySendEnds
