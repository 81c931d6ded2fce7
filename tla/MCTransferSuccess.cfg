SPECIFICATION Spec
SYMMETRY Interchangeable
CHECK_DEADLOCK FALSE
CONSTANTS
  s1 = s1  s2 = s2
  Sender = {s1, s2}
  Confirmed = {s1, s2}
  File = {f1}
  Decider = {}
  TransferTtl = 1
  Visibilities = {"KNOWN"}
  MaxTime = 0
  MaxFaults = 0
INVARIANTS
  SuccessMeansAccepted
