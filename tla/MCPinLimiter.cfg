SPECIFICATION Spec
CONSTANTS
  Thread = {th1, th2}
  Ip = {ip1, ip2}
  PinMaxFailures = 2
  PinWindow = 1
  PinBlock = 2
  MapLimit = 1
  PurgeAge = 2
INVARIANTS
  TypeOK
  LateFailuresBounded
PROPERTIES
  BlockKept
  BlockEnds
