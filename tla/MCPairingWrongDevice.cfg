SPECIFICATION Spec
CONSTANTS
  d1 = d1  d2 = d2  d3 = d3
  a1 = a1  a2 = a2  a3 = a3
  Device = {d1, d2, d3}
  Addr = {a1, a2, a3, a4}
  Loopback = Loopback
  NoAddr = NoAddr
  Code = {c1}
  NoCode = NoCode
  Exchange = {x1}
  PairAt <- OfferTwo
  CompleteAt <- OneCompletes
  HintGiven = {NoAddr, a2}
  InitAddr <- ThreeAddresses
  Mobile = {d2}
  PairCodeTtl = 0
  PairCodeMaxFailures = 1
  PinMaxFailures = 1
  PinWindow = 1
  PinBlock = 1
  MapLimit = 10
  PurgeAge = 5
  MaxIssues = 2
  MaxTime = 0
INVARIANTS
  SourceBound
  ConsentBacked
PROPERTIES
  KeyedByLocalUser
