SPECIFICATION DiscoverySpec
CONSTANTS
  friend = friend
  Sender = {friend}
  Paired = {friend}
  Trusted = {}
  Local = {}
  Open = {}
  Nothing = Nothing
  MaxAge = 1
  EveryoneTime = 1
INVARIANTS
  Fresh
PROPERTIES
  Found
  Gone
