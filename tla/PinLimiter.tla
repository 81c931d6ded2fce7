----------------------------- MODULE PinLimiter -----------------------------
(***************************************************************************)
(* The per-address limiter of failed PIN and pairing attempts:             *)
(* PIN_RATE_LIMITER, is_pin_rate_limited and record_pin_attempt of main.rs.*)
(*                                                                         *)
(* An entry is what the map holds for an address.  Every entry of the map  *)
(* has counted at least one failure, so an address with failed = 0 is one  *)
(* that is not in the map.  The operators take the current time as an      *)
(* argument; PinLimiterThreads runs them in the threads of the daemon and  *)
(* Pairing uses them inside the pairing handler.                           *)
(***************************************************************************)
EXTENDS Integers, FiniteSets

CONSTANTS
  PinMaxFailures,   \* 5
  PinWindow,        \* 60 s: failures further apart start a new count
  PinBlock,         \* 60 s
  MapLimit,         \* 1000 entries, above which old ones are purged
  PurgeAge          \* 300 s

ASSUME PinLimiterAssumption ==
  /\ PinMaxFailures \in Nat \ {0}
  /\ PinWindow \in Nat
  /\ PinBlock \in Nat \ {0}
  /\ MapLimit \in Nat
  /\ PurgeAge \in Nat

\* blocked_until: None.  A block that is over stays Some(past).
NeverBlocked == -1

NoEntry == [failed |-> 0, start |-> 0, until |-> NeverBlocked]

InMap(e) == e.failed > 0

\* is_pin_rate_limited
IsLimited(e, t) == t < e.until

\* The count starts again only while the address has never been blocked.
Restarts(e, t) ==
  \/ ~InMap(e)
  \/ e.until = NeverBlocked /\ t - e.start > PinWindow

\* Mutants of AfterFailure: the failure after the last tolerated one builds
\* the entry anew, or a block is added to the one that is running.
BlockForgotten(e, t) ==
  LET n == IF Restarts(e, t) THEN 1 ELSE e.failed + 1
  IN  [failed |-> n,
       start  |-> IF Restarts(e, t) THEN t ELSE e.start,
       until  |-> IF n = PinMaxFailures THEN t + PinBlock ELSE NeverBlocked]
BlockAdded(e, t) ==
  LET n == IF Restarts(e, t) THEN 1 ELSE e.failed + 1
  IN  [failed |-> n,
       start  |-> IF Restarts(e, t) THEN t ELSE e.start,
       until  |-> IF n >= PinMaxFailures
                  THEN (IF IsLimited(e, t) THEN e.until ELSE t) + PinBlock
                  ELSE e.until]

\* record_pin_attempt(ip, false) on the entry of ip.
AfterFailure(e, t) ==
  LET n == IF Restarts(e, t) THEN 1 ELSE e.failed + 1
  IN  [failed |-> n,
       start  |-> IF Restarts(e, t) THEN t ELSE e.start,
       until  |-> IF n >= PinMaxFailures THEN t + PinBlock ELSE e.until]

\* map.retain(...), run first and only when the map is over its limit.
Purged(m, t) ==
  IF Cardinality({ip \in DOMAIN m : InMap(m[ip])}) > MapLimit
  THEN [ip \in DOMAIN m |-> IF t - m[ip].start < PurgeAge THEN m[ip] ELSE NoEntry]
  ELSE m

\* record_pin_attempt on the whole map m.
Recorded(m, ip, success, t) ==
  LET kept == Purged(m, t)
  IN  [kept EXCEPT ![ip] = IF success THEN NoEntry ELSE AfterFailure(@, t)]
=============================================================================
