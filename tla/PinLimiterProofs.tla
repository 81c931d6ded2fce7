-------------------------- MODULE PinLimiterProofs --------------------------
(***************************************************************************)
(* Theorems about PinLimiterThreads, for any threads, addresses and limits.*)
(*                                                                         *)
(* LateFailuresBounded is not inductive: a failure that is reported late   *)
(* must be paid for by a thread that was let in before the block.  Budget  *)
(* counts those threads with the failures they have already reported; the  *)
(* thread whose failure blocked the address is none of them any more.      *)
(***************************************************************************)
EXTENDS PinLimiterThreads, FiniteSetTheorems, TLAPS

\* Let in, and still to report for ip.
LetIn(ip) == {th \in Thread : pc[th] \in {"pin", "code"} /\ req[th].ip = ip}

\* A count that reached the limit has a time until which it blocked, and no
\* other has.
Consistent(e) == e.until # NeverBlocked <=> e.failed = PinMaxFailures

CountedOut == \A ip \in Ip : Consistent(limiter[ip])

Budget ==
  \A ip \in Ip :
    /\ late[ip] <= Cardinality(Thread) - 1
    /\ Blocked(ip) => late[ip] + Cardinality(LetIn(ip)) <= Cardinality(Thread) - 1

IInv == TypeOK /\ CountedOut /\ Budget

----------------------------------------------------------------------------
(* What the limiter's operators return.                                    *)

LEMMA OldestNegative == Oldest \in Int /\ Oldest < 0
  BY PinLimiterAssumption DEF Oldest

LEMMA NoEntryType == NoEntry \in Entry /\ Consistent(NoEntry)
  BY OldestNegative, PinLimiterAssumption DEF NoEntry, Entry, Consistent, NeverBlocked

\* The count as it is kept.
Kept(e) == [e EXCEPT !.failed = IF @ > PinMaxFailures THEN PinMaxFailures ELSE @]

LEMMA FailureType ==
  ASSUME NEW e \in Entry, Consistent(e)
  PROVE  /\ Kept(AfterFailure(e, 0)) \in Entry
         /\ Consistent(Kept(AfterFailure(e, 0)))
         /\ IsLimited(e, 0) => IsLimited(Kept(AfterFailure(e, 0)), 0)
<1> DEFINE f == AfterFailure(e, 0)
           n == IF Restarts(e, 0) THEN 1 ELSE e.failed + 1
<1>1. /\ e.failed \in 0 .. PinMaxFailures /\ e.start \in Oldest .. 0
      /\ e.until \in -1 .. PinBlock
  BY DEF Entry, NeverBlocked
<1>2. n \in 1 .. PinMaxFailures + 1
  BY <1>1, PinLimiterAssumption
<1>3. /\ f = [failed |-> n, start |-> IF Restarts(e, 0) THEN 0 ELSE e.start,
              until |-> IF n >= PinMaxFailures THEN PinBlock ELSE e.until]
  BY <1>1, PinLimiterAssumption DEF AfterFailure
<1>4. IF Restarts(e, 0) THEN e.until = -1 ELSE e.until # -1 => n = PinMaxFailures + 1
  <2>1. CASE InMap(e)
    BY <2>1, <1>1, PinLimiterAssumption DEF Restarts, Consistent, NeverBlocked
  <2>2. CASE ~InMap(e)
    BY <2>2, <1>1, PinLimiterAssumption DEF Restarts, Consistent, NeverBlocked, InMap
  <2> QED BY <2>1, <2>2
<1>5. Kept(f) = [failed |-> IF n > PinMaxFailures THEN PinMaxFailures ELSE n,
                 start |-> f.start, until |-> f.until]
  BY <1>3 DEF Kept
<1> HIDE DEF f, n
<1>6. f.start \in Oldest .. 0
  BY <1>1, <1>3, OldestNegative
<1>7. f.until \in -1 .. PinBlock
  BY <1>1, <1>3, PinLimiterAssumption
<1>8. Kept(f) \in Entry
  BY <1>2, <1>5, <1>6, <1>7, PinLimiterAssumption DEF Entry, NeverBlocked
<1>9. f.until # -1 <=> n >= PinMaxFailures
  BY <1>1, <1>2, <1>3, <1>4, PinLimiterAssumption
<1>10. Kept(f).failed = PinMaxFailures <=> n >= PinMaxFailures
  BY <1>2, <1>5, PinLimiterAssumption
<1>11. Consistent(Kept(f))
  BY <1>5, <1>9, <1>10 DEF Consistent, NeverBlocked
<1>12. IsLimited(e, 0) => IsLimited(Kept(f), 0)
  BY <1>1, <1>3, <1>5, PinLimiterAssumption DEF IsLimited
<1> QED BY <1>8, <1>11, <1>12 DEF f

LEMMA AgedType ==
  ASSUME NEW e \in Entry, Consistent(e)
  PROVE  /\ Aged(e) \in Entry
         /\ Consistent(Aged(e))
         /\ IsLimited(Aged(e), 0) => IsLimited(e, 0) /\ Aged(e).until > 0
<1>1. /\ e.failed \in 0 .. PinMaxFailures /\ e.start \in Oldest .. 0
      /\ e.until \in -1 .. PinBlock
  BY DEF Entry, NeverBlocked
<1>2. CASE ~InMap(e)
  BY <1>1, <1>2, PinLimiterAssumption DEF Aged, IsLimited
<1>3. CASE InMap(e)
  <2>1. Aged(e) = [failed |-> e.failed,
                   start |-> IF e.start > Oldest THEN e.start - 1 ELSE e.start,
                   until |-> IF e.until > 0 THEN e.until - 1 ELSE e.until]
    BY <1>3 DEF Aged, Entry
  <2>2. Aged(e) \in Entry
    BY <1>1, <2>1, OldestNegative, PinLimiterAssumption DEF Entry, NeverBlocked
  <2>3. Consistent(Aged(e))
    BY <1>1, <2>1 DEF Consistent, NeverBlocked
  <2> QED BY <1>1, <2>1, <2>2, <2>3, PinLimiterAssumption DEF IsLimited
<1> QED BY <1>2, <1>3

\* What a report leaves: of other addresses an entry is kept or purged, of
\* its own it is removed or counts one more.
LEMMA Reporting ==
  ASSUME TypeOK, CountedOut, NEW ip \in Ip, NEW ok \in BOOLEAN, Report(ip, ok)
  PROVE  /\ limiter' \in [Ip -> Entry]
         /\ CountedOut'
         /\ \A a \in Ip \ {ip} : limiter'[a] \in {limiter[a], NoEntry}
<1> DEFINE m == Purged(limiter, 0)
<1>1. m \in [Ip -> Entry] /\ \A a \in Ip : m[a] \in {limiter[a], NoEntry}
  BY NoEntryType DEF TypeOK, Purged
<1>2. \A a \in Ip : Consistent(m[a])
  BY <1>1, NoEntryType DEF CountedOut
<1> HIDE DEF m
<1>3. Recorded(limiter, ip, ok, 0) =
        [m EXCEPT ![ip] = IF ok THEN NoEntry ELSE AfterFailure(@, 0)]
  BY DEF Recorded, m
<1>4. limiter' = [m EXCEPT ![ip] = Kept(IF ok THEN NoEntry ELSE AfterFailure(@, 0))]
  BY <1>1, <1>3 DEF Report, Kept
<1>5. Kept(NoEntry) = NoEntry
  BY PinLimiterAssumption DEF Kept, NoEntry
<1>6. limiter'[ip] = IF ok THEN NoEntry ELSE Kept(AfterFailure(m[ip], 0))
  BY <1>1, <1>4, <1>5
<1>7. \A a \in Ip \ {ip} : limiter'[a] = m[a]
  BY <1>1, <1>4
<1>8. limiter'[ip] \in Entry /\ Consistent(limiter'[ip])
  <2>1. CASE ok
    BY <1>6, <2>1, NoEntryType
  <2>2. CASE ~ok
    BY <1>1, <1>2, <1>6, <2>2, FailureType
  <2> QED BY <2>1, <2>2
<1>9. limiter' \in [Ip -> Entry]
  BY <1>1, <1>4, <1>6, <1>8
<1>10. CountedOut'
  BY <1>2, <1>7, <1>8 DEF CountedOut, Consistent
<1> QED BY <1>1, <1>7, <1>9, <1>10

----------------------------------------------------------------------------
(* The threads that may still report.                                      *)

LEMMA LetInFinite ==
  ASSUME NEW ip
  PROVE  IsFiniteSet(LetIn(ip)) /\ Cardinality(LetIn(ip)) \in Nat
<1>1. LetIn(ip) \subseteq Thread
  BY DEF LetIn
<1> QED BY <1>1, PinLimiterThreadsAssumption, FS_Subset, FS_CardinalityType

LEMMA ThreadCount == Cardinality(Thread) \in Nat \ {0}
  BY PinLimiterThreadsAssumption, FS_CardinalityType, FS_EmptySet

LEMMA LetInShrinks ==
  ASSUME NEW ip, LetIn(ip)' \subseteq LetIn(ip)
  PROVE  Cardinality(LetIn(ip)') \in Nat /\ Cardinality(LetIn(ip)') <= Cardinality(LetIn(ip))
  BY LetInFinite, FS_Subset, FS_CardinalityType

\* Where a thread goes, and that it takes nobody else along.
LEMMA Going ==
  ASSUME TypeOK, NEW th \in Thread, NEW label, Goto(th, label)
  PROVE  /\ pc'[th] = label
         /\ req'[th] = IF label = "idle" THEN NoRequest ELSE req[th]
         /\ \A o \in Thread \ {th} : pc'[o] = pc[o] /\ req'[o] = req[o]
  BY DEF TypeOK, Goto

\* A thread that reports is not among them any more.
LEMMA Reported ==
  ASSUME TypeOK, NEW th \in Thread, ReportPin(th) \/ ReportCode(th)
  PROVE  /\ req[th] \in Requests /\ req[th].ip \in Ip
         /\ pc'[th] \notin {"pin", "code"}
         /\ th \in LetIn(req[th].ip)
         /\ \A a \in Ip : LetIn(a)' = LetIn(a) \ {th}
<1>1. pc[th] \in {"pin", "code"} /\ req[th] \in Requests
  BY DEF TypeOK, ReportPin, ReportCode
<1>2. \E label \in {"idle", "checkCode"} : Goto(th, label)
  BY DEF ReportPin, ReportCode, AfterPin
<1>3. /\ pc'[th] \in {"idle", "checkCode"}
      /\ \A o \in Thread \ {th} : pc'[o] = pc[o] /\ req'[o] = req[o]
  BY <1>2, Going
<1> QED BY <1>1, <1>3 DEF LetIn, Requests

----------------------------------------------------------------------------
(* Every step keeps the invariant.                                         *)

LEMMA InitInv == Init => IInv
<1> SUFFICES ASSUME Init PROVE IInv
  OBVIOUS
<1>1. TypeOK
  BY NoEntryType DEF Init, TypeOK
<1>2. CountedOut
  BY NoEntryType DEF Init, CountedOut
<1>3. Budget
  BY ThreadCount DEF Init, Budget, Blocked, IsLimited, NoEntry, NeverBlocked
<1> QED BY <1>1, <1>2, <1>3 DEF IInv

LEMMA ArriveInv ==
  ASSUME IInv, NEW th \in Thread, Arrive(th)
  PROVE  IInv'
<1> USE DEF IInv
<1>1. TypeOK'
  BY DEF TypeOK, Arrive
<1>2. CountedOut'
  BY DEF CountedOut, Consistent, Arrive
<1>3. \A a : LetIn(a)' = LetIn(a)
  BY DEF LetIn, TypeOK, Arrive
<1>4. Budget'
  BY <1>3 DEF Budget, Blocked, Arrive
<1> QED BY <1>1, <1>2, <1>4

\* A refused request reports nothing; one that is let in is let in to an
\* address that is not blocked.
LEMMA CheckInv ==
  ASSUME IInv, NEW th \in Thread, Refuse(th) \/ Admit(th)
  PROVE  IInv'
<1> USE DEF IInv
<1>0. PICK label \in {"idle", "pin", "code", "checkCode"} : Goto(th, label)
  BY DEF Refuse, Admit, AfterPin
<1>1. req[th] \in Requests /\ limiter' = limiter /\ late' = late
  BY DEF TypeOK, Refuse, Admit
<1>2. /\ pc'[th] = label
      /\ req'[th] = IF label = "idle" THEN NoRequest ELSE req[th]
      /\ \A o \in Thread \ {th} : pc'[o] = pc[o] /\ req'[o] = req[o]
  BY <1>0, Going
<1>3. TypeOK'
  BY <1>0, <1>1, <1>2 DEF TypeOK, Goto
<1>4. CountedOut'
  BY <1>1 DEF CountedOut, Consistent
<1>5. \A a \in Ip : Blocked(a) => LetIn(a)' \subseteq LetIn(a)
  <2> SUFFICES ASSUME NEW a \in Ip, Blocked(a) PROVE LetIn(a)' \subseteq LetIn(a)
    OBVIOUS
  <2>1. CASE Refuse(th)
    <3>1. pc'[th] = "idle"
      BY <2>1, Going DEF Refuse
    <3> QED BY <1>2, <3>1 DEF LetIn
  <2>2. CASE Admit(th)
    <3>1. req[th].ip # a
      BY <2>2 DEF Admit
    <3>2. pc'[th] \in {"pin", "code"} => req'[th].ip # a
      BY <1>2, <3>1
    <3> QED BY <1>2, <3>2 DEF LetIn
  <2> QED BY <2>1, <2>2
<1>6. Budget'
  <2> SUFFICES ASSUME NEW a \in Ip
               PROVE  /\ late'[a] <= Cardinality(Thread) - 1
                      /\ Blocked(a)' =>
                           late'[a] + Cardinality(LetIn(a)') <= Cardinality(Thread) - 1
    BY DEF Budget
  <2>1. late[a] \in Nat /\ Cardinality(LetIn(a)) \in Nat /\ Cardinality(Thread) \in Nat
    BY LetInFinite, ThreadCount DEF TypeOK
  <2>2. Blocked(a)' <=> Blocked(a)
    BY <1>1 DEF Blocked
  <2>3. Blocked(a) => /\ Cardinality(LetIn(a)') \in Nat
                      /\ Cardinality(LetIn(a)') <= Cardinality(LetIn(a))
    BY <1>5, LetInShrinks
  <2> QED BY <1>1, <2>1, <2>2, <2>3 DEF Budget
<1> QED BY <1>3, <1>4, <1>6

LEMMA ReportInv ==
  ASSUME IInv, NEW th \in Thread, ReportPin(th) \/ ReportCode(th)
  PROVE  IInv'
<1> USE DEF IInv
<1> DEFINE ip == req[th].ip
           ok == IF pc[th] = "pin" THEN req[th].pin = "right" ELSE req[th].code = "right"
<1>1. ip \in Ip /\ \A a \in Ip : LetIn(a)' = LetIn(a) \ {th}
  BY Reported
<1>2. Report(ip, ok) /\ ok \in BOOLEAN
  BY DEF ReportPin, ReportCode
<1>3. th \in LetIn(ip)
  BY Reported
<1> HIDE DEF ip, ok
<1>4. /\ limiter' \in [Ip -> Entry] /\ CountedOut'
      /\ \A a \in Ip \ {ip} : limiter'[a] \in {limiter[a], NoEntry}
  BY <1>1, <1>2, Reporting
<1>5. late' = [late EXCEPT ![ip] = IF ~ok /\ Blocked(ip) THEN @ + 1 ELSE 0]
  BY <1>2 DEF Report
<1>6. TypeOK'
  <2>1. \E label \in {"idle", "checkCode"} : Goto(th, label)
    BY DEF ReportPin, ReportCode, AfterPin
  <2>2. late' \in [Ip -> Nat]
    <3>1. \A a \in Ip : late[a] \in Nat /\ late[a] + 1 \in Nat
      BY DEF TypeOK
    <3>2. \A a \in Ip : late'[a] \in {late[a] + 1, late[a], 0}
      BY <1>5 DEF TypeOK
    <3> QED BY <1>5, <3>1, <3>2 DEF TypeOK
  <2>3. req[th] \in Requests
    BY Reported
  <2> QED BY <1>4, <2>1, <2>2, <2>3 DEF TypeOK, Goto
<1>7. Budget'
  <2> SUFFICES ASSUME NEW a \in Ip
               PROVE  /\ late'[a] <= Cardinality(Thread) - 1
                      /\ Blocked(a)' =>
                           late'[a] + Cardinality(LetIn(a)') <= Cardinality(Thread) - 1
    BY DEF Budget
  <2>1. late[a] \in Nat /\ Cardinality(LetIn(a)) \in Nat /\ Cardinality(Thread) \in Nat \ {0}
    BY LetInFinite, ThreadCount DEF TypeOK
  <2>2. Cardinality(LetIn(a)') \in Nat /\ Cardinality(LetIn(a)') <= Cardinality(LetIn(a))
    BY <1>1, LetInShrinks
  <2>3. CASE a # ip
    <3>1. late'[a] = late[a]
      BY <1>5, <2>3 DEF TypeOK
    <3>2. Blocked(a)' => Blocked(a)
      BY <1>4, <2>3 DEF Blocked, IsLimited, NoEntry, NeverBlocked
    <3> QED BY <2>1, <2>2, <3>1, <3>2 DEF Budget
  <2>4. CASE a = ip /\ ~ok /\ Blocked(ip)
    <3>1. late'[a] = late[a] + 1
      BY <1>1, <1>5, <2>4 DEF TypeOK
    <3>2. Cardinality(LetIn(a)') = Cardinality(LetIn(a)) - 1
      BY <1>1, <1>3, <2>4, LetInFinite, FS_RemoveElement
    <3> QED BY <2>1, <2>2, <2>4, <3>1, <3>2 DEF Budget
  <2>5. CASE a = ip /\ ~(~ok /\ Blocked(ip))
    <3>1. late'[a] = 0
      BY <1>1, <1>5, <2>5 DEF TypeOK
    <3>2. Cardinality(LetIn(a) \ {th}) <= Cardinality(Thread) - 1
      <4>1. LetIn(a) \ {th} \subseteq Thread \ {th}
        BY DEF LetIn
      <4>2. /\ Cardinality(Thread \ {th}) = Cardinality(Thread) - 1
            /\ IsFiniteSet(Thread \ {th})
        BY PinLimiterThreadsAssumption, FS_RemoveElement
      <4> QED BY <4>1, <4>2, FS_Subset
    <3>3. Cardinality(LetIn(a)') <= Cardinality(Thread) - 1
      BY <1>1, <3>2
    <3> QED BY <2>1, <2>2, <3>1, <3>3
  <2> QED BY <2>3, <2>4, <2>5
<1> QED BY <1>4, <1>6, <1>7

LEMMA TickInv ==
  ASSUME IInv, Tick
  PROVE  IInv'
<1> USE DEF IInv
<1>1. \A a \in Ip : /\ limiter'[a] = Aged(limiter[a])
                    /\ limiter'[a] \in Entry /\ Consistent(limiter'[a])
                    /\ Blocked(a)' => Blocked(a)
                    /\ late'[a] \in {0, late[a]}
  BY AgedType DEF Tick, TypeOK, CountedOut, Blocked
<1>2. TypeOK'
  BY <1>1 DEF TypeOK, Tick
<1>3. CountedOut'
  BY <1>1 DEF CountedOut, Consistent
<1>4. \A a : LetIn(a)' = LetIn(a)
  BY DEF LetIn, Tick
<1>5. Budget'
  <2> SUFFICES ASSUME NEW a \in Ip
               PROVE  /\ late'[a] <= Cardinality(Thread) - 1
                      /\ Blocked(a)' =>
                           late'[a] + Cardinality(LetIn(a)') <= Cardinality(Thread) - 1
    BY DEF Budget
  <2>1. late[a] \in Nat /\ Cardinality(LetIn(a)) \in Nat /\ Cardinality(Thread) \in Nat \ {0}
    BY LetInFinite, ThreadCount DEF TypeOK
  <2> QED BY <1>1, <1>4, <2>1 DEF Budget
<1> QED BY <1>2, <1>3, <1>5

LEMMA StepInv == IInv /\ [Next]_vars => IInv'
<1> SUFFICES ASSUME IInv, [Next]_vars PROVE IInv'
  OBVIOUS
<1>1. CASE \E th \in Thread : Arrive(th)
  BY <1>1, ArriveInv
<1>2. CASE \E th \in Thread : Refuse(th) \/ Admit(th)
  BY <1>2, CheckInv
<1>3. CASE \E th \in Thread : ReportPin(th) \/ ReportCode(th)
  BY <1>3, ReportInv
<1>4. CASE Tick
  BY <1>4, TickInv
<1>5. CASE UNCHANGED vars
  BY <1>5 DEF vars, IInv, TypeOK, CountedOut, Consistent, Budget, LetIn, Blocked
<1> QED BY <1>1, <1>2, <1>3, <1>4, <1>5 DEF Next, Handle

LEMMA Invariant == Spec => []IInv
  BY InitInv, StepInv, PTL DEF Spec

\* Entries stay within the limits of their fields, and a thread past its
\* first check has a request.
THEOREM TypeCorrect == Spec => []TypeOK
  BY Invariant, PTL DEF IInv

\* However many threads pass the check of an address before the first of them
\* reports, all but one of them at most fail after the block began.
THEOREM LateGuessesAreBounded == Spec => []LateFailuresBounded
<1>1. IInv => LateFailuresBounded
  BY DEF IInv, Budget, LateFailuresBounded
<1> QED BY <1>1, Invariant, PTL

\* No report about another address, no late failure and no refused request
\* ends a block; only time, a success and the purge of old counts do.
THEOREM BlocksAreKept == Spec => BlockKept
<1> DEFINE Ends(ip) ==
       \/ Tick
       \/ \E th \in Thread :
            /\ req[th].ip = ip
            /\ \/ pc[th] = "pin" /\ req[th].pin = "right"
               \/ pc[th] = "code" /\ req[th].code = "right"
       \/ -limiter[ip].start >= PurgeAge /\ Cardinality({a \in Ip : InMap(limiter[a])}) > MapLimit
<1>1. IInv /\ [Next]_vars => [\A ip \in Ip : Blocked(ip) /\ ~Blocked(ip)' => Ends(ip)]_vars
  <2> SUFFICES ASSUME IInv, Next, NEW ip \in Ip, Blocked(ip), ~Blocked(ip)', ~Tick
               PROVE  Ends(ip)
    OBVIOUS
  <2>1. PICK th \in Thread : ReportPin(th) \/ ReportCode(th)
    BY DEF Next, Handle, Arrive, Refuse, Admit, Blocked
  <2> DEFINE src == req[th].ip
             ok == IF pc[th] = "pin" THEN req[th].pin = "right" ELSE req[th].code = "right"
             m == Purged(limiter, 0)
  <2>2. src \in Ip /\ Report(src, ok) /\ ok \in BOOLEAN /\ pc[th] \in {"pin", "code"}
    BY <2>1, Reported DEF IInv, ReportPin, ReportCode
  <2>3. limiter[ip] \in Entry /\ Consistent(limiter[ip])
    BY DEF IInv, TypeOK, CountedOut
  <2>4. m[ip] # limiter[ip] => Ends(ip)
    <3>1. DOMAIN limiter = Ip
      BY DEF IInv, TypeOK
    <3>2. m = IF Cardinality({a \in Ip : InMap(limiter[a])}) > MapLimit
              THEN [a \in Ip |-> IF 0 - limiter[a].start < PurgeAge THEN limiter[a] ELSE NoEntry]
              ELSE limiter
      BY <3>1 DEF Purged
    <3>3. limiter[ip].start \in Int
      BY <2>3, OldestNegative DEF Entry
    <3>4. ~(0 - limiter[ip].start < PurgeAge) => -limiter[ip].start >= PurgeAge
      BY <3>3, PinLimiterAssumption
    <3> HIDE DEF m
    <3>5. m[ip] # limiter[ip] =>
            /\ Cardinality({a \in Ip : InMap(limiter[a])}) > MapLimit
            /\ ~(0 - limiter[ip].start < PurgeAge)
      BY <3>2
    <3> QED BY <3>4, <3>5
  <2>5. CASE src = ip /\ ok
    BY <2>2, <2>5
  <2>6. CASE src = ip /\ ~ok /\ m[ip] = limiter[ip]
    <3>1. limiter'[ip] = Kept(AfterFailure(limiter[ip], 0))
      BY <2>6, <2>2 DEF Report, Recorded, Kept, Purged, IInv, TypeOK
    <3> QED BY <2>3, <3>1, FailureType DEF Blocked
  <2>7. CASE src # ip /\ m[ip] = limiter[ip]
    <3>1. limiter'[ip] = limiter[ip]
      BY <2>7, <2>2 DEF Report, Recorded, Purged, IInv, TypeOK
    <3> QED BY <3>1 DEF Blocked
  <2> QED BY <2>4, <2>5, <2>6, <2>7
<1> QED BY <1>1, Invariant, PTL DEF Spec, BlockKept
=============================================================================
