-------------------------- MODULE PinLimiterThreads --------------------------
(***************************************************************************)
(* The limiter of failed attempts inside the daemon: handle_connection     *)
(* asks is_pin_rate_limited and reports with record_pin_attempt in         *)
(* critical sections of their own, so that threads serving one address can *)
(* all pass the check before the first of them reports.                    *)
(*                                                                         *)
(* A request may carry a PIN, and may be a pairing completion, which is    *)
(* checked and reported once more.  Times are relative: the present is 0   *)
(* and Tick moves the past away, up to the age where nothing depends on    *)
(* it.  For the same reason a count is kept up to PinMaxFailures.          *)
(***************************************************************************)
EXTENDS PinLimiter

CONSTANTS
  Thread,   \* the connections served at once, MAX_PEER_CONNECTIONS at most
  Ip

ASSUME PinLimiterThreadsAssumption ==
  IsFiniteSet(Thread) /\ Thread # {}

VARIABLES
  limiter,   \* PIN_RATE_LIMITER
  pc, req,   \* of each thread
  late       \* history: failures reported while the address was blocked

vars == <<limiter, pc, req, late>>

\* What a request carries: a PIN and a pairing code, right or wrong.
Requests ==
  [ip : Ip, pin : {"right", "wrong", "none"}, code : {"right", "wrong", "none"}]

NoRequest == [ip |-> "nobody"]

\* Nothing tells older entries apart.
Oldest == - (1 + IF PinWindow > PurgeAge THEN PinWindow ELSE PurgeAge)

Entry == [failed : 0 .. PinMaxFailures, start : Oldest .. 0, until : NeverBlocked .. PinBlock]

TypeOK ==
  /\ limiter \in [Ip -> Entry]
  /\ pc \in [Thread -> {"idle", "check", "pin", "checkCode", "code"}]
  /\ req \in [Thread -> Requests \cup {NoRequest}]
  /\ \A th \in Thread : pc[th] # "idle" => req[th] \in Requests
  /\ late \in [Ip -> Nat]

Init ==
  /\ limiter = [ip \in Ip |-> NoEntry]
  /\ pc = [th \in Thread |-> "idle"]
  /\ req = [th \in Thread |-> NoRequest]
  /\ late = [ip \in Ip |-> 0]

Blocked(ip) == IsLimited(limiter[ip], 0)

\* Failures are counted in late from the one that blocks the address on.
Report(ip, ok) ==
  LET m == Recorded(limiter, ip, ok, 0)
  IN  /\ limiter' = [m EXCEPT ![ip].failed = IF @ > PinMaxFailures THEN PinMaxFailures ELSE @]
      /\ late' = [late EXCEPT ![ip] = IF ~ok /\ Blocked(ip) THEN @ + 1 ELSE 0]

\* A thread that has answered forgets the request.
Goto(th, label) ==
  /\ pc' = [pc EXCEPT ![th] = label]
  /\ req' = IF label = "idle" THEN [req EXCEPT ![th] = NoRequest] ELSE req

\* The next thing the handler does about a pairing code, if there is one.
AfterPin(th) == IF req[th].code = "none" THEN "idle" ELSE "checkCode"

Arrive(th) ==
  /\ pc[th] = "idle"
  /\ \E r \in Requests : req' = [req EXCEPT ![th] = r]
  /\ pc' = [pc EXCEPT ![th] = "check"]
  /\ UNCHANGED <<limiter, late>>

\* Mutant of Refuse: a refused request prolongs the block.
RefuseCounting(th) ==
  /\ pc[th] \in {"check", "checkCode"}
  /\ Blocked(req[th].ip)
  /\ limiter' = [limiter EXCEPT ![req[th].ip].until = PinBlock]
  /\ Goto(th, "idle")
  /\ UNCHANGED late

\* is_pin_rate_limited before anything else: 429, nothing is counted.
Refuse(th) ==
  /\ pc[th] \in {"check", "checkCode"}
  /\ Blocked(req[th].ip)
  /\ Goto(th, "idle")
  /\ UNCHANGED <<limiter, late>>

\* Mutant of Admit: the block is not looked at.
AdmitAnyway(th) ==
  /\ pc[th] \in {"check", "checkCode"}
  /\ Goto(th, IF pc[th] = "checkCode" THEN "code"
              ELSE IF req[th].pin # "none" THEN "pin" ELSE AfterPin(th))
  /\ UNCHANGED <<limiter, late>>

Admit(th) ==
  /\ pc[th] \in {"check", "checkCode"}
  /\ ~Blocked(req[th].ip)
  /\ Goto(th, IF pc[th] = "checkCode" THEN "code"
              ELSE IF req[th].pin # "none" THEN "pin" ELSE AfterPin(th))
  /\ UNCHANGED <<limiter, late>>

\* The PIN was compared: the report says whether the address is blocked now,
\* and then the request ends with 429.
ReportPin(th) ==
  /\ pc[th] = "pin"
  /\ Report(req[th].ip, req[th].pin = "right")
  /\ Goto(th, IF req[th].pin = "wrong" /\ limiter'[req[th].ip].failed >= PinMaxFailures
              THEN "idle" ELSE AfterPin(th))

\* complete_remote_pairing answered; its outcome is reported.
ReportCode(th) ==
  /\ pc[th] = "code"
  /\ Report(req[th].ip, req[th].code = "right")
  /\ Goto(th, "idle")

\* One unit of time: starts age, blocks run down.
Aged(e) ==
  IF ~InMap(e) THEN e
  ELSE [e EXCEPT !.start = IF @ > Oldest THEN @ - 1 ELSE @,
                 !.until = IF @ > 0 THEN @ - 1 ELSE @]

Tick ==
  /\ limiter' = [ip \in Ip |-> Aged(limiter[ip])]
  /\ late' = [ip \in Ip |-> IF limiter'[ip].until > 0 THEN late[ip] ELSE 0]
  /\ UNCHANGED <<pc, req>>

Handle(th) == Refuse(th) \/ Admit(th) \/ ReportPin(th) \/ ReportCode(th)

Next ==
  \/ \E th \in Thread : Arrive(th) \/ Handle(th)
  \/ Tick

\* Time passes.
Spec == Init /\ [][Next]_vars /\ WF_vars(Tick)

----------------------------------------------------------------------------

\* Who was let in before the block may still fail once: an address gets at
\* most as many guesses beyond the limit as it has other connections
\* (MAX_PEER_CONNECTIONS - 1).
LateFailuresBounded ==
  \A ip \in Ip : late[ip] <= Cardinality(Thread) - 1

\* A block ends before its time only when a request that was let in earlier
\* succeeds, or when the map is over its limit and the count is older than
\* PurgeAge.
BlockKept ==
  [][\A ip \in Ip : Blocked(ip) /\ ~Blocked(ip)' =>
       \/ Tick
       \/ \E th \in Thread :
            /\ req[th].ip = ip
            /\ \/ pc[th] = "pin" /\ req[th].pin = "right"
               \/ pc[th] = "code" /\ req[th].code = "right"
       \/ -limiter[ip].start >= PurgeAge /\ Cardinality({a \in Ip : InMap(limiter[a])}) > MapLimit]_vars

\* A blocked address is let in again after a while, also if it keeps asking:
\* only requests that were let in before can prolong the block.
BlockEnds == \A ip \in Ip : Blocked(ip) ~> ~Blocked(ip)
=============================================================================
