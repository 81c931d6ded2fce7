------------------------------ MODULE Pairing ------------------------------
(***************************************************************************)
(* Code-verified pairing between devices that run omasend-engine.          *)
(*                                                                         *)
(* The user of one device (the responder) runs --pair-peer, which writes a *)
(* pending record with a one-time code; the user of the other device (the  *)
(* initiator) runs --complete-pair with the responder's address, OmaID and *)
(* the code.  The initiator's CLI posts the code to the responder's daemon,*)
(* whose handler runs in three separate critical sections (limiter, paired *)
(* peers file, limiter), and stores the token of a PAIRED response.        *)
(*                                                                         *)
(* Every operation on paired_peers.json is one atomic step here: PeersStore*)
(* shows that the flock makes it so.                                       *)
(*                                                                         *)
(* An exchange is one --complete-pair invocation with its connection and   *)
(* its handler thread.  issued, offers, accepts and misses are history: no *)
(* action reads them except to draw the next token.                        *)
(***************************************************************************)
EXTENDS PairedPeers, PinLimiter

CONSTANTS
  Device,       \* devices, named by their OmaIDs
  Exchange,     \* concurrent --complete-pair exchanges
  PairAt,       \* pairs <<d, p>> for which d's user may run --pair-peer p
  CompleteAt,   \* pairs <<i, p>> for which i's user may run --complete-pair p
  HintGiven,    \* the ip arguments users give
  InitAddr,     \* the address each device starts with
  Mobile,       \* bound: devices that may be given another address
  MaxIssues,    \* bound: tokens drawn in a run
  MaxTime       \* bound: the last clock value

ASSUME PairingAssumption ==
  /\ PairAt \subseteq Device \X Device
  /\ CompleteAt \subseteq Device \X Device
  /\ HintGiven \subseteq Hint
  /\ InitAddr \in [Device -> Addr]
  /\ Mobile \subseteq Device
  /\ MaxIssues \in Nat
  /\ MaxTime \in Nat

VARIABLES
  now,        \* wall clock, seconds scaled down
  addr,       \* the LAN address of each device
  hidden,     \* devices whose visibility is OFF
  peers,      \* paired_peers.json of each device
  limiter,    \* PIN_RATE_LIMITER of each daemon
  ex,         \* the exchanges
  issued,     \* number of tokens drawn so far
  offers,     \* token -> who drew it, for whom, with which code and hint
  accepts,    \* token -> times its code was accepted
  misses      \* token -> failed attempts while it was pending

history == <<issued, offers, accepts, misses>>
vars == <<now, addr, hidden, peers, limiter, ex, history>>

Token == 1 .. MaxIssues
Phases == {"idle", "sent", "admitted", "paired", "failed", "answered"}

Idle == [phase |-> "idle"]

\* An exchange under way: from looks for want at the address it dialled and
\* reached to, which sees the source src.  t0 is the time the handler let it
\* in, token what the responder returned.
Underway ==
  [phase : Phases \ {"idle"},
   from  : Device, want : Device, to : Device,
   dial  : Addr, src : Addr \cup {Loopback},
   code  : Code, t0 : Nat, token : Nat]

Offer ==
  [by : Device, for : Device, code : Code \cup {NoCode}, hint : Hint, expires : Nat]

Entry == [failed : Nat, start : Nat, until : Nat \cup {NeverBlocked}]

TypeOK ==
  /\ now \in Nat
  /\ addr \in [Device -> Addr]
  /\ hidden \subseteq Device
  /\ peers \in [Device -> [Device -> PairedPeer]]
  /\ limiter \in [Device -> [Addr -> Entry]]
  /\ ex \in [Exchange -> {Idle} \cup Underway]
  /\ issued \in 0 .. MaxIssues
  /\ DOMAIN offers = 1 .. issued
  /\ \A k \in 1 .. issued : offers[k] \in Offer
  /\ accepts \in [Token -> Nat]
  /\ misses \in [Token -> Nat]

Init ==
  /\ now = 0
  /\ addr = InitAddr
  /\ hidden = {}
  /\ peers = [d \in Device |-> [p \in Device |-> NoPeer]]
  /\ limiter = [d \in Device |-> [a \in Addr |-> NoEntry]]
  /\ ex = [x \in Exchange |-> Idle]
  /\ issued = 0
  /\ offers = << >>
  /\ accepts = [k \in Token |-> 0]
  /\ misses = [k \in Token |-> 0]

----------------------------------------------------------------------------
(* What the user does on a device.                                         *)

Draw(d, p, code, hint, expires) ==
  /\ issued < MaxIssues
  /\ issued' = issued + 1
  /\ offers' = [k \in 1 .. issued + 1 |->
                  IF k <= issued THEN offers[k]
                  ELSE [by |-> d, for |-> p, code |-> code, hint |-> hint,
                        expires |-> expires]]
  /\ UNCHANGED <<accepts, misses>>

\* d's file with another record of p.
Written(d, p, r) == [peers EXCEPT ![d][p] = r]

\* --pair-peer p: a new token and code, whatever was recorded before.
BeginLocalPairing(d, p) ==
  /\ <<d, p>> \in PairAt
  /\ \E code \in Code, hint \in HintGiven :
       /\ Draw(d, p, code, hint, now + PairCodeTtl)
       /\ peers' = Written(d, p, OfferedPeer(issued + 1, code, hint, now))
  /\ UNCHANGED <<now, addr, hidden, limiter, ex>>

\* Mutant of AddPairedPeer: a known peer is written again.
AddAgain(d, p) ==
  /\ <<d, p>> \in PairAt
  /\ \E hint \in HintGiven :
       /\ Draw(d, p, NoCode, hint, 0)
       /\ peers' = Written(d, p, AddedPeer(issued + 1, hint))
  /\ UNCHANGED <<now, addr, hidden, limiter, ex>>

\* --trust-peer and the accept paths: a known peer is left as it is.
AddPairedPeer(d, p) ==
  /\ <<d, p>> \in PairAt
  /\ ~peers[d][p].known
  /\ \E hint \in HintGiven :
       /\ Draw(d, p, NoCode, hint, 0)
       /\ peers' = Written(d, p, AddedPeer(issued + 1, hint))
  /\ UNCHANGED <<now, addr, hidden, limiter, ex>>

\* Devices whose daemon can be asked to complete a pairing.
Responder == {w[1] : w \in PairAt}

\* --set-visibility: only OFF matters to pairing.
SetVisibility(d) ==
  /\ hidden' = IF d \in hidden THEN hidden \ {d} ELSE hidden \cup {d}
  /\ UNCHANGED <<now, addr, peers, limiter, ex, history>>

\* --complete-pair dial want code, once the connection is up: the request
\* reaches whatever device has that address now.
CompletePair(x, i, want) ==
  /\ <<i, want>> \in CompleteAt
  /\ ex[x] = Idle
  /\ \E to \in Device \ {i}, code \in Code :
       ex' = [ex EXCEPT ![x] =
                [phase |-> "sent", from |-> i, want |-> want, to |-> to,
                 dial |-> addr[to], src |-> addr[i], code |-> code,
                 t0 |-> 0, token |-> 0]]
  /\ UNCHANGED <<now, addr, hidden, peers, limiter, history>>

\* The same request arriving at `to` through its own WAN tunnel.
PostThroughTunnel(x, i, to) ==
  /\ <<i, to>> \in CompleteAt
  /\ i # to
  /\ ex[x] = Idle
  /\ \E code \in Code :
       ex' = [ex EXCEPT ![x] =
                [phase |-> "sent", from |-> i, want |-> to, to |-> to,
                 dial |-> addr[to], src |-> Loopback, code |-> code,
                 t0 |-> 0, token |-> 0]]
  /\ UNCHANGED <<now, addr, hidden, peers, limiter, history>>

----------------------------------------------------------------------------
(* The responder's handler of POST /api/p2p/pair.                          *)

Moved(x, phase) == [ex EXCEPT ![x].phase = phase]

Blocked(d, a) == IsLimited(limiter[d][a], now)

\* Visibility OFF, a loopback source or a blocked address: nothing is counted.
TurnAway(x) ==
  /\ ex[x].phase = "sent"
  /\ \/ ex[x].to \in hidden
     \/ ex[x].src = Loopback
     \/ ex[x].src \in Addr /\ Blocked(ex[x].to, ex[x].src)
  /\ ex' = [ex EXCEPT ![x] = Idle]
  /\ UNCHANGED <<now, addr, hidden, peers, limiter, history>>

\* The checks passed; the file is not locked yet.
Admit(x) ==
  /\ ex[x].phase = "sent"
  /\ ex[x].to \notin hidden
  /\ ex[x].src # Loopback
  /\ ~Blocked(ex[x].to, ex[x].src)
  /\ ex' = [ex EXCEPT ![x].phase = "admitted", ![x].t0 = now]
  /\ UNCHANGED <<now, addr, hidden, peers, limiter, history>>

\* complete_remote_pairing under the lock.  The clock was read before the
\* lock was taken, so t may lie anywhere between admission and now.
CompleteRemotePairing(x) ==
  /\ ex[x].phase = "admitted"
  /\ \E t \in ex[x].t0 .. now :
       LET e  == ex[x]
           r  == peers[e.to][e.from]
           ok == Accepts(r, e.code, e.src, t)
       IN  /\ peers' = Written(e.to, e.from, AfterAttempt(r, e.code, e.src, t))
           /\ ex' = [ex EXCEPT ![x].phase = IF ok THEN "paired" ELSE "failed",
                               ![x].token = IF ok THEN r.token ELSE 0]
           /\ accepts' = IF ok THEN [accepts EXCEPT ![r.token] = @ + 1] ELSE accepts
           /\ misses' = IF ~ok /\ Pending(r, t)
                        THEN [misses EXCEPT ![r.token] = @ + 1] ELSE misses
  /\ UNCHANGED <<now, addr, hidden, limiter, issued, offers>>

\* The lock or the save fails: the file keeps its content, the client gets
\* the same refusal and the limiter counts a failure.
StorageFails(x) ==
  /\ ex[x].phase = "admitted"
  /\ ex' = Moved(x, "failed")
  /\ UNCHANGED <<now, addr, hidden, peers, limiter, history>>

\* record_pin_attempt, then the response: PAIRED with the token, or a
\* refusal, which ends the exchange.
RecordAttempt(x) ==
  /\ ex[x].phase \in {"paired", "failed"}
  /\ limiter' = [limiter EXCEPT ![ex[x].to] =
                   Recorded(@, ex[x].src, ex[x].phase = "paired", now)]
  /\ ex' = IF ex[x].phase = "paired" THEN Moved(x, "answered") ELSE [ex EXCEPT ![x] = Idle]
  /\ UNCHANGED <<now, addr, hidden, peers, history>>

----------------------------------------------------------------------------
(* The initiator's side of the answer.                                     *)

\* Mutant of StoreCompletedPairing: the OmaID in the answer is not compared.
StoreFromAnyone(x) ==
  /\ ex[x].phase = "answered"
  /\ peers' = Written(ex[x].from, ex[x].want, AdoptedPeer(ex[x].token, ex[x].dial))
  /\ ex' = [ex EXCEPT ![x] = Idle]
  /\ UNCHANGED <<now, addr, hidden, limiter, history>>

\* p2p_complete_pairing stores the token of a PAIRED answer that echoes the
\* OmaID it asked for.
StoreCompletedPairing(x) ==
  /\ ex[x].phase = "answered"
  /\ ex[x].to = ex[x].want
  /\ peers' = Written(ex[x].from, ex[x].want, AdoptedPeer(ex[x].token, ex[x].dial))
  /\ ex' = [ex EXCEPT ![x] = Idle]
  /\ UNCHANGED <<now, addr, hidden, limiter, history>>

\* The initiator stores nothing: another OmaID in the answer, a lost answer,
\* a timeout, a killed CLI or a full disk.
GiveUp(x) ==
  /\ ex[x].phase = "answered"
  /\ ex' = [ex EXCEPT ![x] = Idle]
  /\ UNCHANGED <<now, addr, hidden, peers, limiter, history>>

----------------------------------------------------------------------------
(* The environment.                                                        *)

\* A daemon is started again: its threads and its limiter are gone.  An
\* answer that left before is still on its way.
Restart(d) ==
  /\ limiter' = [limiter EXCEPT ![d] = [a \in Addr |-> NoEntry]]
  /\ ex' = [x \in Exchange |->
              IF ex[x].phase \notin {"idle", "answered"} /\ ex[x].to = d
              THEN Idle ELSE ex[x]]
  /\ UNCHANGED <<now, addr, hidden, peers, history>>

\* DHCP gives a device another address.
Renumber(d) ==
  /\ \E a \in Addr \ {addr[e] : e \in Device} : addr' = [addr EXCEPT ![d] = a]
  /\ UNCHANGED <<now, hidden, peers, limiter, ex, history>>

Tick ==
  /\ now < MaxTime
  /\ now' = now + 1
  /\ UNCHANGED <<addr, hidden, peers, limiter, ex, history>>

Next ==
  \/ \E d, p \in Device : BeginLocalPairing(d, p) \/ AddPairedPeer(d, p)
  \/ \E d \in Responder : SetVisibility(d) \/ Restart(d)
  \/ \E d \in Mobile : Renumber(d)
  \/ \E x \in Exchange, i, p \in Device : CompletePair(x, i, p) \/ PostThroughTunnel(x, i, p)
  \/ \E x \in Exchange :
       \/ TurnAway(x) \/ Admit(x)
       \/ CompleteRemotePairing(x) \/ StorageFails(x) \/ RecordAttempt(x)
       \/ StoreCompletedPairing(x) \/ GiveUp(x)
  \/ Tick

Spec == Init /\ [][Next]_vars

----------------------------------------------------------------------------
(* Safety.                                                                 *)

\* A confirmed record holds a token one of the two devices drew for the
\* other, and the code that went with it was accepted: nobody is a clipboard
\* or transfer target whom a user did not offer a code to
\* (is_active, is_peer_confirmed, complete_remote_pairing,
\* store_completed_pairing).
ConsentBacked ==
  \A d, p \in Device : peers[d][p].confirmed =>
    LET k == peers[d][p].token
    IN  /\ k \in 1 .. issued
        /\ accepts[k] > 0
        /\ \/ offers[k].by = d /\ offers[k].for = p
           \/ offers[k].by = p /\ offers[k].for = d

\* A pairing code is good for one acceptance, however many exchanges present
\* it at once (pair_code is taken out of the record that is confirmed).
OneTimeCode == \A k \in 1 .. issued : accepts[k] <= 1

\* A code survives fewer than PAIR_CODE_MAX_FAILURES failed attempts, from
\* all addresses together; one that was revoked was never accepted.
GuessBudget ==
  \A k \in 1 .. issued :
    /\ misses[k] <= PairCodeMaxFailures
    /\ misses[k] = PairCodeMaxFailures => accepts[k] = 0

\* The address a responder pushes to is the LAN source it observed, and the
\* one its user named if a hint was given.
SourceBound ==
  \A d, p \in Device :
    LET r == peers[d][p]
    IN  r.confirmed /\ offers[r.token].by = d =>
          /\ r.ip \in Addr
          /\ offers[r.token].hint \in {NoAddr, r.ip}

----------------------------------------------------------------------------
(* Action properties.                                                      *)

\* What the user of d does about p: --pair-peer or a first --trust-peer ...
DrawnBy(d, p) ==
  /\ issued' = issued + 1
  /\ offers'[issued'].by = d
  /\ offers'[issued'].for = p
  /\ peers'[d][p].token = issued'

\* ... or a --complete-pair that p itself answered.
AnsweredTo(d, p) ==
  \E x \in Exchange :
    /\ ex[x].phase = "answered"
    /\ ex[x].from = d
    /\ ex[x].want = p
    /\ ex[x].to = p
    /\ peers'[d][p].token = ex[x].token

\* Records appear, change their token and lose their confirmation only by
\* what the local user started, never by what a remote device sends.
KeyedByLocalUser ==
  [][\A d, p \in Device :
       LET r == peers[d][p]
           s == peers'[d][p]
       IN  \/ s.known # r.known
           \/ s.token # r.token
           \/ r.confirmed /\ ~s.confirmed
           => DrawnBy(d, p) \/ AnsweredTo(d, p)]_vars

\* A code is accepted for the exchange that presents it, from a request that
\* was let in before the code expired, and only while no later --pair-peer
\* for the same device has replaced it.
AcceptanceEarned ==
  [][\A k \in 1 .. issued : accepts'[k] # accepts[k] =>
       \E x \in Exchange :
         /\ ex[x].phase = "admitted"
         /\ ex[x].to = offers[k].by
         /\ ex[x].from = offers[k].for
         /\ ex[x].code = offers[k].code
         /\ ex[x].t0 <= offers[k].expires
         /\ \A j \in k + 1 .. issued :
              ~(offers[j].by = offers[k].by /\ offers[j].for = offers[k].for)]_vars

----------------------------------------------------------------------------
(* Pairing implements the consent protocol of PairingConsent.              *)

OpenOffers ==
  {k \in 1 .. issued :
     LET r == peers[offers[k].by][offers[k].for]
     IN  r.token = k /\ r.code # NoCode}

Consent == INSTANCE PairingConsent WITH
  Max   <- MaxIssues,
  drawn <- [k \in 1 .. issued |-> <<offers[k].by, offers[k].for>>],
  open  <- OpenOffers,
  taken <- {k \in 1 .. issued : accepts[k] > 0},
  link  <- [d \in Device |-> [p \in Device |->
              IF peers[d][p].confirmed THEN peers[d][p].token ELSE 0]]

\* What users can rely on: an offered code is taken at most once, links come
\* only from taken offers, and an offer that was closed stays closed.
ImplementsConsent == Consent!Spec
============================================================================
