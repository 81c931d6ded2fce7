--------------------------- MODULE PairingProofs ---------------------------
(***************************************************************************)
(* Theorems about Pairing, for any devices, addresses, codes, number of    *)
(* concurrent exchanges, lifetimes and limits.                             *)
(*                                                                         *)
(* ConsentBacked alone is not inductive: that a record becomes confirmed   *)
(* by its own offer, and that an answer carries an accepted token, must be *)
(* known before.  PendingBacked says what a pending record remembers of    *)
(* the offer it was written for, AnswersBacked what an exchange carries.   *)
(***************************************************************************)
EXTENDS Pairing, TLAPS

OfferKept(d, p) ==
  LET r == peers[d][p]
      k == r.token
  IN  /\ r.confirmed => r.known
      /\ r.known /\ ~r.confirmed =>
           k \in 1 .. issued /\ offers[k].by = d /\ offers[k].for = p
      /\ r.code # NoCode =>
           /\ r.known
           /\ ~r.confirmed
           /\ offers[k].code = r.code
           /\ offers[k].hint = r.ip
           /\ offers[k].expires = r.expires
           /\ accepts[k] = 0
           /\ misses[k] = r.failures
           /\ r.failures < PairCodeMaxFailures
           /\ \A j \in k + 1 .. issued : ~(offers[j].by = d /\ offers[j].for = p)

PendingBacked == \A d, p \in Device : OfferKept(d, p)

AnswersBacked ==
  \A x \in Exchange :
    /\ ex[x].phase # "idle" => ex[x].from # ex[x].to
    /\ ex[x].phase \notin {"idle", "sent"} => ex[x].src \in Addr
    /\ ex[x].phase \in {"paired", "answered"} =>
         LET k == ex[x].token
         IN  /\ k \in 1 .. issued
             /\ accepts[k] > 0
             /\ offers[k].by = ex[x].to
             /\ offers[k].for = ex[x].from

FreshTokens == \A k \in Token : k > issued => accepts[k] = 0 /\ misses[k] = 0

RecordsInv ==
  /\ PendingBacked
  /\ FreshTokens
  /\ ConsentBacked
  /\ OneTimeCode
  /\ GuessBudget
  /\ SourceBound

IInv == TypeOK /\ RecordsInv /\ AnswersBacked

----------------------------------------------------------------------------
(* What the record and limiter operations return.                          *)

LEMMA NoPeerType == NoPeer \in PairedPeer
  BY PairedPeersAssumption DEF NoPeer, PairedPeer, Hint

LEMMA AddedType ==
  ASSUME NEW k \in Nat, NEW hint \in Hint
  PROVE  AddedPeer(k, hint) \in PairedPeer
  BY PairedPeersAssumption DEF AddedPeer, NoPeer, PairedPeer, Hint

LEMMA OfferedType ==
  ASSUME NEW k \in Nat, NEW code \in Code, NEW hint \in Hint, NEW t \in Nat
  PROVE  OfferedPeer(k, code, hint, t) \in PairedPeer
<1>1. AddedPeer(k, hint) \in PairedPeer /\ t + PairCodeTtl \in Nat
  BY AddedType, PairedPeersAssumption
<1>. QED
  BY <1>1 DEF OfferedPeer, PairedPeer

LEMMA AdoptedType ==
  ASSUME NEW k \in Nat, NEW hint \in Hint
  PROVE  AdoptedPeer(k, hint) \in PairedPeer
<1>1. AddedPeer(k, hint) \in PairedPeer
  BY AddedType
<1>. QED
  BY <1>1, PairedPeersAssumption DEF AdoptedPeer, PairedPeer

LEMMA AttemptType ==
  ASSUME NEW r \in PairedPeer, NEW code \in Code, NEW src \in Hint, NEW t \in Nat
  PROVE  AfterAttempt(r, code, src, t) \in PairedPeer
<1>1. Confirmed(r, src) \in PairedPeer
  BY PairedPeersAssumption DEF Confirmed, PairedPeer
<1>2. Missed(r) \in PairedPeer
  <2>1. r.failures + 1 \in Nat
    BY DEF PairedPeer
  <2>. QED
    BY <2>1, PairedPeersAssumption DEF Missed, PairedPeer
<1>. QED
  BY <1>1, <1>2 DEF AfterAttempt

LEMMA NoEntryType == NoEntry \in Entry
  BY DEF NoEntry, Entry, NeverBlocked

LEMMA RecordedType ==
  ASSUME NEW m \in [Addr -> Entry], NEW ip, NEW ok, NEW t \in Nat
  PROVE  Recorded(m, ip, ok, t) \in [Addr -> Entry]
<1>1. Purged(m, t) \in [Addr -> Entry]
  BY NoEntryType DEF Purged
<1>2. ASSUME NEW e \in Entry PROVE AfterFailure(e, t) \in Entry
  <2>1. /\ e.failed + 1 \in Nat
        /\ t + PinBlock \in Nat
    BY PinLimiterAssumption DEF Entry
  <2>. QED
    BY <2>1 DEF AfterFailure, Entry
<1>. QED
  BY <1>1, <1>2, NoEntryType DEF Recorded

----------------------------------------------------------------------------
(* Types.                                                                  *)

LEMMA InitType == Init => TypeOK
<1>. SUFFICES ASSUME Init PROVE TypeOK
  OBVIOUS
<1>1. peers \in [Device -> [Device -> PairedPeer]]
  BY NoPeerType DEF Init
<1>2. limiter \in [Device -> [Addr -> Entry]]
  BY NoEntryType DEF Init
<1>3. issued \in 0 .. MaxIssues /\ DOMAIN offers = 1 .. issued
  BY PairingAssumption DEF Init
<1>. QED
  BY <1>1, <1>2, <1>3, PairingAssumption DEF Init, TypeOK

\* A draw leaves the earlier offers as they are and adds one.
LEMMA DrawStep ==
  ASSUME TypeOK, NEW d \in Device, NEW p \in Device, NEW code \in Code \cup {NoCode},
         NEW hint \in Hint, NEW expires \in Nat, Draw(d, p, code, hint, expires)
  PROVE  /\ issued + 1 \in Token
         /\ issued' = issued + 1
         /\ issued' \in 0 .. MaxIssues
         /\ DOMAIN offers' = 1 .. issued'
         /\ \A k \in 1 .. issued' : offers'[k] \in Offer
         /\ \A k \in 1 .. issued : offers'[k] = offers[k]
         /\ offers'[issued + 1] =
              [by |-> d, for |-> p, code |-> code, hint |-> hint, expires |-> expires]
         /\ accepts' = accepts
         /\ misses' = misses
<1>1. issued \in Nat /\ MaxIssues \in Nat /\ issued < MaxIssues
  BY PairingAssumption DEF TypeOK, Draw
<1>2. [by |-> d, for |-> p, code |-> code, hint |-> hint, expires |-> expires] \in Offer
  BY DEF Offer
<1>. QED
  BY <1>1, <1>2 DEF TypeOK, Draw, Token

LEMMA SetRecordType ==
  ASSUME TypeOK, NEW d \in Device, NEW p \in Device, NEW r \in PairedPeer,
         peers' = Written(d, p, r)
  PROVE  peers' \in [Device -> [Device -> PairedPeer]]
  BY DEF TypeOK, Written

\* Who is not idle is under way.
LEMMA UnderwayType ==
  ASSUME TypeOK, NEW x \in Exchange, ex[x].phase # "idle"
  PROVE  ex[x] \in Underway
  BY DEF TypeOK, Idle

LEMMA TypeStep == TypeOK /\ [Next]_vars => TypeOK'
<1>. SUFFICES ASSUME TypeOK, [Next]_vars PROVE TypeOK'
  OBVIOUS
<1>. USE PairingAssumption
<1>1. ASSUME NEW d \in Device, NEW p \in Device, BeginLocalPairing(d, p) PROVE TypeOK'
  <2>1. PICK code \in Code, hint \in HintGiven :
          /\ Draw(d, p, code, hint, now + PairCodeTtl)
          /\ peers' = Written(d, p, OfferedPeer(issued + 1, code, hint, now))
    BY <1>1 DEF BeginLocalPairing
  <2>2. now \in Nat /\ now + PairCodeTtl \in Nat /\ hint \in Hint /\ issued + 1 \in Nat
    BY PairedPeersAssumption DEF TypeOK
  <2>3. peers' \in [Device -> [Device -> PairedPeer]]
    BY <2>1, <2>2, OfferedType, SetRecordType
  <2>. QED
    BY <1>1, <2>1, <2>2, <2>3, DrawStep DEF TypeOK, BeginLocalPairing
<1>2. ASSUME NEW d \in Device, NEW p \in Device, AddPairedPeer(d, p) PROVE TypeOK'
  <2>1. PICK hint \in HintGiven :
          /\ Draw(d, p, NoCode, hint, 0)
          /\ peers' = Written(d, p, AddedPeer(issued + 1, hint))
    BY <1>2 DEF AddPairedPeer
  <2>2. hint \in Hint /\ issued + 1 \in Nat
    BY DEF TypeOK
  <2>3. peers' \in [Device -> [Device -> PairedPeer]]
    BY <2>1, <2>2, AddedType, SetRecordType
  <2>. QED
    BY <1>2, <2>1, <2>2, <2>3, DrawStep DEF TypeOK, AddPairedPeer
<1>3. ASSUME NEW d \in Responder, SetVisibility(d) PROVE TypeOK'
  BY <1>3 DEF TypeOK, SetVisibility, Responder, history
<1>4. ASSUME NEW d \in Responder, Restart(d) PROVE TypeOK'
  <2>1. limiter' \in [Device -> [Addr -> Entry]]
    BY <1>4, NoEntryType DEF TypeOK, Restart
  <2>. QED
    BY <1>4, <2>1 DEF TypeOK, Restart, history
<1>5. ASSUME NEW d \in Mobile, Renumber(d) PROVE TypeOK'
  BY <1>5 DEF TypeOK, Renumber, history
<1>6. ASSUME NEW x \in Exchange, NEW i \in Device, NEW p \in Device, CompletePair(x, i, p)
      PROVE  TypeOK'
  <2>1. PICK to \in Device \ {i}, code \in Code :
          ex' = [ex EXCEPT ![x] =
                  [phase |-> "sent", from |-> i, want |-> p, to |-> to,
                   dial |-> addr[to], src |-> addr[i], code |-> code,
                   t0 |-> 0, token |-> 0]]
    BY <1>6 DEF CompletePair
  <2>2. [phase |-> "sent", from |-> i, want |-> p, to |-> to,
         dial |-> addr[to], src |-> addr[i], code |-> code,
         t0 |-> 0, token |-> 0] \in Underway
    BY DEF TypeOK, Underway, Phases
  <2>. QED
    BY <1>6, <2>1, <2>2 DEF TypeOK, CompletePair, history
<1>7. ASSUME NEW x \in Exchange, NEW i \in Device, NEW p \in Device, PostThroughTunnel(x, i, p)
      PROVE  TypeOK'
  <2>1. PICK code \in Code :
          ex' = [ex EXCEPT ![x] =
                  [phase |-> "sent", from |-> i, want |-> p, to |-> p,
                   dial |-> addr[p], src |-> Loopback, code |-> code,
                   t0 |-> 0, token |-> 0]]
    BY <1>7 DEF PostThroughTunnel
  <2>2. [phase |-> "sent", from |-> i, want |-> p, to |-> p,
         dial |-> addr[p], src |-> Loopback, code |-> code,
         t0 |-> 0, token |-> 0] \in Underway
    BY DEF TypeOK, Underway, Phases
  <2>. QED
    BY <1>7, <2>1, <2>2 DEF TypeOK, PostThroughTunnel, history
<1>8. ASSUME NEW x \in Exchange, TurnAway(x) \/ GiveUp(x) PROVE TypeOK'
  BY <1>8 DEF TypeOK, TurnAway, GiveUp, history
<1>9. ASSUME NEW x \in Exchange, Admit(x) PROVE TypeOK'
  <2>1. [ex[x] EXCEPT !.phase = "admitted", !.t0 = now] \in Underway
    BY <1>9, UnderwayType DEF Admit, TypeOK, Underway, Phases
  <2>. QED
    BY <1>9, <2>1 DEF TypeOK, Admit, history
<1>10. ASSUME NEW x \in Exchange, CompleteRemotePairing(x) PROVE TypeOK'
  <2>1. PICK t \in ex[x].t0 .. now :
          LET e  == ex[x]
              r  == peers[e.to][e.from]
              ok == Accepts(r, e.code, e.src, t)
          IN  /\ peers' = Written(e.to, e.from, AfterAttempt(r, e.code, e.src, t))
              /\ ex' = [ex EXCEPT ![x].phase = IF ok THEN "paired" ELSE "failed",
                                  ![x].token = IF ok THEN r.token ELSE 0]
              /\ accepts' = IF ok THEN [accepts EXCEPT ![r.token] = @ + 1] ELSE accepts
              /\ misses' = IF ~ok /\ Pending(r, t)
                           THEN [misses EXCEPT ![r.token] = @ + 1] ELSE misses
    BY <1>10 DEF CompleteRemotePairing
  <2>. DEFINE r  == peers[ex[x].to][ex[x].from]
              ok == Accepts(r, ex[x].code, ex[x].src, t)
  <2>2. ex[x] \in Underway
    BY <1>10, UnderwayType DEF CompleteRemotePairing
  <2>a. /\ ex[x].to \in Device /\ ex[x].from \in Device /\ ex[x].t0 \in Nat
        /\ ex[x].src \in Hint /\ ex[x].code \in Code
    BY <2>2 DEF Underway, Hint
  <2>b. r \in PairedPeer
    BY <2>a DEF TypeOK
  <2>3. r.token \in Nat /\ t \in Nat
    BY <2>a, <2>b DEF TypeOK, PairedPeer
  <2>4. peers' \in [Device -> [Device -> PairedPeer]]
    BY <2>1, <2>a, <2>b, <2>3, AttemptType, SetRecordType
  <2>5. ex' \in [Exchange -> {Idle} \cup Underway]
    <3>1. \A ph \in Phases \ {"idle"}, k \in Nat :
            [ex[x] EXCEPT !.phase = ph, !.token = k] \in Underway
      BY <2>2 DEF Underway
    <3>2. ex' = [ex EXCEPT ![x] = [ex[x] EXCEPT !.phase = IF ok THEN "paired" ELSE "failed",
                                                !.token = IF ok THEN r.token ELSE 0]]
      BY <2>1 DEF TypeOK
    <3>. DEFINE ph == IF ok THEN "paired" ELSE "failed"
                k  == IF ok THEN r.token ELSE 0
    <3>3. ph \in Phases \ {"idle"} /\ k \in Nat
      BY <2>3 DEF Phases
    <3>4. [ex[x] EXCEPT !.phase = ph, !.token = k] \in Underway
      BY <3>1, <3>3
    <3>. DEFINE new == [ex[x] EXCEPT !.phase = ph, !.token = k]
    <3>5. ex' = [ex EXCEPT ![x] = new] /\ new \in Underway
      BY <3>2, <3>4
    <3>. HIDE DEF new
    <3>. QED
      BY <3>5 DEF TypeOK
  <2>6. accepts' \in [Token -> Nat] /\ misses' \in [Token -> Nat]
    <3>1. /\ accepts' \in {accepts, [accepts EXCEPT ![r.token] = @ + 1]}
          /\ misses' \in {misses, [misses EXCEPT ![r.token] = @ + 1]}
      BY <2>1
    <3>2. accepts \in [Token -> Nat] /\ misses \in [Token -> Nat]
      BY DEF TypeOK
    <3>. HIDE DEF r, ok
    <3>. QED
      BY <3>1, <3>2
  <2>. QED
    BY <1>10, <2>4, <2>5, <2>6 DEF TypeOK, CompleteRemotePairing
<1>11. ASSUME NEW x \in Exchange, StorageFails(x) PROVE TypeOK'
  <2>1. [ex[x] EXCEPT !.phase = "failed"] \in Underway
    BY <1>11, UnderwayType DEF StorageFails, Underway, Phases
  <2>. QED
    BY <1>11, <2>1 DEF TypeOK, StorageFails, Moved, history
<1>12. ASSUME NEW x \in Exchange, RecordAttempt(x) PROVE TypeOK'
  <2>1. ex[x] \in Underway /\ ex[x].to \in Device
    BY <1>12, UnderwayType DEF RecordAttempt, Underway
  <2>2. limiter' \in [Device -> [Addr -> Entry]]
    BY <1>12, <2>1, RecordedType DEF TypeOK, RecordAttempt
  <2>3. [ex[x] EXCEPT !.phase = "answered"] \in Underway
    BY <2>1 DEF Underway, Phases
  <2>. QED
    BY <1>12, <2>2, <2>3 DEF TypeOK, RecordAttempt, Moved, history
<1>13. ASSUME NEW x \in Exchange, StoreCompletedPairing(x) PROVE TypeOK'
  <2>1. ex[x] \in Underway
    BY <1>13, UnderwayType DEF StoreCompletedPairing
  <2>2. AdoptedPeer(ex[x].token, ex[x].dial) \in PairedPeer
    BY <2>1, AdoptedType DEF Underway, Hint
  <2>3. peers' \in [Device -> [Device -> PairedPeer]]
    BY <1>13, <2>1, <2>2, SetRecordType DEF StoreCompletedPairing, Underway
  <2>. QED
    BY <1>13, <2>3 DEF TypeOK, StoreCompletedPairing, history
<1>14. CASE Tick
  BY <1>14 DEF TypeOK, Tick, history
<1>15. CASE UNCHANGED vars
  BY <1>15 DEF TypeOK, vars, history
<1>. QED
  BY <1>1, <1>2, <1>3, <1>4, <1>5, <1>6, <1>7, <1>8, <1>9, <1>10, <1>11, <1>12,
     <1>13, <1>14, <1>15 DEF Next

\* Every operation, also one that races with another on the same record,
\* leaves records, limiters and exchanges of the shape the code stores.
THEOREM TypeCorrect == Spec => []TypeOK
  BY InitType, TypeStep, PTL DEF Spec

----------------------------------------------------------------------------
(* What records and tokens say about each other.                           *)

LEMMA InitRecords == Init => RecordsInv /\ AnswersBacked
<1>. SUFFICES ASSUME Init PROVE RecordsInv /\ AnswersBacked
  OBVIOUS
<1>1. \A d, p \in Device :
        ~peers[d][p].known /\ ~peers[d][p].confirmed /\ peers[d][p].code = NoCode
  BY DEF Init, NoPeer
<1>2. PendingBacked /\ ConsentBacked /\ SourceBound
  BY <1>1 DEF PendingBacked, OfferKept, ConsentBacked, SourceBound
<1>3. FreshTokens /\ OneTimeCode /\ GuessBudget
  BY DEF Init, FreshTokens, OneTimeCode, GuessBudget
<1>4. AnswersBacked
  BY DEF Init, AnswersBacked, Idle
<1>. QED
  BY <1>2, <1>3, <1>4 DEF RecordsInv

\* A step that touches neither the files nor the tokens.
LEMMA QuietRecords ==
  ASSUME RecordsInv, UNCHANGED <<peers, history>>
  PROVE  RecordsInv'
  BY DEF RecordsInv, PendingBacked, OfferKept, FreshTokens, ConsentBacked, OneTimeCode,
         GuessBudget, SourceBound, history

\* ConsentBacked and SourceBound for one record.
PairBacked(d, p) ==
  peers[d][p].confirmed =>
    LET k == peers[d][p].token
    IN  /\ k \in 1 .. issued
        /\ accepts[k] > 0
        /\ \/ offers[k].by = d /\ offers[k].for = p
           \/ offers[k].by = p /\ offers[k].for = d

PairBound(d, p) ==
  LET r == peers[d][p]
  IN  r.confirmed /\ offers[r.token].by = d =>
        r.ip \in Addr /\ offers[r.token].hint \in {NoAddr, r.ip}

LEMMA ByPair ==
  /\ ConsentBacked <=> \A d, p \in Device : PairBacked(d, p)
  /\ SourceBound <=> \A d, p \in Device : PairBound(d, p)
  BY DEF ConsentBacked, SourceBound, PairBacked, PairBound

LEMMA AllPairs ==
  ASSUME \A c, q \in Device : PairBacked(c, q)' /\ PairBound(c, q)'
  PROVE  ConsentBacked' /\ SourceBound'
  BY DEF ConsentBacked, SourceBound, PairBacked, PairBound

\* What is true of a record stays so while the record and the offer it holds
\* stay as they are, and an acceptance is not taken back.
LEMMA SameRecord ==
  ASSUME NEW d, NEW p, peers'[d][p] = peers[d][p], offers' = offers, issued' = issued
  PROVE  /\ OfferKept(d, p)
            /\ (peers[d][p].code # NoCode =>
                  /\ accepts'[peers[d][p].token] = accepts[peers[d][p].token]
                  /\ misses'[peers[d][p].token] = misses[peers[d][p].token])
            => OfferKept(d, p)'
         /\ PairBacked(d, p)
            /\ (accepts[peers[d][p].token] > 0 => accepts'[peers[d][p].token] > 0)
            => PairBacked(d, p)'
         /\ PairBound(d, p) => PairBound(d, p)'
<1>1. ASSUME OfferKept(d, p),
             peers[d][p].code # NoCode =>
               /\ accepts'[peers[d][p].token] = accepts[peers[d][p].token]
               /\ misses'[peers[d][p].token] = misses[peers[d][p].token]
      PROVE  OfferKept(d, p)'
  BY <1>1 DEF OfferKept
<1>2. ASSUME PairBacked(d, p), accepts[peers[d][p].token] > 0 => accepts'[peers[d][p].token] > 0
      PROVE  PairBacked(d, p)'
  BY <1>2 DEF PairBacked
<1>3. PairBound(d, p) => PairBound(d, p)'
  BY DEF PairBound
<1>. QED
  BY <1>1, <1>2, <1>3

\* Where the record of p on d is replaced, the others stay.
LEMMA OtherRecords ==
  ASSUME TypeOK, NEW d \in Device, NEW p \in Device, NEW r,
         peers' = Written(d, p, r)
  PROVE  /\ peers'[d][p] = r
         /\ \A c, q \in Device : c # d \/ q # p => peers'[c][q] = peers[c][q]
  BY DEF TypeOK, Written

\* A drawn token backs a new unconfirmed record and disturbs no other.
LEMMA DrawRecords ==
  ASSUME TypeOK, RecordsInv,
         NEW d \in Device, NEW p \in Device, NEW code \in Code \cup {NoCode},
         NEW hint \in Hint, NEW expires \in Nat, NEW r \in PairedPeer,
         Draw(d, p, code, hint, expires),
         peers' = Written(d, p, r),
         r.known, ~r.confirmed, r.token = issued + 1,
         r.code = code, r.ip = hint, r.expires = expires, r.failures = 0
  PROVE  RecordsInv'
<1>. DEFINE n == issued + 1
<1>1. /\ n \in Token /\ issued \in Nat
      /\ issued' = n
      /\ \A k \in 1 .. issued : offers'[k] = offers[k]
      /\ offers'[n] = [by |-> d, for |-> p, code |-> code, hint |-> hint, expires |-> expires]
      /\ accepts' = accepts /\ misses' = misses
  <2>1. issued \in Nat
    BY DEF TypeOK
  <2>. QED
    BY <2>1, DrawStep
<1>2. /\ peers'[d][p] = r
      /\ \A c, q \in Device : c # d \/ q # p => peers'[c][q] = peers[c][q]
  BY OtherRecords
<1>3. accepts[n] = 0 /\ misses[n] = 0
  BY <1>1 DEF RecordsInv, FreshTokens
<1>4. PendingBacked'
  <2>. SUFFICES ASSUME NEW c \in Device, NEW q \in Device
                PROVE  OfferKept(c, q)'
    BY DEF PendingBacked
  <2>1. CASE c = d /\ q = p
    BY <2>1, <1>1, <1>2, <1>3, PairedPeersAssumption DEF OfferKept
  <2>2. CASE c # d \/ q # p
    <3>1. peers'[c][q] = peers[c][q]
      BY <1>2, <2>2
    <3>2. offers'[n].by # c \/ offers'[n].for # q
      BY <1>1, <2>2
    <3>3. peers[c][q].known /\ ~peers[c][q].confirmed =>
            peers[c][q].token \in 1 .. issued
      BY DEF RecordsInv, PendingBacked, OfferKept
    <3>4. OfferKept(c, q)
      BY DEF RecordsInv, PendingBacked
    <3>. QED
      BY <1>1, <3>1, <3>2, <3>3, <3>4 DEF OfferKept
  <2>. QED
    BY <2>1, <2>2
<1>5. ConsentBacked'
  BY <1>1, <1>2 DEF RecordsInv, ConsentBacked
<1>6. SourceBound'
  BY <1>1, <1>2 DEF RecordsInv, ConsentBacked, SourceBound
<1>7. OneTimeCode' /\ GuessBudget'
  BY <1>1, <1>3, PairedPeersAssumption DEF RecordsInv, OneTimeCode, GuessBudget
<1>8. FreshTokens'
  BY <1>1 DEF RecordsInv, FreshTokens, Token
<1>. QED
  BY <1>4, <1>5, <1>6, <1>7, <1>8 DEF RecordsInv

\* The responder's attempt: at most one code is accepted or missed, and it
\* is the one of the record that is replaced.
LEMMA AttemptRecords ==
  ASSUME TypeOK, RecordsInv, NEW d \in Device, NEW p \in Device, NEW code \in Code,
         NEW src \in Addr, NEW t \in Nat,
         peers' = Written(d, p, AfterAttempt(peers[d][p], code, src, t)),
         accepts' = IF Accepts(peers[d][p], code, src, t)
                    THEN [accepts EXCEPT ![peers[d][p].token] = @ + 1] ELSE accepts,
         misses' = IF ~Accepts(peers[d][p], code, src, t) /\ Pending(peers[d][p], t)
                   THEN [misses EXCEPT ![peers[d][p].token] = @ + 1] ELSE misses,
         UNCHANGED <<issued, offers>>
  PROVE  /\ RecordsInv'
         /\ \A k \in Token : accepts[k] > 0 => accepts'[k] > 0
<1>. DEFINE r == peers[d][p]
            n == r.token
<1>0. /\ r \in PairedPeer /\ n \in Nat /\ issued \in Nat /\ 1 .. issued \subseteq Token
      /\ accepts \in [Token -> Nat] /\ misses \in [Token -> Nat]
      /\ src \in Hint /\ r.failures \in Nat
      /\ NoAddr \notin Addr
  <2>1. r \in PairedPeer
    BY DEF TypeOK
  <2>2. n \in Nat /\ r.failures \in Nat
    BY <2>1 DEF PairedPeer
  <2>3. issued \in Nat /\ 1 .. issued \subseteq Token
    BY PairingAssumption DEF TypeOK, Token
  <2>. QED
    BY <2>1, <2>2, <2>3, PairedPeersAssumption DEF TypeOK, Hint
<1>1. CASE Accepts(r, code, src, t)
  <2>1. /\ r.known /\ ~r.confirmed /\ r.code # NoCode /\ r.ip \in {NoAddr, src}
        /\ n \in 1 .. issued /\ offers[n].by = d /\ offers[n].for = p
        /\ accepts[n] = 0 /\ offers[n].hint = r.ip
        /\ misses[n] < PairCodeMaxFailures
    BY <1>1 DEF Accepts, Pending, SourceMatches, RecordsInv, PendingBacked, OfferKept
  <2>2. accepts' = [accepts EXCEPT ![n] = 1] /\ misses' = misses
    BY <1>0, <1>1, <2>1
  <2>3. /\ peers'[d][p] = Confirmed(r, src)
        /\ \A c, q \in Device : c # d \/ q # p => peers'[c][q] = peers[c][q]
    <3>1. AfterAttempt(r, code, src, t) = Confirmed(r, src)
      BY <1>1 DEF AfterAttempt
    <3>2. peers' = Written(d, p, Confirmed(r, src))
      BY <3>1
    <3>. QED
      BY <3>2, OtherRecords
  <2>4. /\ Confirmed(r, src).confirmed /\ Confirmed(r, src).token = n
        /\ Confirmed(r, src).ip = src /\ Confirmed(r, src).code = NoCode
        /\ Confirmed(r, src).known
    BY <1>0, <2>1 DEF Confirmed, PairedPeer
  <2>5. \A k \in Token : accepts'[k] = IF k = n THEN 1 ELSE accepts[k]
    BY <1>0, <2>2
  <2>. HIDE DEF r, n
  <2>6. offers' = offers /\ issued' = issued
    OBVIOUS
  <2>7. PendingBacked'
    <3>1. ASSUME NEW c \in Device, NEW q \in Device, c # d \/ q # p
          PROVE  OfferKept(c, q)'
      <4>1. OfferKept(c, q)
        BY DEF RecordsInv, PendingBacked
      <4>2. ASSUME peers[c][q].code # NoCode
            PROVE  accepts'[peers[c][q].token] = accepts[peers[c][q].token]
        <5>1. /\ peers[c][q].token \in 1 .. issued
              /\ offers[peers[c][q].token].by = c
              /\ offers[peers[c][q].token].for = q
          BY <4>1, <4>2 DEF OfferKept
        <5>2. peers[c][q].token # n /\ peers[c][q].token \in Token
          BY <1>0, <2>1, <3>1, <5>1
        <5>. QED
          BY <2>5, <5>2
      <4>. QED
        BY <2>2, <2>3, <2>6, <3>1, <4>1, <4>2, SameRecord
    <3>2. OfferKept(d, p)'
      BY <2>3, <2>4 DEF OfferKept
    <3>. QED
      BY <3>1, <3>2 DEF PendingBacked
  <2>8. ConsentBacked' /\ SourceBound'
    <3>1. ASSUME NEW c \in Device, NEW q \in Device, c # d \/ q # p
          PROVE  PairBacked(c, q)' /\ PairBound(c, q)'
      <4>1. PairBacked(c, q) /\ PairBound(c, q)
        BY ByPair DEF RecordsInv
      <4>2. peers[c][q].confirmed /\ accepts[peers[c][q].token] > 0 =>
              accepts'[peers[c][q].token] > 0
        BY <1>0, <2>5, <4>1 DEF PairBacked
      <4>. QED
        <5>1. PairBound(c, q)'
          BY <2>3, <2>6, <3>1, <4>1, SameRecord
        <5>2. PairBacked(c, q)'
          BY <2>3, <2>6, <3>1, <4>1, <4>2 DEF PairBacked
        <5>. QED
          BY <5>1, <5>2
    <3>2. ASSUME NEW c \in Device, NEW q \in Device, c = d, q = p
          PROVE  PairBacked(c, q)' /\ PairBound(c, q)'
      <4>1. PairBacked(c, q)'
        <5>1. peers'[c][q].token = n
          BY <2>3, <2>4, <3>2
        <5>2. n \in 1 .. issued' /\ accepts'[n] > 0
          BY <1>0, <2>1, <2>5, <2>6
        <5>3. \/ offers'[n].by = c /\ offers'[n].for = q
              \/ offers'[n].by = q /\ offers'[n].for = c
          BY <1>0, <2>1, <2>6, <3>2
        <5>. QED
          BY <5>1, <5>2, <5>3 DEF PairBacked
      <4>2. PairBound(c, q)'
        BY <1>0, <2>1, <2>3, <2>4, <2>6, <3>2 DEF PairBound, Hint
      <4>. QED
        BY <4>1, <4>2
    <3>3. \A c, q \in Device : PairBacked(c, q)' /\ PairBound(c, q)'
      BY <3>1, <3>2
    <3>. QED
      BY <3>3, AllPairs
  <2>9. OneTimeCode' /\ GuessBudget' /\ FreshTokens'
    BY <1>0, <2>1, <2>2, <2>5 DEF RecordsInv, OneTimeCode, GuessBudget, FreshTokens
  <2>. QED
    BY <2>5, <2>7, <2>8, <2>9 DEF RecordsInv
<1>2. CASE ~Accepts(r, code, src, t) /\ Pending(r, t)
  <2>1. /\ r.known /\ ~r.confirmed /\ r.code # NoCode
        /\ n \in 1 .. issued /\ offers[n].by = d /\ offers[n].for = p
        /\ accepts[n] = 0 /\ offers[n].hint = r.ip /\ offers[n].code = r.code
        /\ offers[n].expires = r.expires
        /\ misses[n] = r.failures /\ r.failures < PairCodeMaxFailures
        /\ \A j \in n + 1 .. issued : ~(offers[j].by = d /\ offers[j].for = p)
    BY <1>2 DEF Pending, RecordsInv, PendingBacked, OfferKept
  <2>2. misses' = [misses EXCEPT ![n] = r.failures + 1] /\ accepts' = accepts
    BY <1>0, <1>2, <2>1
  <2>3. /\ peers'[d][p] = Missed(r)
        /\ \A c, q \in Device : c # d \/ q # p => peers'[c][q] = peers[c][q]
    <3>1. AfterAttempt(r, code, src, t) = Missed(r)
      BY <1>2 DEF AfterAttempt
    <3>2. peers' = Written(d, p, Missed(r))
      BY <3>1
    <3>. QED
      BY <3>2, OtherRecords
  <2>4. /\ Missed(r).known /\ ~Missed(r).confirmed /\ Missed(r).token = n
        /\ Missed(r).code # NoCode =>
             /\ Missed(r).code = r.code /\ Missed(r).ip = r.ip
             /\ Missed(r).expires = r.expires
             /\ Missed(r).failures = r.failures + 1
             /\ r.failures + 1 < PairCodeMaxFailures
    BY <1>0, <2>1, PairedPeersAssumption DEF Missed, PairedPeer
  <2>5. \A k \in Token : misses'[k] = IF k = n THEN r.failures + 1 ELSE misses[k]
    BY <1>0, <2>2
  <2>. HIDE DEF r, n
  <2>6. PendingBacked'
    <3>1. ASSUME NEW c \in Device, NEW q \in Device, c # d \/ q # p,
                 peers[c][q].code # NoCode
          PROVE  misses'[peers[c][q].token] = misses[peers[c][q].token]
      <4>1. /\ peers[c][q].token \in 1 .. issued
            /\ offers[peers[c][q].token].by = c
            /\ offers[peers[c][q].token].for = q
        BY <3>1 DEF RecordsInv, PendingBacked, OfferKept
      <4>. QED
        BY <1>0, <2>1, <2>5, <3>1, <4>1
    <3>2. ASSUME NEW c \in Device, NEW q \in Device, c # d \/ q # p
          PROVE  OfferKept(c, q)'
      <4>1. OfferKept(c, q)
        BY DEF RecordsInv, PendingBacked
      <4>. QED
        BY <2>2, <2>3, <3>1, <3>2, <4>1, SameRecord
    <3>3. OfferKept(d, p)'
      BY <1>0, <2>1, <2>2, <2>3, <2>4, <2>5 DEF OfferKept
    <3>. QED
      BY <3>2, <3>3 DEF PendingBacked
  <2>8. ConsentBacked' /\ SourceBound'
    <3>1. ASSUME NEW c \in Device, NEW q \in Device
          PROVE  PairBacked(c, q)' /\ PairBound(c, q)'
      <4>1. CASE c = d /\ q = p
        BY <2>3, <2>4, <4>1 DEF PairBacked, PairBound
      <4>2. CASE c # d \/ q # p
        <5>1. PairBacked(c, q) /\ PairBound(c, q)
          BY ByPair DEF RecordsInv
        <5>. QED
          BY <2>2, <2>3, <4>2, <5>1, SameRecord
      <4>. QED
        BY <4>1, <4>2
    <3>. QED
      BY <3>1, AllPairs
  <2>9. OneTimeCode' /\ GuessBudget' /\ FreshTokens'
    BY <1>0, <2>1, <2>2, <2>5, PairedPeersAssumption
       DEF RecordsInv, OneTimeCode, GuessBudget, FreshTokens
  <2>. QED
    BY <2>2, <2>6, <2>8, <2>9 DEF RecordsInv
<1>3. CASE ~Accepts(r, code, src, t) /\ ~Pending(r, t)
  <2>1. UNCHANGED <<peers, history>>
    <3>1. peers' = Written(d, p, peers[d][p])
      BY <1>3 DEF AfterAttempt
    <3>. QED
      BY <1>3, <3>1 DEF TypeOK, Written, history
  <2>. QED
    BY <2>1, QuietRecords DEF history
<1>. QED
  BY <1>1, <1>2, <1>3

\* What CompleteRemotePairing does, for the exchange x and the clock value t
\* its handler read.
AttemptAt(x, t) ==
  LET e  == ex[x]
      r  == peers[e.to][e.from]
      ok == Accepts(r, e.code, e.src, t)
  IN  /\ peers' = Written(e.to, e.from, AfterAttempt(r, e.code, e.src, t))
      /\ ex' = [ex EXCEPT ![x].phase = IF ok THEN "paired" ELSE "failed",
                          ![x].token = IF ok THEN r.token ELSE 0]
      /\ accepts' = IF ok THEN [accepts EXCEPT ![r.token] = @ + 1] ELSE accepts
      /\ misses' = IF ~ok /\ Pending(r, t)
                   THEN [misses EXCEPT ![r.token] = @ + 1] ELSE misses

LEMMA AttemptStep ==
  ASSUME IInv, NEW x \in Exchange, CompleteRemotePairing(x)
  PROVE  /\ \E t \in ex[x].t0 .. now : t \in Nat /\ AttemptAt(x, t)
         /\ ex[x].to \in Device /\ ex[x].from \in Device /\ ex[x].code \in Code
         /\ ex[x].src \in Addr /\ ex[x].t0 \in Nat
         /\ ex[x].from # ex[x].to
         /\ UNCHANGED <<issued, offers>>
<1>1. /\ ex[x].to \in Device /\ ex[x].from \in Device
      /\ ex[x].code \in Code /\ ex[x].t0 \in Nat
  BY UnderwayType DEF CompleteRemotePairing, Underway, IInv
<1>2. ex[x].src \in Addr /\ ex[x].from # ex[x].to
  BY DEF CompleteRemotePairing, IInv, AnswersBacked
<1>3. \A t \in ex[x].t0 .. now : t \in Nat
  BY <1>1 DEF IInv, TypeOK
<1>4. \E t \in ex[x].t0 .. now : AttemptAt(x, t)
  BY DEF CompleteRemotePairing, AttemptAt
<1>. QED
  BY <1>1, <1>2, <1>3, <1>4 DEF CompleteRemotePairing

LEMMA AttemptOutcome ==
  ASSUME IInv, NEW x \in Exchange, CompleteRemotePairing(x)
  PROVE  RecordsInv' /\ AnswersBacked'
<1>1. PICK t \in ex[x].t0 .. now : t \in Nat /\ AttemptAt(x, t)
  BY AttemptStep
<1>. DEFINE r  == peers[ex[x].to][ex[x].from]
            ok == Accepts(r, ex[x].code, ex[x].src, t)
<1>2. RecordsInv' /\ \A k \in Token : accepts[k] > 0 => accepts'[k] > 0
  BY <1>1, AttemptStep, AttemptRecords DEF AttemptAt, IInv
<1>3. UNCHANGED <<issued, offers>> /\ 1 .. issued \subseteq Token
  BY AttemptStep, PairingAssumption DEF IInv, TypeOK, Token
<1>4. ASSUME NEW y \in Exchange, y # x PROVE ex'[y] = ex[y]
  BY <1>1, <1>4 DEF AttemptAt, IInv, TypeOK
<1>5. /\ ex'[x].phase \in {"paired", "failed"}
      /\ ex'[x].phase = "paired" => ok /\ ex'[x].token = r.token
      /\ ex'[x].src = ex[x].src /\ ex'[x].from = ex[x].from /\ ex'[x].to = ex[x].to
  <2>1. ex[x] \in Underway
    BY UnderwayType DEF IInv, CompleteRemotePairing
  <2>2. ex' = [ex EXCEPT ![x] = [ex[x] EXCEPT !.phase = IF ok THEN "paired" ELSE "failed",
                                              !.token = IF ok THEN r.token ELSE 0]]
    BY <1>1 DEF AttemptAt
  <2>3. ex'[x] = [ex[x] EXCEPT !.phase = IF ok THEN "paired" ELSE "failed",
                               !.token = IF ok THEN r.token ELSE 0]
    BY <2>2 DEF IInv, TypeOK
  <2>. HIDE DEF ok, r
  <2>. QED
    BY <2>1, <2>3 DEF Underway
<1>6. ok => /\ r.token \in 1 .. issued
            /\ offers[r.token].by = ex[x].to
            /\ offers[r.token].for = ex[x].from
            /\ accepts'[r.token] > 0
  <2>1. SUFFICES ASSUME ok
                 PROVE  /\ r.token \in 1 .. issued
                        /\ offers[r.token].by = ex[x].to
                        /\ offers[r.token].for = ex[x].from
                        /\ accepts'[r.token] > 0
    OBVIOUS
  <2>2. /\ r.token \in 1 .. issued /\ offers[r.token].by = ex[x].to
        /\ offers[r.token].for = ex[x].from /\ accepts[r.token] = 0
    <3>1. OfferKept(ex[x].to, ex[x].from)
      BY AttemptStep DEF IInv, RecordsInv, PendingBacked
    <3>2. r.known /\ ~r.confirmed /\ r.code # NoCode
      BY <2>1 DEF Accepts, Pending
    <3>. QED
      BY <3>1, <3>2 DEF OfferKept
  <2>3. accepts' = [accepts EXCEPT ![r.token] = @ + 1]
    BY <1>1, <2>1 DEF AttemptAt
  <2>. HIDE DEF r, ok
  <2>. QED
    BY <1>3, <2>2, <2>3 DEF IInv, TypeOK
<1>7. AnswersBacked'
  <2>. SUFFICES ASSUME NEW y \in Exchange
                PROVE  /\ ex'[y].phase # "idle" => ex'[y].from # ex'[y].to
                       /\ ex'[y].phase \notin {"idle", "sent"} => ex'[y].src \in Addr
                       /\ ex'[y].phase \in {"paired", "answered"} =>
                            LET k == ex'[y].token
                            IN  /\ k \in 1 .. issued
                                /\ accepts'[k] > 0
                                /\ offers[k].by = ex'[y].to
                                /\ offers[k].for = ex'[y].from
    BY <1>3 DEF AnswersBacked
  <2>. HIDE DEF r, ok
  <2>1. CASE y = x
    BY <1>5, <1>6, <2>1, AttemptStep
  <2>2. CASE y # x
    BY <1>2, <1>3, <1>4, <2>2 DEF IInv, AnswersBacked
  <2>. QED
    BY <2>1, <2>2
<1>. QED
  BY <1>2, <1>7

LEMMA StoreOutcome ==
  ASSUME IInv, NEW x \in Exchange, StoreCompletedPairing(x)
  PROVE  RecordsInv' /\ AnswersBacked'
<1>. DEFINE d == ex[x].from
            p == ex[x].want
            k == ex[x].token
            r == AdoptedPeer(k, ex[x].dial)
<1>1. ex[x] \in Underway
  BY UnderwayType DEF IInv, StoreCompletedPairing
<1>2. /\ d \in Device /\ p \in Device /\ ex[x].to = p /\ d # p
      /\ k \in 1 .. issued /\ accepts[k] > 0 /\ offers[k].by = p /\ offers[k].for = d
  BY <1>1 DEF IInv, AnswersBacked, StoreCompletedPairing, Underway
<1>3. r.confirmed /\ r.token = k /\ r.code = NoCode /\ r.known
  BY DEF AdoptedPeer, AddedPeer, NoPeer
<1>4. peers' = Written(d, p, r) /\ UNCHANGED history
  BY DEF StoreCompletedPairing
<1>. HIDE DEF r
<1>5. /\ peers'[d][p] = r
      /\ \A c, q \in Device : c # d \/ q # p => peers'[c][q] = peers[c][q]
  BY <1>2, <1>4, OtherRecords DEF IInv
<1>6. PendingBacked'
  <2>1. ASSUME NEW c \in Device, NEW q \in Device PROVE OfferKept(c, q)'
    <3>1. CASE c = d /\ q = p
      BY <1>3, <1>5, <3>1 DEF OfferKept
    <3>2. CASE c # d \/ q # p
      <4>1. OfferKept(c, q)
        BY DEF IInv, RecordsInv, PendingBacked
      <4>. QED
        BY <1>4, <1>5, <3>2, <4>1, SameRecord DEF history
    <3>. QED
      BY <3>1, <3>2
  <2>. QED
    BY <2>1 DEF PendingBacked
<1>7. ConsentBacked' /\ SourceBound'
  <2>1. ASSUME NEW c \in Device, NEW q \in Device
        PROVE  PairBacked(c, q)' /\ PairBound(c, q)'
    <3>1. CASE c = d /\ q = p
      <4>0. /\ peers'[c][q].token = k
            /\ offers' = offers /\ accepts' = accepts /\ issued' = issued
        BY <1>3, <1>4, <1>5, <3>1 DEF history
      <4>1. PairBacked(c, q)'
        BY <1>2, <3>1, <4>0 DEF PairBacked
      <4>2. PairBound(c, q)'
        BY <1>2, <3>1, <4>0 DEF PairBound
      <4>. QED
        BY <4>1, <4>2
    <3>2. CASE c # d \/ q # p
      <4>1. PairBacked(c, q) /\ PairBound(c, q)
        BY ByPair DEF IInv, RecordsInv
      <4>. QED
        BY <1>4, <1>5, <3>2, <4>1, SameRecord DEF history
    <3>. QED
      BY <3>1, <3>2
  <2>. QED
    BY <2>1, AllPairs
<1>9. OneTimeCode' /\ GuessBudget' /\ FreshTokens'
  BY <1>4 DEF IInv, RecordsInv, OneTimeCode, GuessBudget, FreshTokens, history
<1>10. AnswersBacked'
  BY <1>4 DEF IInv, TypeOK, AnswersBacked, StoreCompletedPairing, history, Idle
<1>. QED
  BY <1>6, <1>7, <1>9, <1>10 DEF RecordsInv

\* --pair-peer and --trust-peer.
LEMMA DrawOutcome ==
  ASSUME IInv, NEW d \in Device, NEW p \in Device,
         BeginLocalPairing(d, p) \/ AddPairedPeer(d, p)
  PROVE  RecordsInv' /\ AnswersBacked'
<1>. USE DEF IInv
<1>1. PICK code \in Code \cup {NoCode}, hint \in Hint, expires \in Nat, r \in PairedPeer :
        /\ Draw(d, p, code, hint, expires)
        /\ peers' = Written(d, p, r)
        /\ r.known /\ ~r.confirmed /\ r.token = issued + 1
        /\ r.code = code /\ r.ip = hint /\ r.expires = expires /\ r.failures = 0
  <2>1. CASE BeginLocalPairing(d, p)
    <3>1. PICK code \in Code, hint \in HintGiven :
            /\ Draw(d, p, code, hint, now + PairCodeTtl)
            /\ peers' = Written(d, p, OfferedPeer(issued + 1, code, hint, now))
      BY <2>1 DEF BeginLocalPairing
    <3>2. /\ now \in Nat /\ now + PairCodeTtl \in Nat /\ hint \in Hint
          /\ issued + 1 \in Nat
      BY PairedPeersAssumption, PairingAssumption DEF TypeOK
    <3>3. OfferedPeer(issued + 1, code, hint, now) \in PairedPeer
      BY <3>2, OfferedType
    <3>. QED
      BY <3>1, <3>2, <3>3 DEF OfferedPeer, AddedPeer, NoPeer
  <2>2. CASE AddPairedPeer(d, p)
    <3>1. PICK hint \in HintGiven :
            /\ Draw(d, p, NoCode, hint, 0)
            /\ peers' = Written(d, p, AddedPeer(issued + 1, hint))
      BY <2>2 DEF AddPairedPeer
    <3>2. hint \in Hint /\ issued + 1 \in Nat
      BY PairingAssumption DEF TypeOK
    <3>3. AddedPeer(issued + 1, hint) \in PairedPeer
      BY <3>2, AddedType
    <3>. QED
      BY <3>1, <3>2, <3>3 DEF AddedPeer, NoPeer
  <2>. QED
    BY <2>1, <2>2
<1>2. RecordsInv'
  BY <1>1, DrawRecords
<1>3. /\ issued \in Nat /\ issued' = issued + 1
      /\ \A k \in 1 .. issued : offers'[k] = offers[k]
      /\ accepts' = accepts
  <2>1. issued \in Nat
    BY DEF TypeOK
  <2>. QED
    BY <1>1, <2>1, DrawStep
<1>4. AnswersBacked'
  BY <1>3 DEF AnswersBacked, BeginLocalPairing, AddPairedPeer
<1>. QED
  BY <1>2, <1>4

\* The steps of an exchange that touch no file, and the environment.
LEMMA QuietOutcome ==
  ASSUME IInv,
         \/ \E d \in Responder : SetVisibility(d) \/ Restart(d)
         \/ \E d \in Mobile : Renumber(d)
         \/ \E x \in Exchange, i, p \in Device : CompletePair(x, i, p) \/ PostThroughTunnel(x, i, p)
         \/ \E x \in Exchange :
              TurnAway(x) \/ Admit(x) \/ StorageFails(x) \/ RecordAttempt(x) \/ GiveUp(x)
         \/ Tick
         \/ UNCHANGED vars
  PROVE  RecordsInv' /\ AnswersBacked'
<1>. USE DEF IInv
<1>1. RecordsInv' /\ UNCHANGED history
  <2>1. UNCHANGED <<peers, history>>
    BY DEF SetVisibility, Restart, Renumber, CompletePair, PostThroughTunnel, TurnAway,
           Admit, StorageFails, RecordAttempt, GiveUp, Tick, vars
  <2>. QED
    BY <2>1, QuietRecords
<1>2. CASE UNCHANGED ex
  BY <1>1, <1>2 DEF AnswersBacked, history
<1>3. ASSUME NEW x \in Exchange, NEW i \in Device, NEW p \in Device,
             CompletePair(x, i, p) \/ PostThroughTunnel(x, i, p)
      PROVE  AnswersBacked'
  <2>1. /\ ex'[x].phase = "sent"
        /\ ex'[x].from # ex'[x].to
        /\ \A y \in Exchange \ {x} : ex'[y] = ex[y]
    <3>1. CASE CompletePair(x, i, p)
      BY <3>1 DEF CompletePair, TypeOK
    <3>2. CASE PostThroughTunnel(x, i, p)
      BY <3>2 DEF PostThroughTunnel, TypeOK
    <3>. QED
      BY <1>3, <3>1, <3>2
  <2>. QED
    BY <1>1, <2>1 DEF AnswersBacked, history
<1>4. ASSUME NEW x \in Exchange, TurnAway(x) \/ GiveUp(x) PROVE AnswersBacked'
  BY <1>1, <1>4 DEF AnswersBacked, TypeOK, TurnAway, GiveUp, Idle, history
<1>5. ASSUME NEW x \in Exchange, Admit(x) \/ StorageFails(x) \/ RecordAttempt(x)
      PROVE  AnswersBacked'
  <2>1. ex[x] \in Underway
    BY <1>5, UnderwayType DEF Admit, StorageFails, RecordAttempt
  <2>2. CASE Admit(x)
    <3>1. ex' = [ex EXCEPT ![x] = [ex[x] EXCEPT !.phase = "admitted", !.t0 = now]]
      BY <2>2 DEF Admit
    <3>2. ex[x].src \in Addr
      BY <2>1, <2>2 DEF Admit, Underway
    <3>3. /\ \A y \in Exchange \ {x} : ex'[y] = ex[y]
          /\ ex'[x] = [ex[x] EXCEPT !.phase = "admitted", !.t0 = now]
      BY <3>1 DEF TypeOK
    <3>4. /\ ex'[x].phase = "admitted" /\ ex'[x].src = ex[x].src
          /\ ex'[x].from = ex[x].from /\ ex'[x].to = ex[x].to
      BY <2>1, <3>3 DEF Underway
    <3>5. ex[x].from # ex[x].to
      BY <2>2 DEF AnswersBacked, Admit
    <3>. SUFFICES ASSUME NEW y \in Exchange \ {x}
                  PROVE  (/\ ex[y].phase # "idle" => ex[y].from # ex[y].to
                          /\ ex[y].phase \notin {"idle", "sent"} => ex[y].src \in Addr
                          /\ ex[y].phase \in {"paired", "answered"} =>
                               /\ ex[y].token \in 1 .. issued
                               /\ accepts[ex[y].token] > 0
                               /\ offers[ex[y].token].by = ex[y].to
                               /\ offers[ex[y].token].for = ex[y].from)'
      BY <3>2, <3>4, <3>5 DEF AnswersBacked
    <3>6. UNCHANGED <<issued, accepts, offers>>
      BY <1>1 DEF history
    <3>. QED
      BY <3>3, <3>6 DEF AnswersBacked
  <2>3. CASE StorageFails(x)
    BY <1>1, <2>1, <2>3 DEF AnswersBacked, TypeOK, Underway, StorageFails, Moved, history
  <2>4. CASE RecordAttempt(x)
    BY <1>1, <2>1, <2>4 DEF AnswersBacked, TypeOK, Underway, RecordAttempt, Moved, Idle, history
  <2>. QED
    BY <1>5, <2>2, <2>3, <2>4
<1>6. ASSUME NEW d \in Responder, Restart(d) PROVE AnswersBacked'
  <2>1. \A x \in Exchange : ex'[x] = Idle \/ ex'[x] = ex[x]
    BY <1>6 DEF Restart
  <2>. QED
    BY <1>1, <2>1 DEF AnswersBacked, Idle, history
<1>. QED
  BY <1>1, <1>2, <1>3, <1>4, <1>5, <1>6 DEF SetVisibility, Renumber, Tick, vars

LEMMA StepInv == IInv /\ [Next]_vars => IInv'
<1>. SUFFICES ASSUME IInv, [Next]_vars PROVE RecordsInv' /\ AnswersBacked'
  BY TypeStep DEF IInv
<1>. QED
  BY DrawOutcome, QuietOutcome, AttemptOutcome, StoreOutcome DEF Next

LEMMA Invariant == Spec => []IInv
<1>1. Init => IInv
  BY InitType, InitRecords DEF IInv
<1>. QED
  BY <1>1, StepInv, PTL DEF Spec

----------------------------------------------------------------------------
(* What users rely on.                                                     *)

\* Nobody becomes a confirmed peer except through a code that was offered
\* by one of the two devices to the other and accepted there.
THEOREM Consented == Spec => []ConsentBacked
  BY Invariant, PTL DEF IInv, RecordsInv

\* A code pairs one device once, however its uses are interleaved.
THEOREM CodesAreOneTime == Spec => []OneTimeCode
  BY Invariant, PTL DEF IInv, RecordsInv

\* No code can be tried more often than PAIR_CODE_MAX_FAILURES.
THEOREM GuessesAreBounded == Spec => []GuessBudget
  BY Invariant, PTL DEF IInv, RecordsInv

\* The stored address is the observed source, within the user's hint.
THEOREM SourcesAreBound == Spec => []SourceBound
  BY Invariant, PTL DEF IInv, RecordsInv

----------------------------------------------------------------------------
(* What a step may not do.                                                 *)

\* A code is accepted only for an exchange that presents it, that was let in
\* before it expired, and while it is the latest one for that device.
THEOREM AcceptancesAreEarned == Spec => AcceptanceEarned
<1>. DEFINE Earned ==
       \A k \in 1 .. issued : accepts'[k] # accepts[k] =>
         \E x \in Exchange :
           /\ ex[x].phase = "admitted"
           /\ ex[x].to = offers[k].by
           /\ ex[x].from = offers[k].for
           /\ ex[x].code = offers[k].code
           /\ ex[x].t0 <= offers[k].expires
           /\ \A j \in k + 1 .. issued :
                ~(offers[j].by = offers[k].by /\ offers[j].for = offers[k].for)
<1>1. ASSUME IInv, Next PROVE Earned
  <2>. SUFFICES ASSUME NEW k \in 1 .. issued, accepts'[k] # accepts[k]
                PROVE  Earned
    OBVIOUS
  <2>1. PICK x \in Exchange : CompleteRemotePairing(x)
    BY <1>1 DEF Next, BeginLocalPairing, AddPairedPeer, Draw, SetVisibility, Restart, Renumber,
           CompletePair, PostThroughTunnel, TurnAway, Admit, StorageFails, RecordAttempt,
           StoreCompletedPairing, GiveUp, Tick, history
  <2>2. PICK t \in ex[x].t0 .. now : t \in Nat /\ AttemptAt(x, t)
    BY <1>1, <2>1, AttemptStep
  <2>. DEFINE r == peers[ex[x].to][ex[x].from]
  <2>3. /\ ex[x].to \in Device /\ ex[x].from \in Device /\ ex[x].t0 \in Nat
    BY <1>1, <2>1, AttemptStep
  <2>4. /\ Accepts(r, ex[x].code, ex[x].src, t)
        /\ accepts' = [accepts EXCEPT ![r.token] = @ + 1]
    BY <2>2 DEF AttemptAt
  <2>5. k = r.token
    <3>1. accepts \in [Token -> Nat] /\ k \in Token
      BY <1>1, PairingAssumption DEF IInv, TypeOK, Token
    <3>. HIDE DEF r
    <3>. QED
      BY <2>4, <3>1
  <2>6. /\ OfferKept(ex[x].to, ex[x].from)
        /\ r.known /\ ~r.confirmed /\ r.code # NoCode /\ t <= r.expires
        /\ r.code = ex[x].code
    BY <1>1, <2>3, <2>4 DEF IInv, RecordsInv, PendingBacked, Accepts, Pending
  <2>7. /\ offers[k].by = ex[x].to /\ offers[k].for = ex[x].from
        /\ offers[k].code = ex[x].code
        /\ \A j \in k + 1 .. issued :
             ~(offers[j].by = offers[k].by /\ offers[j].for = offers[k].for)
    BY <2>5, <2>6 DEF OfferKept
  <2>8. ex[x].t0 <= offers[k].expires
    <3>0. r \in PairedPeer
      BY <1>1, <2>3 DEF IInv, TypeOK
    <3>1. offers[k].expires = r.expires /\ r.expires \in Nat
      <4>1. offers[k].expires = r.expires
        BY <2>5, <2>6 DEF OfferKept
      <4>2. r.expires \in Nat
        <5>. HIDE DEF r
        <5>. QED
          BY <3>0 DEF PairedPeer
      <4>. QED
        BY <4>1, <4>2
    <3>2. ex[x].t0 <= t /\ t <= r.expires
      BY <1>1, <2>2, <2>3, <2>6 DEF IInv, TypeOK
    <3>. QED
      BY <2>2, <2>3, <3>1, <3>2
  <2>9. ex[x].phase = "admitted"
    BY <2>1 DEF CompleteRemotePairing
  <2>10. \A l \in 1 .. issued : accepts'[l] # accepts[l] => l = k
    <3>. HIDE DEF r
    <3>. QED
      BY <2>4, <2>5
  <2>. QED
    BY <2>7, <2>8, <2>9, <2>10
<1>. QED
  BY <1>1, Invariant, PTL DEF Spec, AcceptanceEarned

\* No remote device creates a record, changes a token or takes a
\* confirmation back.
THEOREM OnlyLocalUsersRekey == Spec => KeyedByLocalUser
<1>. DEFINE Changed(d, p) ==
       \/ peers'[d][p].known # peers[d][p].known
       \/ peers'[d][p].token # peers[d][p].token
       \/ peers[d][p].confirmed /\ ~peers'[d][p].confirmed
<1>1. ASSUME IInv, Next, NEW d \in Device, NEW p \in Device, Changed(d, p)
      PROVE  DrawnBy(d, p) \/ AnsweredTo(d, p)
  <2>0. \/ \E c, q \in Device : BeginLocalPairing(c, q) \/ AddPairedPeer(c, q)
        \/ \E x \in Exchange : CompleteRemotePairing(x) \/ StoreCompletedPairing(x)
    BY <1>1 DEF Next, SetVisibility, Restart, Renumber, CompletePair, PostThroughTunnel,
           TurnAway, Admit, StorageFails, RecordAttempt, GiveUp, Tick
  <2>1. ASSUME NEW c \in Device, NEW q \in Device,
               BeginLocalPairing(c, q) \/ AddPairedPeer(c, q)
        PROVE  DrawnBy(d, p)
    <3>1. PICK r, code, hint, expires :
            /\ peers' = Written(c, q, r)
            /\ r.token = issued + 1
            /\ Draw(c, q, code, hint, expires)
      <4>1. \A code, hint :
              /\ OfferedPeer(issued + 1, code, hint, now).token = issued + 1
              /\ AddedPeer(issued + 1, hint).token = issued + 1
        BY DEF OfferedPeer, AddedPeer, NoPeer
      <4>2. CASE BeginLocalPairing(c, q)
        <5>1. PICK code \in Code, hint \in HintGiven :
                /\ Draw(c, q, code, hint, now + PairCodeTtl)
                /\ peers' = Written(c, q, OfferedPeer(issued + 1, code, hint, now))
          BY <4>2 DEF BeginLocalPairing
        <5>. WITNESS OfferedPeer(issued + 1, code, hint, now), code, hint, now + PairCodeTtl
        <5>. QED
          BY <4>1, <5>1
      <4>3. CASE AddPairedPeer(c, q)
        BY <4>1, <4>3 DEF AddPairedPeer
      <4>. QED
        BY <2>1, <4>2, <4>3
    <3>2. /\ c = d /\ q = p /\ peers'[d][p] = r
      BY <1>1, <3>1 DEF IInv, TypeOK, Written
    <3>3. /\ issued' = issued + 1 /\ issued \in Nat
          /\ offers'[issued + 1] = [by |-> c, for |-> q, code |-> code, hint |-> hint,
                                    expires |-> expires]
      BY <1>1, <3>1, PairingAssumption DEF Draw, IInv, TypeOK
    <3>. QED
      BY <3>1, <3>2, <3>3 DEF DrawnBy
  <2>2. ASSUME NEW x \in Exchange, CompleteRemotePairing(x) PROVE FALSE
    <3>1. PICK t \in ex[x].t0 .. now : t \in Nat /\ AttemptAt(x, t)
      BY <1>1, <2>2, AttemptStep
    <3>. DEFINE r == peers[ex[x].to][ex[x].from]
                s == AfterAttempt(r, ex[x].code, ex[x].src, t)
    <3>2. /\ ex[x].to \in Device /\ ex[x].from \in Device
          /\ peers' = Written(ex[x].to, ex[x].from, s)
      BY <1>1, <2>2, <3>1, AttemptStep DEF AttemptAt
    <3>3. r \in PairedPeer
      BY <1>1, <3>2 DEF IInv, TypeOK
    <3>4. s.known = r.known /\ s.token = r.token /\ (r.confirmed => s.confirmed)
      BY <3>3 DEF AfterAttempt, Confirmed, Missed, Accepts, Pending, PairedPeer
    <3>. HIDE DEF s
    <3>5. /\ peers'[ex[x].to][ex[x].from] = s
          /\ \A c, q \in Device : c # ex[x].to \/ q # ex[x].from => peers'[c][q] = peers[c][q]
      BY <1>1, <3>2, OtherRecords DEF IInv
    <3>. QED
      BY <1>1, <3>4, <3>5
  <2>3. ASSUME NEW x \in Exchange, StoreCompletedPairing(x) PROVE AnsweredTo(d, p)
    <3>1. /\ ex[x].from \in Device /\ ex[x].want \in Device
      BY <1>1, <2>3, UnderwayType DEF IInv, StoreCompletedPairing, Underway
    <3>. DEFINE s == AdoptedPeer(ex[x].token, ex[x].dial)
    <3>2. s.token = ex[x].token
      BY DEF AdoptedPeer, AddedPeer, NoPeer
    <3>. HIDE DEF s
    <3>3. peers' = Written(ex[x].from, ex[x].want, s)
      BY <2>3 DEF StoreCompletedPairing, s
    <3>4. ex[x].from = d /\ ex[x].want = p /\ peers'[d][p] = s
      BY <1>1, <3>1, <3>3 DEF IInv, TypeOK, Written
    <3>. QED
      BY <2>3, <3>2, <3>4 DEF AnsweredTo, StoreCompletedPairing
  <2>. QED
    BY <2>0, <2>1, <2>2, <2>3
<1>. HIDE DEF Changed
<1>2. IInv /\ Next =>
        \A d, p \in Device : Changed(d, p) => DrawnBy(d, p) \/ AnsweredTo(d, p)
  BY <1>1
<1>. USE DEF Changed
<1>. QED
  BY <1>2, Invariant, PTL DEF Spec, KeyedByLocalUser

----------------------------------------------------------------------------
(* Pairing implements PairingConsent: under the mapping of Pairing, every  *)
(* step of records, requests and clocks is a step of the consent protocol  *)
(* or leaves it as it is.                                                  *)

\* The mapped state, by name.
DrawnOf == [k \in 1 .. issued |-> <<offers[k].by, offers[k].for>>]
TakenOf == {k \in 1 .. issued : accepts[k] > 0}
Link(r) == IF r.confirmed THEN r.token ELSE 0
LinkOf == [d \in Device |-> [p \in Device |-> Link(peers[d][p])]]

Linked(d, p, k) == [LinkOf EXCEPT ![d][p] = k]

LEMMA StutterIs ==
  ASSUME UNCHANGED <<DrawnOf, OpenOffers, TakenOf, LinkOf>>
  PROVE  UNCHANGED Consent!vars
  BY DEF Consent!vars, DrawnOf, TakenOf, LinkOf, Link

LEMMA InitMaps == Init => Consent!Init
<1>. SUFFICES ASSUME Init PROVE Consent!Init
  OBVIOUS
<1>1. 1 .. issued = {} /\ \A d, p \in Device : ~peers[d][p].confirmed
  BY DEF Init, NoPeer
<1>2. [k \in 1 .. issued |-> <<offers[k].by, offers[k].for>>] = << >>
  BY <1>1
<1>3. OpenOffers = {} /\ {k \in 1 .. issued : accepts[k] > 0} = {}
  BY <1>1 DEF OpenOffers
<1>. QED
  BY <1>1, <1>2, <1>3 DEF Consent!Init

----------------------------------------------------------------------------
(* The abstract steps, in terms of the mapped state.                       *)

LEMMA DrawnIs ==
  ASSUME NEW n, NEW d, NEW p, n <= MaxIssues, DOMAIN DrawnOf = 1 .. n - 1,
         DrawnOf' = [k \in 1 .. n |-> IF k < n THEN DrawnOf[k] ELSE <<d, p>>]
  PROVE  Consent!Drawn(n, d, p)
  BY DEF Consent!Drawn, DrawnOf

LEMMA MakeOfferIs ==
  ASSUME NEW n \in 1 .. MaxIssues, NEW d \in Device, NEW p \in Device,
         Consent!Drawn(n, d, p),
         OpenOffers' = (OpenOffers \ Consent!OffersOf(d, p)) \cup {n},
         LinkOf' = Linked(d, p, 0), TakenOf' = TakenOf
  PROVE  Consent!Next
<1>1. Consent!MakeOffer(n, d, p)
  BY DEF Consent!MakeOffer, TakenOf, LinkOf, Link, Linked
<1>. QED
  BY <1>1 DEF Consent!Next

LEMMA MakeNoteIs ==
  ASSUME NEW n \in 1 .. MaxIssues, NEW d \in Device, NEW p \in Device,
         Consent!Drawn(n, d, p),
         LinkOf[d][p] = 0,
         UNCHANGED <<OpenOffers, TakenOf, LinkOf>>
  PROVE  Consent!Next
<1>1. Consent!MakeNote(n, d, p)
  BY DEF Consent!MakeNote, TakenOf, LinkOf, Link
<1>. QED
  BY <1>1 DEF Consent!Next

LEMMA CloseIs ==
  ASSUME NEW k \in OpenOffers, OpenOffers' = OpenOffers \ {k},
         UNCHANGED <<DrawnOf, TakenOf, LinkOf>>
  PROVE  Consent!Next
<1>1. Consent!Close(k) /\ k \in 1 .. issued
  BY DEF Consent!Close, DrawnOf, TakenOf, LinkOf, Link, OpenOffers
<1>. QED
  BY <1>1 DEF Consent!Next

LEMMA TakeIs ==
  ASSUME NEW k \in OpenOffers, OpenOffers' = OpenOffers \ {k},
         TakenOf' = TakenOf \cup {k},
         LinkOf' = Linked(offers[k].by, offers[k].for, k),
         UNCHANGED DrawnOf
  PROVE  Consent!Next
<1>1. k \in 1 .. issued
  BY DEF OpenOffers
<1>2. Consent!By(k) = offers[k].by /\ Consent!For(k) = offers[k].for
  BY <1>1 DEF Consent!By, Consent!For
<1>3. Consent!Take(k)
  BY <1>2 DEF Consent!Take, DrawnOf, TakenOf, LinkOf, Link, Linked
<1>. QED
  BY <1>1, <1>3 DEF Consent!Next

LEMMA AdoptIs ==
  ASSUME NEW k \in TakenOf,
         OpenOffers' = OpenOffers \ Consent!OffersOf(offers[k].for, offers[k].by),
         LinkOf' = Linked(offers[k].for, offers[k].by, k),
         UNCHANGED <<DrawnOf, TakenOf>>
  PROVE  Consent!Next
<1>1. k \in 1 .. issued
  BY DEF TakenOf
<1>2. Consent!By(k) = offers[k].by /\ Consent!For(k) = offers[k].for
  BY <1>1 DEF Consent!By, Consent!For
<1>3. Consent!Adopt(k)
  BY <1>2 DEF Consent!Adopt, DrawnOf, TakenOf, LinkOf, Link, Linked
<1>. QED
  BY <1>1, <1>3 DEF Consent!Next

----------------------------------------------------------------------------
(* The steps of Pairing.                                                   *)

\* A confirmed record's link is its token, the link of any other is 0.
LEMMA LinkStep ==
  ASSUME TypeOK, NEW d \in Device, NEW p \in Device, NEW r,
         peers' = Written(d, p, r)
  PROVE  LinkOf' = Linked(d, p, Link(r))
<1>1. /\ peers'[d][p] = r
      /\ \A c, q \in Device : c # d \/ q # p => peers'[c][q] = peers[c][q]
  BY OtherRecords
<1>2. LinkOf' = [c \in Device |-> [q \in Device |->
                  IF c = d /\ q = p THEN Link(r) ELSE Link(peers[c][q])]]
  BY <1>1 DEF LinkOf
<1>3. Linked(d, p, Link(r)) =
        [c \in Device |-> [q \in Device |->
           IF c = d /\ q = p THEN Link(r) ELSE Link(peers[c][q])]]
  BY DEF LinkOf, Linked
<1>. QED
  BY <1>2, <1>3

\* What a draw is for the abstract protocol.
LEMMA DrawMaps ==
  ASSUME IInv, NEW d \in Device, NEW p \in Device, NEW code \in Code \cup {NoCode},
         NEW hint \in Hint, NEW expires \in Nat, Draw(d, p, code, hint, expires)
  PROVE  /\ issued + 1 \in 1 .. MaxIssues
         /\ DOMAIN DrawnOf = 1 .. (issued + 1) - 1
         /\ DrawnOf' = [k \in 1 .. issued + 1 |->
                          IF k < issued + 1 THEN DrawnOf[k] ELSE <<d, p>>]
         /\ TakenOf' = TakenOf
<1>1. /\ issued + 1 \in Token
      /\ issued' = issued + 1
      /\ \A k \in 1 .. issued : offers'[k] = offers[k]
      /\ offers'[issued + 1] =
           [by |-> d, for |-> p, code |-> code, hint |-> hint, expires |-> expires]
      /\ accepts' = accepts
  BY DrawStep DEF IInv
<1>2. issued \in Nat
  BY DEF IInv, TypeOK
<1>3. offers'[issued + 1].by = d /\ offers'[issued + 1].for = p
  BY <1>1
<1>4. DrawnOf' = [k \in 1 .. issued + 1 |->
                    IF k < issued + 1 THEN DrawnOf[k] ELSE <<d, p>>]
  BY <1>1, <1>2, <1>3 DEF DrawnOf
<1>5. accepts[issued + 1] = 0
  BY <1>1, <1>2 DEF IInv, RecordsInv, FreshTokens
<1>6. TakenOf' = TakenOf
  BY <1>1, <1>2, <1>5 DEF TakenOf
<1>7. issued + 1 \in 1 .. MaxIssues /\ DOMAIN DrawnOf = 1 .. (issued + 1) - 1
  BY <1>1, <1>2 DEF DrawnOf, Token
<1>. QED
  BY <1>4, <1>6, <1>7

\* The offers that stay open when the record of p on d is replaced by r:
\* those of other records, and the one r holds.
LEMMA OpenStep ==
  ASSUME IInv, NEW d \in Device, NEW p \in Device, NEW r, peers' = Written(d, p, r),
         issued' \in Nat, issued' >= issued,
         \A k \in 1 .. issued : offers'[k].by = offers[k].by /\ offers'[k].for = offers[k].for,
         \A k \in issued + 1 .. issued' : offers'[k].by = d /\ offers'[k].for = p
  PROVE  \A k : k \in OpenOffers' <=>
           \/ k \in OpenOffers /\ ~(offers[k].by = d /\ offers[k].for = p)
           \/ /\ k \in 1 .. issued'
              /\ offers'[k].by = d /\ offers'[k].for = p
              /\ r.token = k /\ r.code # NoCode
<1>1. /\ peers'[d][p] = r
      /\ \A c, q \in Device : c # d \/ q # p => peers'[c][q] = peers[c][q]
  BY OtherRecords DEF IInv
<1>2. issued \in Nat /\ \A k \in 1 .. issued : offers[k].by \in Device /\ offers[k].for \in Device
  BY DEF IInv, TypeOK, Offer
<1>. SUFFICES ASSUME NEW k
              PROVE  k \in OpenOffers' <=>
                       \/ k \in OpenOffers /\ ~(offers[k].by = d /\ offers[k].for = p)
                       \/ /\ k \in 1 .. issued'
                          /\ offers'[k].by = d /\ offers'[k].for = p
                          /\ r.token = k /\ r.code # NoCode
  OBVIOUS
<1>3. /\ k \in OpenOffers <=>
           /\ k \in 1 .. issued
           /\ peers[offers[k].by][offers[k].for].token = k
           /\ peers[offers[k].by][offers[k].for].code # NoCode
      /\ k \in OpenOffers' <=>
           /\ k \in 1 .. issued'
           /\ peers'[offers'[k].by][offers'[k].for].token = k
           /\ peers'[offers'[k].by][offers'[k].for].code # NoCode
  BY DEF OpenOffers
<1>4. k \in 1 .. issued' <=> k \in 1 .. issued \/ k \in issued + 1 .. issued'
  BY <1>2
<1>5. CASE k \in 1 .. issued
  <2>1. CASE offers[k].by = d /\ offers[k].for = p
    BY <1>1, <1>3, <1>4, <1>5, <2>1
  <2>2. CASE ~(offers[k].by = d /\ offers[k].for = p)
    BY <1>1, <1>2, <1>3, <1>4, <1>5, <2>2
  <2>. QED
    BY <2>1, <2>2
<1>6. CASE k \in issued + 1 .. issued'
  <2>1. k \notin 1 .. issued
    BY <1>2, <1>6
  <2>. QED
    BY <1>1, <1>3, <1>4, <1>6, <2>1
<1>. QED
  BY <1>3, <1>4, <1>5, <1>6

\* An adopted record closes the offers d made to p, a replaced one too.
LEMMA ClosedOffers ==
  ASSUME NEW d, NEW p
  PROVE  \A k : k \in OpenOffers \ Consent!OffersOf(d, p) <=>
                k \in OpenOffers /\ ~(offers[k].by = d /\ offers[k].for = p)
<1>. SUFFICES ASSUME NEW k \in OpenOffers
              PROVE  k \in Consent!OffersOf(d, p) <=> offers[k].by = d /\ offers[k].for = p
  OBVIOUS
<1>1. k \in 1 .. issued
  BY DEF OpenOffers
<1>. QED
  BY <1>1 DEF Consent!OffersOf

LEMMA BeginMaps ==
  ASSUME IInv, NEW d \in Device, NEW p \in Device, BeginLocalPairing(d, p)
  PROVE  Consent!Next
<1>1. PICK code \in Code, hint \in HintGiven :
        /\ Draw(d, p, code, hint, now + PairCodeTtl)
        /\ peers' = Written(d, p, OfferedPeer(issued + 1, code, hint, now))
  BY DEF BeginLocalPairing
<1>. DEFINE n == issued + 1
            r == OfferedPeer(n, code, hint, now)
<1>2. /\ code \in Code \cup {NoCode} /\ hint \in Hint /\ now + PairCodeTtl \in Nat
      /\ code # NoCode
  BY PairedPeersAssumption, PairingAssumption DEF IInv, TypeOK
<1>3. r.token = n /\ r.code = code /\ ~r.confirmed
  BY DEF OfferedPeer, AddedPeer, NoPeer
<1>4. /\ n \in 1 .. MaxIssues
      /\ DOMAIN DrawnOf = 1 .. n - 1
      /\ DrawnOf' = [k \in 1 .. n |-> IF k < n THEN DrawnOf[k] ELSE <<d, p>>]
      /\ TakenOf' = TakenOf
  BY <1>1, <1>2, DrawMaps
<1>5. /\ issued \in Nat /\ issued' = n
      /\ \A k \in 1 .. issued : offers'[k] = offers[k]
      /\ offers'[n].by = d /\ offers'[n].for = p
  <2>1. /\ issued' = n
        /\ \A k \in 1 .. issued : offers'[k] = offers[k]
        /\ offers'[n] = [by |-> d, for |-> p, code |-> code, hint |-> hint,
                         expires |-> now + PairCodeTtl]
    BY <1>1, <1>2, DrawStep DEF IInv
  <2>. QED
    BY <2>1 DEF IInv, TypeOK
<1>. HIDE DEF r
<1>6. LinkOf' = Linked(d, p, 0)
  BY <1>1, <1>3, LinkStep DEF IInv, Link, r
<1>7. \A k : k \in OpenOffers' <=>
           \/ k \in OpenOffers /\ ~(offers[k].by = d /\ offers[k].for = p)
           \/ /\ k \in 1 .. issued'
              /\ offers'[k].by = d /\ offers'[k].for = p
              /\ r.token = k /\ r.code # NoCode
  BY <1>1, <1>5, OpenStep DEF r
<1>8. \A k : k \in OpenOffers' <=> k \in (OpenOffers \ Consent!OffersOf(d, p)) \cup {n}
  <2>1. \A k : k \in OpenOffers' <=>
             (k \in OpenOffers /\ ~(offers[k].by = d /\ offers[k].for = p)) \/ k = n
    BY <1>2, <1>3, <1>5, <1>7
  <2>. HIDE DEF n
  <2>. QED
    BY <2>1, ClosedOffers
<1>9. OpenOffers' = (OpenOffers \ Consent!OffersOf(d, p)) \cup {n}
  BY <1>8
<1>10. n \in 1 .. MaxIssues /\ n <= MaxIssues
  BY <1>4
<1>11. Consent!Drawn(n, d, p)
  BY <1>4, <1>10, DrawnIs
<1>. QED
  BY <1>4, <1>6, <1>9, <1>10, <1>11, MakeOfferIs

LEMMA AddMaps ==
  ASSUME IInv, NEW d \in Device, NEW p \in Device, AddPairedPeer(d, p)
  PROVE  Consent!Next
<1>1. PICK hint \in HintGiven :
        /\ Draw(d, p, NoCode, hint, 0)
        /\ peers' = Written(d, p, AddedPeer(issued + 1, hint))
  BY DEF AddPairedPeer
<1>. DEFINE n == issued + 1
            r == AddedPeer(n, hint)
<1>2. NoCode \in Code \cup {NoCode} /\ hint \in Hint /\ 0 \in Nat
  BY PairingAssumption
<1>3. r.token = n /\ r.code = NoCode /\ ~r.confirmed
  BY DEF AddedPeer, NoPeer
<1>4. /\ n \in 1 .. MaxIssues
      /\ DOMAIN DrawnOf = 1 .. n - 1
      /\ DrawnOf' = [k \in 1 .. n |-> IF k < n THEN DrawnOf[k] ELSE <<d, p>>]
      /\ TakenOf' = TakenOf
  BY <1>1, <1>2, DrawMaps
<1>5. /\ issued \in Nat /\ issued' = n
      /\ \A k \in 1 .. issued : offers'[k] = offers[k]
      /\ offers'[n].by = d /\ offers'[n].for = p
  <2>1. /\ issued' = n
        /\ \A k \in 1 .. issued : offers'[k] = offers[k]
        /\ offers'[n] = [by |-> d, for |-> p, code |-> NoCode, hint |-> hint, expires |-> 0]
    BY <1>1, <1>2, DrawStep DEF IInv
  <2>. QED
    BY <2>1 DEF IInv, TypeOK
<1>6. ~peers[d][p].confirmed /\ peers[d][p].code = NoCode
  BY DEF AddPairedPeer, IInv, RecordsInv, PendingBacked, OfferKept
<1>. HIDE DEF r
<1>7. LinkOf[d][p] = 0 /\ LinkOf' = LinkOf
  <2>1. LinkOf' = Linked(d, p, 0)
    BY <1>1, <1>3, LinkStep DEF IInv, Link, r
  <2>2. LinkOf[d][p] = 0
    BY <1>6 DEF LinkOf, Link
  <2>3. Link(peers[d][p]) = 0
    BY <1>6 DEF Link
  <2>4. Linked(d, p, 0) = [c \in Device |-> [q \in Device |->
                            IF c = d /\ q = p THEN 0 ELSE Link(peers[c][q])]]
    BY DEF LinkOf, Linked
  <2>5. Linked(d, p, 0) = [c \in Device |-> [q \in Device |-> Link(peers[c][q])]]
    BY <2>3, <2>4
  <2>. QED
    BY <2>1, <2>2, <2>5 DEF LinkOf
<1>8. \A k : k \in OpenOffers' <=>
           \/ k \in OpenOffers /\ ~(offers[k].by = d /\ offers[k].for = p)
           \/ /\ k \in 1 .. issued'
              /\ offers'[k].by = d /\ offers'[k].for = p
              /\ r.token = k /\ r.code # NoCode
  BY <1>1, <1>5, OpenStep DEF r
<1>9. OpenOffers' = OpenOffers
  <2>1. \A k \in OpenOffers : ~(offers[k].by = d /\ offers[k].for = p)
    BY <1>6 DEF OpenOffers
  <2>2. \A k : k \in OpenOffers' <=> k \in OpenOffers
    BY <1>3, <1>8, <2>1
  <2>. QED
    BY <2>2
<1>10. n \in 1 .. MaxIssues /\ n <= MaxIssues
  BY <1>4
<1>11. Consent!Drawn(n, d, p)
  BY <1>4, <1>10, DrawnIs
<1>. QED
  BY <1>4, <1>7, <1>9, <1>10, <1>11, MakeNoteIs

LEMMA QuietMaps ==
  ASSUME UNCHANGED <<peers, history>>
  PROVE  UNCHANGED Consent!vars
<1>1. UNCHANGED <<DrawnOf, OpenOffers, TakenOf, LinkOf>>
  BY DEF history, DrawnOf, OpenOffers, TakenOf, LinkOf, Link
<1>. QED
  BY <1>1, StutterIs

LEMMA AttemptMaps ==
  ASSUME IInv, NEW x \in Exchange, CompleteRemotePairing(x)
  PROVE  Consent!Next \/ UNCHANGED Consent!vars
<1>1. PICK t \in ex[x].t0 .. now : t \in Nat /\ AttemptAt(x, t)
  BY AttemptStep
<1>. DEFINE d  == ex[x].to
            p  == ex[x].from
            r  == peers[d][p]
            ok == Accepts(r, ex[x].code, ex[x].src, t)
            s  == AfterAttempt(r, ex[x].code, ex[x].src, t)
            k  == r.token
<1>2. /\ d \in Device /\ p \in Device
      /\ issued' = issued /\ offers' = offers
      /\ peers' = Written(d, p, s)
      /\ accepts' = IF ok THEN [accepts EXCEPT ![k] = @ + 1] ELSE accepts
  BY <1>1, AttemptStep DEF AttemptAt
<1>3. /\ OfferKept(d, p) /\ r \in PairedPeer /\ issued \in Nat
      /\ accepts \in [Token -> Nat] /\ 1 .. issued \subseteq Token
  <2>1. OfferKept(d, p)
    BY <1>2 DEF IInv, RecordsInv, PendingBacked
  <2>2. r \in PairedPeer /\ accepts \in [Token -> Nat]
    BY <1>2 DEF IInv, TypeOK
  <2>3. issued \in Nat /\ 1 .. issued \subseteq Token
    BY PairingAssumption DEF IInv, TypeOK, Token
  <2>. QED
    BY <2>1, <2>2, <2>3
<1>4. LinkOf' = Linked(d, p, Link(s))
  BY <1>2, LinkStep DEF IInv
<1>5. UNCHANGED DrawnOf
  BY <1>2 DEF DrawnOf
<1>6. \A l : l \in OpenOffers' <=>
           \/ l \in OpenOffers /\ ~(offers[l].by = d /\ offers[l].for = p)
           \/ /\ l \in 1 .. issued
              /\ offers[l].by = d /\ offers[l].for = p
              /\ s.token = l /\ s.code # NoCode
  <2>. HIDE DEF s, d, p
  <2>1. /\ issued' \in Nat /\ issued' >= issued
        /\ \A l \in 1 .. issued : offers'[l].by = offers[l].by /\ offers'[l].for = offers[l].for
        /\ \A l \in issued + 1 .. issued' : offers'[l].by = d /\ offers'[l].for = p
    BY <1>2, <1>3
  <2>2. \A l : l \in OpenOffers' <=>
           \/ l \in OpenOffers /\ ~(offers[l].by = d /\ offers[l].for = p)
           \/ /\ l \in 1 .. issued'
              /\ offers'[l].by = d /\ offers'[l].for = p
              /\ s.token = l /\ s.code # NoCode
    BY <1>2, <2>1, OpenStep
  <2>. QED
    BY <1>2, <2>2
<1>7. \A l : l \in OpenOffers /\ offers[l].by = d /\ offers[l].for = p => l = k
  BY DEF OpenOffers
<1>8. CASE Pending(r, t)
  <2>1. /\ k \in OpenOffers /\ offers[k].by = d /\ offers[k].for = p
        /\ accepts[k] = 0 /\ ~r.confirmed
    BY <1>3, <1>8 DEF Pending, OfferKept, OpenOffers
  <2>2. CASE ok
    <3>1. s.confirmed /\ s.token = k /\ s.code = NoCode
      BY <1>3, <2>2 DEF AfterAttempt, Confirmed, PairedPeer
    <3>. HIDE DEF s, k, d, p, r, ok
    <3>2. OpenOffers' = OpenOffers \ {k}
      BY <1>6, <1>7, <2>1, <3>1
    <3>3. TakenOf' = TakenOf \cup {k}
      <4>1. k \in 1 .. issued
        BY <2>1 DEF OpenOffers
      <4>2. \A l \in 1 .. issued : accepts'[l] = IF l = k THEN accepts[k] + 1 ELSE accepts[l]
        BY <1>2, <1>3, <2>2
      <4>3. \A l \in 1 .. issued : accepts'[l] > 0 <=> accepts[l] > 0 \/ l = k
        BY <1>3, <2>1, <4>1, <4>2
      <4>. QED
        BY <1>2, <4>1, <4>3 DEF TakenOf
    <3>4. LinkOf' = Linked(offers[k].by, offers[k].for, k)
      BY <1>4, <2>1, <3>1 DEF Link
    <3>. QED
      BY <1>5, <2>1, <3>2, <3>3, <3>4, TakeIs
  <2>3. CASE ~ok
    <3>1. s = Missed(r)
      BY <1>8, <2>3 DEF AfterAttempt
    <3>2. ~s.confirmed /\ s.token = k
      BY <1>3, <2>1, <3>1 DEF Missed, PairedPeer
    <3>3. UNCHANGED TakenOf
      BY <1>2, <2>3 DEF TakenOf
    <3>4. UNCHANGED LinkOf
      <4>1. Link(s) = 0 /\ Link(r) = 0
        BY <2>1, <3>2 DEF Link
      <4>2. Linked(d, p, 0) = [c \in Device |-> [q \in Device |->
                                IF c = d /\ q = p THEN 0 ELSE Link(peers[c][q])]]
        BY <1>2 DEF LinkOf, Linked
      <4>3. Linked(d, p, 0) = LinkOf
        BY <4>1, <4>2 DEF LinkOf
      <4>. QED
        BY <1>4, <4>1, <4>3
    <3>. HIDE DEF s, k, d, p, r, ok
    <3>5. CASE s.code = NoCode
      <4>1. OpenOffers' = OpenOffers \ {k}
        BY <1>6, <1>7, <2>1, <3>5
      <4>. QED
        BY <1>5, <2>1, <3>3, <3>4, <4>1, CloseIs
    <3>6. CASE s.code # NoCode
      <4>0. k \in 1 .. issued
        BY <2>1 DEF OpenOffers
      <4>1. OpenOffers' = OpenOffers
        BY <1>6, <1>7, <2>1, <3>2, <3>6, <4>0
      <4>. QED
        BY <1>5, <3>3, <3>4, <4>1, StutterIs
    <3>. QED
      BY <3>5, <3>6
  <2>. QED
    BY <2>2, <2>3
<1>9. CASE ~Pending(r, t)
  <2>1. s = r /\ ~ok
    BY <1>9 DEF AfterAttempt, Accepts
  <2>2. peers' = peers /\ accepts' = accepts
    BY <1>2, <2>1 DEF Written, IInv, TypeOK
  <2>3. UNCHANGED <<DrawnOf, OpenOffers, TakenOf, LinkOf>>
    BY <1>2, <1>5, <2>2 DEF OpenOffers, TakenOf, LinkOf
  <2>. QED
    BY <2>3, StutterIs
<1>. QED
  BY <1>8, <1>9

LEMMA StoreMaps ==
  ASSUME IInv, NEW x \in Exchange, StoreCompletedPairing(x)
  PROVE  Consent!Next
<1>. DEFINE d == ex[x].from
            p == ex[x].want
            k == ex[x].token
            r == AdoptedPeer(k, ex[x].dial)
<1>1. /\ d \in Device /\ p \in Device /\ ex[x].to = p
      /\ k \in 1 .. issued /\ accepts[k] > 0 /\ offers[k].by = p /\ offers[k].for = d
  BY UnderwayType DEF IInv, AnswersBacked, StoreCompletedPairing, Underway
<1>2. r.confirmed /\ r.token = k /\ r.code = NoCode
  BY DEF AdoptedPeer, AddedPeer, NoPeer
<1>3. peers' = Written(d, p, r) /\ UNCHANGED history
  BY DEF StoreCompletedPairing
<1>. HIDE DEF r
<1>4. k \in TakenOf /\ UNCHANGED <<DrawnOf, TakenOf>>
  BY <1>1, <1>3 DEF DrawnOf, TakenOf, history
<1>5. LinkOf' = Linked(offers[k].for, offers[k].by, k)
  BY <1>1, <1>2, <1>3, LinkStep DEF IInv, Link
<1>6. \A l : l \in OpenOffers' <=>
           \/ l \in OpenOffers /\ ~(offers[l].by = d /\ offers[l].for = p)
           \/ /\ l \in 1 .. issued'
              /\ offers'[l].by = d /\ offers'[l].for = p
              /\ r.token = l /\ r.code # NoCode
  <2>1. /\ issued' \in Nat /\ issued' >= issued
        /\ \A l \in 1 .. issued : offers'[l].by = offers[l].by /\ offers'[l].for = offers[l].for
        /\ \A l \in issued + 1 .. issued' : offers'[l].by = d /\ offers'[l].for = p
    BY <1>3 DEF IInv, TypeOK, history
  <2>. HIDE DEF d, p
  <2>. QED
    BY <1>1, <1>3, <2>1, OpenStep
<1>7. \A l : l \in OpenOffers' <=> l \in OpenOffers \ Consent!OffersOf(d, p)
  <2>. HIDE DEF d, p
  <2>. QED
    BY <1>2, <1>6, ClosedOffers
<1>8. OpenOffers' = OpenOffers \ Consent!OffersOf(offers[k].for, offers[k].by)
  BY <1>1, <1>7
<1>. HIDE DEF k
<1>. QED
  BY <1>4, <1>5, <1>8, AdoptIs

\* Pairing between real devices, with clocks, moving addresses, concurrent
\* requests, lost answers and restarts, behaves as the consent protocol: an
\* offered code is taken at most once, a link comes only from a taken offer,
\* and what was superseded, revoked or replaced is never taken afterwards.
THEOREM ImplementsTheConsentProtocol == Spec => ImplementsConsent
<1>1. IInv /\ [Next]_vars => [Consent!Next]_(Consent!vars)
  <2>. SUFFICES ASSUME IInv, [Next]_vars PROVE Consent!Next \/ UNCHANGED Consent!vars
    OBVIOUS
  <2>1. ASSUME NEW d \in Device, NEW p \in Device, BeginLocalPairing(d, p) \/ AddPairedPeer(d, p)
        PROVE  Consent!Next
    BY <2>1, BeginMaps, AddMaps
  <2>2. ASSUME NEW x \in Exchange, CompleteRemotePairing(x)
        PROVE  Consent!Next \/ UNCHANGED Consent!vars
    BY <2>2, AttemptMaps
  <2>3. ASSUME NEW x \in Exchange, StoreCompletedPairing(x) PROVE Consent!Next
    BY <2>3, StoreMaps
  <2>4. ASSUME UNCHANGED <<peers, history>> PROVE UNCHANGED Consent!vars
    BY <2>4, QuietMaps
  <2>. QED
    BY <2>1, <2>2, <2>3, <2>4
       DEF Next, SetVisibility, Restart, Renumber, CompletePair, PostThroughTunnel, TurnAway,
           Admit, StorageFails, RecordAttempt, GiveUp, Tick, vars
<1>. QED
  BY <1>1, InitMaps, Invariant, PTL DEF Spec, ImplementsConsent, Consent!Spec
=============================================================================
