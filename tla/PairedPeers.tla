---------------------------- MODULE PairedPeers ----------------------------
(***************************************************************************)
(* The records of paired_peers.json and what each operation of             *)
(* rendezvous.rs does to one of them.  The operations are pure: who runs   *)
(* them, under which lock and on which copy of the file is the subject of  *)
(* PeersStore (one device) and Pairing (several devices).                  *)
(*                                                                         *)
(* The 32-byte authentication token is abstracted to the serial number of  *)
(* the call that drew it (0: no token), so two draws are never equal.  The *)
(* 6-digit code is a member of Code: two draws may coincide.  A record     *)
(* whose OmaID is not in the file is NoPeer.                               *)
(***************************************************************************)
EXTENDS Naturals

CONSTANTS
  Addr,             \* private LAN addresses
  Loopback,         \* 127.0.0.1, where the WAN tunnel's traffic comes from
  NoAddr,           \* ip: None
  Code,             \* six-digit codes
  NoCode,           \* pair_code: None
  PairCodeTtl,      \* PAIR_CODE_TTL_SECS, in ticks
  PairCodeMaxFailures

ASSUME PairedPeersAssumption ==
  /\ Loopback \notin Addr
  /\ NoAddr \notin Addr \cup {Loopback}
  /\ NoCode \notin Code
  /\ PairCodeTtl \in Nat
  /\ PairCodeMaxFailures \in Nat \ {0}

\* What parse_local_ip_hint lets through: loopback counts as local there.
Hint == Addr \cup {Loopback, NoAddr}

PairedPeer ==
  [known     : BOOLEAN,
   ip        : Hint,
   token     : Nat,
   confirmed : BOOLEAN,
   code      : Code \cup {NoCode},
   expires   : Nat,
   failures  : Nat]

NoPeer ==
  [known |-> FALSE, ip |-> NoAddr, token |-> 0, confirmed |-> FALSE,
   code |-> NoCode, expires |-> 0, failures |-> 0]

\* add_paired_peer on an OmaID that is not in the file.
AddedPeer(tok, hint) ==
  [NoPeer EXCEPT !.known = TRUE, !.ip = hint, !.token = tok]

\* begin_local_pairing at time t: whatever the file held is replaced.
OfferedPeer(tok, code, hint, t) ==
  [AddedPeer(tok, hint) EXCEPT !.code = code, !.expires = t + PairCodeTtl]

\* store_completed_pairing, on the device whose user typed the code.
AdoptedPeer(tok, ip) ==
  [AddedPeer(tok, ip) EXCEPT !.confirmed = TRUE]

----------------------------------------------------------------------------
(* complete_remote_pairing, for a code presented from a source address.    *)

\* Mutant of Pending: the expiry is not looked at.
PendingForever(r, t) == r.known /\ ~r.confirmed /\ r.code # NoCode

\* A code is waiting and has not expired at time t.
Pending(r, t) ==
  /\ r.known
  /\ ~r.confirmed
  /\ r.code # NoCode
  /\ t <= r.expires

\* Mutant of SourceMatches: the hint is ignored.
AnySource(r, src) == TRUE

\* A hint binds the code to one source address.
SourceMatches(r, src) == r.ip \in {NoAddr, src}

\* Mutant of Accepts: the code is not compared.
AnyCode(r, code, src, t) == Pending(r, t) /\ SourceMatches(r, src)

Accepts(r, code, src, t) ==
  /\ Pending(r, t)
  /\ r.code = code
  /\ SourceMatches(r, src)

Confirmed(r, src) ==
  [r EXCEPT !.confirmed = TRUE, !.ip = src, !.code = NoCode,
            !.expires = 0, !.failures = 0]

\* Mutants of Missed: the budget is counted down, or not kept at all.
MissedDown(r) == [r EXCEPT !.failures = @ - 1]
MissedForgotten(r) == r

\* One more failure; the last one tolerated revokes the code.
Missed(r) ==
  IF r.failures + 1 >= PairCodeMaxFailures
  THEN [r EXCEPT !.failures = @ + 1, !.code = NoCode, !.expires = 0]
  ELSE [r EXCEPT !.failures = @ + 1]

\* Mutant of AfterAttempt: the early return of an accepted code skips the save.
AttemptNotSaved(r, code, src, t) ==
  IF Pending(r, t) /\ ~Accepts(r, code, src, t) THEN Missed(r) ELSE r

AfterAttempt(r, code, src, t) ==
  IF Accepts(r, code, src, t) THEN Confirmed(r, src)
  ELSE IF Pending(r, t) THEN Missed(r)
  ELSE r

\* PairedPeer::is_active: the records clipboard and transfer pushes go to.
IsActive(r) == r.confirmed /\ r.ip # NoAddr
=============================================================================
