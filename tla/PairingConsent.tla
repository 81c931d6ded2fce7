-------------------------- MODULE PairingConsent ---------------------------
(***************************************************************************)
(* What pairing promises, without records, clocks, requests or addresses.  *)
(* A device offers a link to another one; an open offer is taken at most   *)
(* once and links the offering device; the other device may link with the  *)
(* same token only after that.  A later offer or adoption for the same pair*)
(* closes an offer, and a closed offer is never taken.                     *)
(***************************************************************************)
EXTENDS Naturals

CONSTANTS Device, Max

VARIABLES
  drawn,   \* token -> <<by, for>>
  open,    \* offers that may still be taken
  taken,   \* offers that were taken
  link     \* link[d][p]: the token d uses with p, 0 if they are not linked

vars == <<drawn, open, taken, link>>

By(k) == drawn[k][1]
For(k) == drawn[k][2]

Init ==
  /\ drawn = << >>
  /\ open = {}
  /\ taken = {}
  /\ link = [d \in Device |-> [p \in Device |-> 0]]

OffersOf(d, p) == {k \in DOMAIN drawn : drawn[k] = <<d, p>>}

Drawn(n, d, p) ==
  /\ n <= Max
  /\ DOMAIN drawn = 1 .. n - 1
  /\ drawn' = [k \in 1 .. n |-> IF k < n THEN drawn[k] ELSE <<d, p>>]

\* d offers p a link, which supersedes what it offered or linked before.
MakeOffer(n, d, p) ==
  /\ Drawn(n, d, p)
  /\ open' = (open \ OffersOf(d, p)) \cup {n}
  /\ link' = [link EXCEPT ![d][p] = 0]
  /\ UNCHANGED taken

\* d lists p without offering anything.
MakeNote(n, d, p) ==
  /\ Drawn(n, d, p)
  /\ link[d][p] = 0
  /\ UNCHANGED <<open, taken, link>>

Close(k) ==
  /\ k \in open
  /\ open' = open \ {k}
  /\ UNCHANGED <<drawn, taken, link>>

Take(k) ==
  /\ k \in open
  /\ open' = open \ {k}
  /\ taken' = taken \cup {k}
  /\ link' = [link EXCEPT ![By(k)][For(k)] = k]
  /\ UNCHANGED drawn

Adopt(k) ==
  /\ k \in taken
  /\ open' = open \ OffersOf(For(k), By(k))
  /\ link' = [link EXCEPT ![For(k)][By(k)] = k]
  /\ UNCHANGED <<drawn, taken>>

Next ==
  \/ \E n \in 1 .. Max, d, p \in Device : MakeOffer(n, d, p) \/ MakeNote(n, d, p)
  \/ \E k \in DOMAIN drawn : Close(k) \/ Take(k) \/ Adopt(k)

Spec == Init /\ [][Next]_vars
=============================================================================
