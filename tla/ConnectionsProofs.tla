------------------------- MODULE ConnectionsProofs -------------------------
(***************************************************************************)
(* Proofs about Connections, for any connections, addresses and limits.    *)
(***************************************************************************)
EXTENDS Connections, FiniteSetTheorems, TLAPS

Holding == In({"served", "leaving"})

\* How many guards an address holds.
Held(i) == Cardinality(Holding \cap From(i))

\* The connection the accepting thread works on is not served yet.
InHand == accept # Idle => state[accept.conn] = "handled"

\* Both counters count guards; the tracker is ahead while a guard is made.
Accounted ==
  /\ global = Cardinality(In({"served"}))
  /\ \A i \in Ip :
       tracker[i] = Held(i) +
                      (IF accept.at = "counted" /\ Peer[accept.conn] = i THEN 1 ELSE 0)

\* While a check is under way the counter can only fall, and no thread that
\* left it can be over: that takes the mutex.
Checked ==
  accept.at = "checking" => global <= accept.seen /\ accept.seen <= Cardinality(Holding)

\* There is room for the connection that is counted.
Room ==
  /\ global <= MaxGlobalConnections
  /\ \A i \in Ip : tracker[i] <= MaxPeerConnections
  /\ accept.at = "counted" => global < MaxGlobalConnections

IInv == TypeOK /\ InHand /\ Accounted /\ Checked /\ Room

----------------------------------------------------------------------------
(* Counting connections.                                                   *)

LEMMA Moved ==
  ASSUME TypeOK, NEW c \in Conn, NEW s, Moves(c, s), NEW q
  PROVE  In(q)' = IF s \in q THEN In(q) \cup {c} ELSE In(q) \ {c}
  BY DEF TypeOK, Moves, In

LEMMA Finite ==
  ASSUME NEW S \in SUBSET Conn
  PROVE  IsFiniteSet(S) /\ Cardinality(S) \in Nat
  BY ConnectionsAssumption, FS_Subset, FS_CardinalityType

LEMMA OneMore ==
  ASSUME NEW S \in SUBSET Conn, NEW c \in Conn, c \notin S
  PROVE  Cardinality(S \cup {c}) = Cardinality(S) + 1
  BY Finite, FS_AddElement

LEMMA OneLess ==
  ASSUME NEW S \in SUBSET Conn, NEW c \in S
  PROVE  Cardinality(S \ {c}) = Cardinality(S) - 1 /\ Cardinality(S) >= 1
<1>1. IsFiniteSet(S) /\ Cardinality(S) \in Nat
  BY Finite
<1>2. Cardinality(S \ {c}) = Cardinality(S) - 1
  BY <1>1, FS_RemoveElement
<1>3. Cardinality(S \ {c}) \in Nat
  BY Finite
<1> QED BY <1>1, <1>2, <1>3

LEMMA InSubset == \A q : In(q) \subseteq Conn
  BY DEF In

\* What a step that leaves the guards alone keeps.
LEMMA SameGuards ==
  ASSUME TypeOK, NEW c \in Conn, NEW s, Moves(c, s),
         state[c] \notin {"served", "leaving"}, s \notin {"served", "leaving"}
  PROVE  In({"served"})' = In({"served"}) /\ Holding' = Holding
<1>1. In({"served"})' = In({"served"}) \ {c} /\ Holding' = Holding \ {c}
  BY Moved DEF Holding
<1>2. c \notin In({"served"}) /\ c \notin Holding
  BY DEF Holding, In
<1> QED BY <1>1, <1>2

LEMMA Counted == \A i : Held(i) \in Nat
  BY InSubset, Finite DEF Holding, Held

LEMMA SameHolding ==
  ASSUME Holding' = Holding
  PROVE  \A i : Held(i)' = Held(i)
  BY DEF Held, From

----------------------------------------------------------------------------
(* The invariant.                                                          *)

LEMMA InitInv == Init => IInv
<1> SUFFICES ASSUME Init PROVE IInv
  OBVIOUS
<1>1. In({"served"}) = {} /\ Holding = {}
  BY DEF Init, In, Holding
<1>2. \A i \in Ip : Holding \cap From(i) = {}
  BY <1>1
<1> QED
  BY <1>1, <1>2, FS_EmptySet, ConnectionsAssumption
     DEF Init, IInv, Held, TypeOK, InHand, Accounted, Checked, Room, Idle

LEMMA Inductive == IInv /\ [Next]_vars => IInv'
<1> SUFFICES ASSUME IInv, [Next]_vars PROVE IInv'
  OBVIOUS
<1> USE ConnectionsAssumption
<1>t. TypeOK
  BY DEF IInv
<1>p. accept # Idle => accept.conn \in Conn /\ Peer[accept.conn] \in Ip
  BY <1>t DEF TypeOK, Accepting
<1>q. accept.at # "idle" => accept # Idle
  BY DEF Idle
<1>1. ASSUME NEW c \in Conn, Connect(c) PROVE IInv'
  <2>1. In({"served"})' = In({"served"}) /\ Holding' = Holding
    BY <1>1, <1>t, SameGuards DEF Connect
  <2>2. TypeOK' /\ InHand'
    BY <1>1, <1>t, <1>p DEF Connect, Moves, IInv, TypeOK, InHand
  <2> QED BY <1>1, <2>1, <2>2, SameHolding DEF Connect, IInv, Accounted, Checked, Room
<1>2. ASSUME NEW c \in Conn, Accept(c) PROVE IInv'
  <2>1. In({"served"})' = In({"served"}) /\ Holding' = Holding
    BY <1>2, <1>t, SameGuards DEF Accept
  <2>2. TypeOK' /\ InHand'
    BY <1>2, <1>t DEF Accept, Moves, TypeOK, InHand, Accepting
  <2> QED BY <1>2, <2>1, <2>2, SameHolding DEF Accept, IInv, Accounted, Checked, Room, Idle
<1>3. CASE Check
  <2>1. In({"served"})' = In({"served"}) /\ Holding' = Holding
    BY <1>3 DEF Check, In, Holding
  <2>2. TypeOK' /\ InHand'
    BY <1>3, <1>p, <1>q DEF Check, IInv, TypeOK, InHand, Accepting
  <2>3. Cardinality(In({"served"})) <= Cardinality(Holding)
    BY InSubset, Finite, FS_Subset DEF In, Holding
  <2>4. Checked'
    BY <1>3, <1>t, <2>1, <2>3 DEF Check, IInv, Accounted, Checked, TypeOK
  <2> QED BY <1>3, <2>1, <2>2, <2>4, SameHolding DEF Check, IInv, Accounted, Room
<1>4. CASE Refuse
  <2>0. accept.conn \in Conn /\ state[accept.conn] = "handled"
    BY <1>4, <1>p, <1>q DEF Refuse, IInv, InHand
  <2>1. In({"served"})' = In({"served"}) /\ Holding' = Holding
    BY <1>4, <1>t, <2>0, SameGuards DEF Refuse
  <2>2. TypeOK' /\ InHand'
    BY <1>4, <1>t, <2>0 DEF Refuse, Moves, TypeOK, InHand
  <2> QED BY <1>4, <2>1, <2>2, SameHolding DEF Refuse, IInv, Accounted, Checked, Room, Idle
<1>5. CASE CountPeer
  <2> DEFINE k == accept.conn
             i == Peer[k]
  <2>0. k \in Conn /\ i \in Ip /\ accept.seen \in Nat
    BY <1>5, <1>p, <1>q, <1>t DEF CountPeer, TypeOK, Accepting, Idle
  <2>1. In({"served"})' = In({"served"}) /\ Holding' = Holding
    BY <1>5 DEF CountPeer, In, Holding
  <2>2. tracker' = [tracker EXCEPT ![i] = @ + 1] /\ accept' = [at |-> "counted", conn |-> k]
    BY <1>5 DEF CountPeer
  <2>3. TypeOK'
    BY <1>5, <1>t, <2>0, <2>2 DEF CountPeer, TypeOK, Accepting
  <2>4. InHand'
    BY <1>5, <1>q, <2>2 DEF CountPeer, IInv, InHand
  <2>5. accept.at = "checking" /\ UNCHANGED <<state, global>>
    BY <1>5 DEF CountPeer
  <2>6. Accounted'
    <3>1. global' = Cardinality(In({"served"}))'
      BY <2>1, <2>5 DEF IInv, Accounted
    <3>2. \A j \in Ip : tracker[j] = Held(j)
      BY <2>5, Counted DEF IInv, Accounted
    <3>3. \A j \in Ip : Held(j)' = Held(j)
      BY <2>1, SameHolding
    <3>4. \A j \in Ip : tracker'[j] = Held(j) + (IF i = j THEN 1 ELSE 0)
      BY <1>t, <2>0, <2>2, <3>2, Counted DEF TypeOK
    <3>5. accept'.at = "counted" /\ Peer[accept'.conn] = i
      BY <2>2
    <3> QED BY <3>1, <3>3, <3>4, <3>5 DEF Accounted
  <2>7. accept.seen < MaxGlobalConnections /\ tracker[i] < MaxPeerConnections
    BY <1>5, <1>t, <2>0 DEF CountPeer, Full, TypeOK
  <2>8. Room'
    BY <1>t, <2>0, <2>2, <2>5, <2>7 DEF IInv, Room, Checked, TypeOK
  <2> QED BY <2>2, <2>3, <2>4, <2>6, <2>8 DEF IInv, Checked
<1>6. CASE Serve
  <2> DEFINE k == accept.conn
             i == Peer[k]
  <2>0. k \in Conn /\ i \in Ip /\ state[k] = "handled" /\ accept.at = "counted"
    BY <1>6, <1>p, <1>q DEF Serve, IInv, InHand
  <2>1. In({"served"})' = In({"served"}) \cup {k} /\ Holding' = Holding \cup {k}
    BY <1>6, <1>t, <2>0, Moved DEF Serve, Holding
  <2>2. k \notin In({"served"}) /\ k \notin Holding
    BY <2>0 DEF In, Holding
  <2>3. Cardinality(In({"served"}))' = Cardinality(In({"served"})) + 1
    BY <2>0, <2>1, <2>2, OneMore, InSubset
  <2>4. \A j \in Ip : Held(j)' =
                        Held(j) + (IF j = i THEN 1 ELSE 0)
    <3> SUFFICES ASSUME NEW j \in Ip
                 PROVE  Held(j)' =
                          Held(j) + (IF j = i THEN 1 ELSE 0)
      OBVIOUS
    <3>0. Holding \cap From(j) \in SUBSET Conn /\ Held(j) \in Nat
      BY InSubset, Counted DEF Holding
    <3>1. CASE j = i
      <4>1. (Holding \cap From(j))' = (Holding \cap From(j)) \cup {k}
        BY <2>0, <2>1, <3>1 DEF From
      <4> QED BY <4>1, <3>0, <3>1, <2>0, <2>2, OneMore DEF Held
    <3>2. CASE j # i
      <4>1. (Holding \cap From(j))' = Holding \cap From(j)
        BY <2>0, <2>1, <3>2 DEF From
      <4> QED BY <4>1, <3>0, <3>2 DEF Held
    <3> QED BY <3>1, <3>2
  <2>5. global' = global + 1 /\ accept' = Idle /\ tracker' = tracker
    BY <1>6 DEF Serve
  <2>6. TypeOK' /\ InHand'
    BY <1>6, <1>t, <2>0, <2>5 DEF Serve, Moves, TypeOK, InHand
  <2>7. Accounted'
    <3>1. global' = Cardinality(In({"served"}))'
      BY <2>3, <2>5 DEF IInv, Accounted
    <3>2. \A j \in Ip : tracker'[j] = Held(j)' + 0
      <4>1. \A j \in Ip : tracker[j] = Held(j) + (IF i = j THEN 1 ELSE 0)
        BY <2>0 DEF IInv, Accounted
      <4> QED BY <4>1, <2>4, <2>5, Counted
    <3>3. accept'.at # "counted"
      BY <2>5 DEF Idle
    <3> QED BY <3>1, <3>2, <3>3 DEF Accounted
  <2>8. Room' /\ Checked'
    BY <1>t, <2>0, <2>5 DEF IInv, Room, Checked, Idle, TypeOK
  <2> QED BY <2>6, <2>7, <2>8 DEF IInv
<1>7. ASSUME NEW c \in Conn, Leave(c) PROVE IInv'
  <2>1. In({"served"})' = In({"served"}) \ {c} /\ Holding' = Holding
    <3>1. In({"served"})' = In({"served"}) \ {c} /\ Holding' = Holding \cup {c}
      BY <1>7, <1>t, Moved DEF Leave, Holding
    <3>2. c \in Holding
      BY <1>7 DEF Leave, Holding, In
    <3> QED BY <3>1, <3>2
  <2>2. c \in In({"served"})
    BY <1>7 DEF Leave, In
  <2>3. Cardinality(In({"served"}))' = Cardinality(In({"served"})) - 1
        /\ Cardinality(In({"served"})) >= 1
    BY <2>1, <2>2, OneLess, InSubset
  <2>4. global' = global - 1 /\ UNCHANGED <<accept, tracker>>
    BY <1>7 DEF Leave
  <2>5. global >= 1 /\ global \in Nat /\ global' \in Nat
    BY <1>t, <2>3, <2>4 DEF IInv, Accounted, TypeOK
  <2>6. TypeOK' /\ InHand'
    BY <1>7, <1>t, <1>p, <2>4, <2>5 DEF Leave, Moves, IInv, TypeOK, InHand
  <2>7. Accounted'
    BY <2>1, <2>3, <2>4, SameHolding DEF IInv, Accounted
  <2>8. accept.at = "checking" => accept.seen \in Nat
    BY <1>t DEF TypeOK, Accepting, Idle
  <2>9. Checked'
    BY <2>1, <2>4, <2>5, <2>8 DEF IInv, Checked
  <2>10. Room'
    BY <2>4, <2>5 DEF IInv, Room
  <2> QED BY <2>6, <2>7, <2>9, <2>10 DEF IInv
<1>8. ASSUME NEW c \in Conn, Forget(c) PROVE IInv'
  <2> DEFINE i == Peer[c]
  <2>0. i \in Ip /\ accept.at \notin {"checking", "counted"} /\ state[c] = "leaving"
    BY <1>8 DEF Forget, Locked
  <2>1. In({"served"})' = In({"served"}) /\ Holding' = Holding \ {c}
    <3>1. In({"served"})' = In({"served"}) \ {c} /\ Holding' = Holding \ {c}
      BY <1>8, <1>t, Moved DEF Forget, Holding
    <3>2. c \notin In({"served"})
      BY <2>0 DEF In
    <3> QED BY <3>1, <3>2
  <2>2. c \in Holding
    BY <2>0 DEF Holding, In
  <2>3. Held(i)' = Held(i) - 1
        /\ Held(i) >= 1
    <3>1. (Holding \cap From(i))' = (Holding \cap From(i)) \ {c}
      BY <2>1 DEF From
    <3>2. c \in Holding \cap From(i)
      BY <2>2 DEF From
    <3> QED BY <3>1, <3>2, OneLess, InSubset DEF Holding, Held
  <2>4. \A j \in Ip \ {i} : Held(j)' = Held(j)
    <3>1. \A j \in Ip \ {i} : (Holding \cap From(j))' = Holding \cap From(j)
      BY <2>1 DEF From
    <3> QED BY <3>1 DEF Held
  <2>5. /\ tracker[i] = Held(i)
        /\ tracker[i] \in Nat
    BY <2>0, <1>t, Counted DEF IInv, Accounted, TypeOK
  <2>6. Forgotten(tracker[i]) = tracker[i] - 1
    BY <2>3, <2>5 DEF Forgotten
  <2>7. tracker' = [tracker EXCEPT ![i] = tracker[i] - 1] /\ UNCHANGED <<accept, global>>
    BY <1>8, <2>6 DEF Forget
  <2>8. TypeOK'
    BY <1>8, <1>t, <2>0, <2>3, <2>5, <2>7 DEF Forget, Moves, TypeOK
  <2>9. InHand'
    BY <1>8, <1>t, <1>p, <2>0, <2>7 DEF Forget, Moves, IInv, TypeOK, InHand
  <2>10. Accounted'
    <3>1. global' = Cardinality(In({"served"}))'
      BY <2>1, <2>7 DEF IInv, Accounted
    <3>2. \A j \in Ip : tracker'[j] = Held(j)' + 0
      <4>1. tracker'[i] = Held(i)' /\ Held(i)' \in Nat
        BY <1>t, <2>0, <2>3, <2>5, <2>7, Counted DEF TypeOK
      <4>2. \A j \in Ip \ {i} : tracker[j] = Held(j)
        BY <2>0, Counted DEF IInv, Accounted
      <4>3. \A j \in Ip \ {i} : tracker'[j] = Held(j)' /\ Held(j)' \in Nat
        BY <1>t, <2>4, <2>7, <4>2, Counted DEF TypeOK
      <4> QED BY <4>1, <4>3
    <3> QED BY <3>1, <3>2, <2>0, <2>7 DEF Accounted
  <2>11. Room' /\ Checked'
    BY <1>t, <2>0, <2>5, <2>7 DEF IInv, Room, Checked, TypeOK
  <2> QED BY <2>8, <2>9, <2>10, <2>11 DEF IInv
<1>9. CASE UNCHANGED vars
  BY <1>9 DEF vars, IInv, TypeOK, InHand, Accounted, Checked, Room, In, Holding, Held, From
<1> QED
  BY <1>1, <1>2, <1>3, <1>4, <1>5, <1>6, <1>7, <1>8, <1>9 DEF Next

LEMMA Invariance == Spec => []IInv
  BY InitInv, Inductive, PTL DEF Spec

----------------------------------------------------------------------------
(* The theorems.                                                           *)

\* The counters never fall below zero and the accepting thread works on one
\* connection at a time.
THEOREM TypeCorrect == Spec => []TypeOK
<1>1. IInv => TypeOK
  BY DEF IInv
<1> QED BY <1>1, Invariance, PTL

\* The engine never serves more connections than its limits allow, in all and
\* of one address, however threads end while another connection is checked.
THEOREM LimitsHold == Spec => []WithinLimits
<1>1. IInv => WithinLimits
  <2> SUFFICES ASSUME IInv PROVE WithinLimits
    OBVIOUS
  <2>1. Cardinality(In({"served"})) <= MaxGlobalConnections
    BY DEF IInv, Accounted, Room
  <2>2. ASSUME NEW i \in Ip
        PROVE  Held(i) <= MaxPeerConnections
    <3>1. Held(i) \in Nat
      BY Counted
    <3> QED BY <3>1, ConnectionsAssumption DEF IInv, Accounted, Room
  <2> QED BY <2>1, <2>2 DEF WithinLimits, Holding, Held
<1> QED BY <1>1, Invariance, PTL

\* No connection is refused because of connections whose threads are over.
THEOREM RefusalsAreDue == Spec => RefusedOnlyWhenFull
<1> DEFINE Due ==
      Refuse =>
        \/ Cardinality(Holding) >= MaxGlobalConnections
        \/ Held(Peer[accept.conn]) >= MaxPeerConnections
<1>1. IInv /\ [Next]_vars => [Due]_vars
  <2> SUFFICES ASSUME IInv, Refuse PROVE Due
    OBVIOUS
  <2>1. accept.at = "checking" /\ Full(accept.seen, tracker[Peer[accept.conn]])
    BY DEF Refuse
  <2>2. accept.seen \in Nat /\ Peer[accept.conn] \in Ip
    BY <2>1, ConnectionsAssumption DEF IInv, TypeOK, Accepting, Idle
  <2>3. Cardinality(Holding) \in Nat
    BY InSubset, Finite DEF Holding
  <2>4. CASE accept.seen >= MaxGlobalConnections
    BY <2>1, <2>2, <2>3, <2>4, ConnectionsAssumption DEF IInv, Checked
  <2>5. CASE tracker[Peer[accept.conn]] >= MaxPeerConnections
    <3>1. Held(Peer[accept.conn]) \in Nat
      BY Counted
    <3> QED BY <2>1, <2>2, <2>5, <3>1 DEF IInv, Accounted
  <2> QED BY <2>1, <2>4, <2>5 DEF Full
<1> QED BY <1>1, Invariance, PTL DEF Spec, RefusedOnlyWhenFull, Holding, Held
============================================================================
