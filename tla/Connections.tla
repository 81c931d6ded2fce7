---------------------------- MODULE Connections ----------------------------
(***************************************************************************)
(* How many connections the engine serves at once.                         *)
(*                                                                         *)
(* run_server accepts connections one after the other and asks             *)
(* try_acquire_connection for a ConnectionGuard, which the thread that     *)
(* serves the connection drops when it ends.  GLOBAL_ACTIVE_CONNECTIONS is *)
(* an atomic counter that is read and written with and without the mutex   *)
(* of PEER_CONNECTION_TRACKER.  A thread that ends leaves the counter      *)
(* first and the tracker later; one that cannot end aborts the process.    *)
(***************************************************************************)
EXTENDS Naturals, FiniteSets

CONSTANTS
  Conn,                  \* connections; one that is over may be made again
  Ip,
  Peer,                  \* Peer[c]: the address c comes from
  MaxGlobalConnections,  \* 32
  MaxPeerConnections     \* 4

ASSUME ConnectionsAssumption ==
  /\ IsFiniteSet(Conn)
  /\ Peer \in [Conn -> Ip]
  /\ MaxGlobalConnections \in Nat \ {0}
  /\ MaxPeerConnections \in Nat \ {0}

VARIABLES
  state,     \* the connections
  accept,    \* the accepting thread
  global,    \* GLOBAL_ACTIVE_CONNECTIONS
  tracker    \* PEER_CONNECTION_TRACKER; 0 where the map has no entry

vars == <<state, accept, global, tracker>>

Idle == [at |-> "idle"]

\* What the accepting thread holds: the connection and, in the mutex, the
\* value of the global counter it has seen.
Accepting ==
  [at : {"accepted"}, conn : Conn] \cup [at : {"checking"}, conn : Conn, seen : Nat]
    \cup [at : {"counted"}, conn : Conn]

TypeOK ==
  /\ state \in [Conn -> {"closed", "queued", "handled", "served", "leaving"}]
  /\ accept \in {Idle} \cup Accepting
  /\ global \in Nat
  /\ tracker \in [Ip -> Nat]

Init ==
  /\ state = [c \in Conn |-> "closed"]
  /\ accept = Idle
  /\ global = 0
  /\ tracker = [i \in Ip |-> 0]

Moves(c, s) == state' = [state EXCEPT ![c] = s]

\* The accepting thread holds the mutex.
Locked == accept.at \in {"checking", "counted"}

\* A client connects.
Connect(c) ==
  /\ state[c] = "closed"
  /\ Moves(c, "queued")
  /\ UNCHANGED <<accept, global, tracker>>

Accept(c) ==
  /\ accept = Idle
  /\ state[c] = "queued"
  /\ accept' = [at |-> "accepted", conn |-> c]
  /\ Moves(c, "handled")
  /\ UNCHANGED <<global, tracker>>

\* try_acquire_connection takes the mutex and reads the counter.
Check ==
  /\ accept.at = "accepted"
  /\ accept' = [at |-> "checking", conn |-> accept.conn, seen |-> global]
  /\ UNCHANGED <<state, global, tracker>>

\* No room, for anybody or for this address.
Full(seen, count) == seen >= MaxGlobalConnections \/ count >= MaxPeerConnections

\* 429 Too Many Requests.
Refuse ==
  /\ accept.at = "checking"
  /\ Full(accept.seen, tracker[Peer[accept.conn]])
  /\ accept' = Idle
  /\ Moves(accept.conn, "closed")
  /\ UNCHANGED <<global, tracker>>

CountPeer ==
  /\ accept.at = "checking"
  /\ ~Full(accept.seen, tracker[Peer[accept.conn]])
  /\ tracker' = [tracker EXCEPT ![Peer[accept.conn]] = @ + 1]
  /\ accept' = [at |-> "counted", conn |-> accept.conn]
  /\ UNCHANGED <<state, global>>

\* Mutant of Serve: the counter is not incremented.
ServeUncounted ==
  /\ accept.at = "counted"
  /\ accept' = Idle
  /\ Moves(accept.conn, "served")
  /\ UNCHANGED <<global, tracker>>

\* The counter is incremented, the mutex released and a thread spawned.
Serve ==
  /\ accept.at = "counted"
  /\ global' = global + 1
  /\ accept' = Idle
  /\ Moves(accept.conn, "served")
  /\ UNCHANGED tracker

\* handle_connection returned: Drop takes the connection off the counter ...
Leave(c) ==
  /\ state[c] = "served"
  /\ global' = global - 1
  /\ Moves(c, "leaving")
  /\ UNCHANGED <<accept, tracker>>

\* Mutant of Forgotten: the entry goes with the first connection.
ForgottenAll(n) == 0

\* One connection less of an address.
Forgotten(n) == IF n <= 1 THEN 0 ELSE n - 1

\* Mutant of Forget: the tracker is written without the mutex.
ForgetUnlocked(c) ==
  /\ state[c] = "leaving"
  /\ tracker' = [tracker EXCEPT ![Peer[c]] = Forgotten(@)]
  /\ Moves(c, "closed")
  /\ UNCHANGED <<accept, global>>

\* ... and then, in the mutex, off the tracker.
Forget(c) ==
  /\ state[c] = "leaving"
  /\ ~Locked
  /\ tracker' = [tracker EXCEPT ![Peer[c]] = Forgotten(@)]
  /\ Moves(c, "closed")
  /\ UNCHANGED <<accept, global>>

Next ==
  \/ \E c \in Conn : Connect(c) \/ Accept(c) \/ Leave(c) \/ Forget(c)
  \/ Check \/ Refuse \/ CountPeer \/ Serve

Spec == Init /\ [][Next]_vars

----------------------------------------------------------------------------

In(s) == {c \in Conn : state[c] \in s}
From(i) == {c \in Conn : Peer[c] = i}

\* Never more connections than the limits, also when a check is decided on
\* a counter that changed since.
WithinLimits ==
  /\ Cardinality(In({"served"})) <= MaxGlobalConnections
  /\ \A i \in Ip : Cardinality(In({"served", "leaving"}) \cap From(i)) <= MaxPeerConnections

\* A connection is refused only while that many threads hold a guard: the
\* counters are never left too high by connections that are over, and a
\* guard whose release is under way is the only one counted too long.
RefusedOnlyWhenFull ==
  [][Refuse =>
       \/ Cardinality(In({"served", "leaving"})) >= MaxGlobalConnections
       \/ Cardinality(In({"served", "leaving"}) \cap From(Peer[accept.conn])) >= MaxPeerConnections]_vars
=============================================================================
