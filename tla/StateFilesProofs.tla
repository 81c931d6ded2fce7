-------------------------- MODULE StateFilesProofs --------------------------
(***************************************************************************)
(* Theorems about the two state files that processes share: of PeersStore, *)
(* for any set of processes and OmaIDs, and of Discovery, for any peers.   *)
(*                                                                         *)
(* paired_peers.json: the invariant that makes every save an operation on  *)
(* the current file is LockDiscipline.  Who works on the file holds the    *)
(* lock, so nobody saves between a load and the save that is based on it.  *)
(* A copy that was loaded while the file was readable stays what is on     *)
(* disk, also when its mode changes afterwards; the only other copy there  *)
(* can be is the empty one.                                                *)
(*                                                                         *)
(* discovered_peers.json has no lock, and lists that are out of date are   *)
(* written back.  DInv says that none of them has a peer as seen more      *)
(* recently than he was heard, whether it is on disk or in a process.      *)
(***************************************************************************)
EXTENDS PeersStore, Discovery, TLAPS

LockDiscipline ==
  /\ \A p \in Proc : pc[p] \in {"locked", "loaded"} => lock = p
  /\ \A p \in Proc : pc[p] = "loaded" /\ strict => snap[p] = file
  /\ \A p \in Proc : pc[p] = "loaded" => snap[p] \in {file, NoFile}

IInv == TypeOK /\ LockDiscipline

----------------------------------------------------------------------------
(* What the record operations return.                                      *)

LEMMA NoPeerType == NoPeer \in PairedPeer
  BY PairedPeersAssumption DEF NoPeer, PairedPeer, Hint

LEMMA AddedType ==
  ASSUME NEW k \in Nat, NEW hint \in Hint
  PROVE  AddedPeer(k, hint) \in PairedPeer
  BY PairedPeersAssumption DEF AddedPeer, NoPeer, PairedPeer, Hint

LEMMA OfferedType ==
  ASSUME NEW k \in Nat, NEW code \in Code, NEW hint \in Hint, NEW t \in Nat
  PROVE  OfferedPeer(k, code, hint, t) \in PairedPeer
<1>1. AddedPeer(k, hint) \in PairedPeer /\ t + PairCodeTtl \in Nat
  BY AddedType, PairedPeersAssumption
<1>. QED
  BY <1>1 DEF OfferedPeer, PairedPeer

LEMMA AdoptedType ==
  ASSUME NEW k \in Nat, NEW hint \in Hint
  PROVE  AdoptedPeer(k, hint) \in PairedPeer
  BY PairedPeersAssumption DEF AdoptedPeer, AddedPeer, NoPeer, PairedPeer, Hint

LEMMA AttemptType ==
  ASSUME NEW r \in PairedPeer, NEW code \in Code, NEW src \in Hint, NEW t \in Nat
  PROVE  AfterAttempt(r, code, src, t) \in PairedPeer
<1>1. Confirmed(r, src) \in PairedPeer
  BY PairedPeersAssumption DEF Confirmed, PairedPeer
<1>2. Missed(r) \in PairedPeer
  <2>1. r.failures + 1 \in Nat
    BY DEF PairedPeer
  <2>. QED
    BY <2>1, PairedPeersAssumption DEF Missed, PairedPeer
<1>. QED
  BY <1>1, <1>2 DEF AfterAttempt

LEMMA AfterType ==
  ASSUME NEW r \in PairedPeer, NEW c \in Calls, NEW p \in Proc
  PROVE  After(r, c, p) \in PairedPeer
<1>. /\ p \in Nat /\ c.t \in Nat /\ c.code \in Code /\ c.ip \in Hint /\ NoAddr \in Hint
     /\ c.op \in {"add", "begin", "complete", "adopt"}
  BY PeersStoreAssumption DEF Calls, Hint
<1>1. CASE c.op = "add"
  BY <1>1, AddedType DEF After
<1>2. CASE c.op = "begin"
  BY <1>2, OfferedType DEF After
<1>3. CASE c.op = "complete"
  BY <1>3, AttemptType DEF After
<1>4. CASE c.op = "adopt"
  BY <1>4, AdoptedType DEF After
<1>. QED
  BY <1>1, <1>2, <1>3, <1>4

----------------------------------------------------------------------------

LEMMA InitInv == Init => IInv
<1>. SUFFICES ASSUME Init PROVE IInv
  OBVIOUS
<1>1. /\ NoPeer \in PairedPeer
      /\ AdoptedPeer(OldToken, OldIp) \in PairedPeer
  BY NoPeerType, AdoptedType, PeersStoreAssumption DEF Hint
<1>2. TypeOK
  BY <1>1, PeersStoreAssumption DEF Init, TypeOK, Files, NoFile
<1>3. LockDiscipline
  BY DEF Init, LockDiscipline
<1>. QED
  BY <1>2, <1>3 DEF IInv

LEMMA StepInv == IInv /\ [Next]_vars => IInv'
<1>. SUFFICES ASSUME IInv, [Next]_vars PROVE IInv'
  OBVIOUS
<1>. USE DEF IInv
<1>1. ASSUME NEW p \in Proc, Call(p) PROVE IInv'
  <2>1. TypeOK'
    BY <1>1 DEF TypeOK, Call
  <2>2. LockDiscipline'
    BY <1>1 DEF LockDiscipline, TypeOK, Call
  <2>. QED
    BY <2>1, <2>2
<1>2. ASSUME NEW p \in Proc, Acquire(p) PROVE IInv'
  <2>1. TypeOK'
    BY <1>2 DEF TypeOK, Acquire
  <2>2. LockDiscipline'
    BY <1>2, PeersStoreAssumption DEF LockDiscipline, TypeOK, Acquire
  <2>. QED
    BY <2>1, <2>2
<1>3. ASSUME NEW p \in Proc, Load(p) PROVE IInv'
  <2>1. TypeOK'
    <3>1. NoFile \in Files
      BY NoPeerType DEF NoFile, Files
    <3>. QED
      BY <1>3, <3>1 DEF TypeOK, Load
  <2>2. LockDiscipline'
    BY <1>3 DEF LockDiscipline, TypeOK, Load
  <2>. QED
    BY <2>1, <2>2
<1>4. ASSUME NEW p \in Proc, Save(p) PROVE IInv'
  <2>1. file' \in Files
    <3>1. call[p] \in Calls /\ call[p].peer \in Peer
      BY <1>4 DEF TypeOK, Save, Calls
    <3>2. After(snap[p][call[p].peer], call[p], p) \in PairedPeer
      BY <3>1, AfterType DEF TypeOK, Files
    <3>. QED
      BY <1>4, <3>2 DEF TypeOK, Save, Files
  <2>2. TypeOK'
    BY <1>4, <2>1 DEF TypeOK, Save, Return
  <2>3. LockDiscipline'
    BY <1>4 DEF LockDiscipline, TypeOK, Save, Return
  <2>. QED
    BY <2>2, <2>3
<1>5. ASSUME NEW p \in Proc, ReturnUnsaved(p) \/ SaveFails(p) PROVE IInv'
  <2>1. TypeOK'
    BY <1>5 DEF TypeOK, ReturnUnsaved, SaveFails, Return
  <2>2. LockDiscipline'
    BY <1>5 DEF LockDiscipline, TypeOK, ReturnUnsaved, SaveFails, Return
  <2>. QED
    BY <2>1, <2>2
<1>6. ASSUME NEW p \in Proc, Kill(p) PROVE IInv'
  <2>1. TypeOK'
    BY <1>6 DEF TypeOK, Kill
  <2>2. LockDiscipline'
    BY <1>6 DEF LockDiscipline, TypeOK, Kill
  <2>. QED
    BY <2>1, <2>2
<1>7. CASE ChangeMode
  BY <1>7 DEF TypeOK, LockDiscipline, ChangeMode
<1>8. CASE UNCHANGED vars
  BY <1>8 DEF TypeOK, LockDiscipline, vars
<1>. QED
  BY <1>1, <1>2, <1>3, <1>4, <1>5, <1>6, <1>7, <1>8 DEF Next, Progress

LEMMA Invariant == Spec => []IInv
<1>. QED
  BY InitInv, StepInv, PTL DEF Spec

\* Every reachable state is well-typed: no operation leaves a record that
\* the file format does not allow.
THEOREM TypeCorrect == Spec => []TypeOK
  BY Invariant, PTL DEF IInv

\* Mutual exclusion of the read-modify-writes of paired_peers.json, for any
\* number of threads and processes, whichever of them are killed.
THEOREM Serialization == Spec => []Serialized
<1>1. IInv => Serialized
  BY DEF IInv, LockDiscipline, Serialized
<1>. QED
  BY <1>1, Invariant, PTL

\* No call loses another call's update: each change of a file that can be
\* read is one operation of rendezvous.rs on the records that are there.
THEOREM NoLostUpdate == Spec => SavesAreOperations
<1>. DEFINE OneOperation ==
       strict /\ file' # file =>
         \E p \in Proc :
           /\ pc[p] = "loaded"
           /\ file' = [file EXCEPT ![call[p].peer] = After(@, call[p], p)]
<1>1. IInv /\ [Next]_vars => [OneOperation]_vars
  <2>. SUFFICES ASSUME IInv, strict, Next, file' # file
                PROVE  OneOperation
    OBVIOUS
  <2>1. PICK p \in Proc : Save(p)
    BY DEF Next, Call, Progress, Acquire, Load, ReturnUnsaved, SaveFails, Kill,
           ChangeMode
  <2>2. pc[p] = "loaded" /\ snap[p] = file
    BY <2>1 DEF IInv, LockDiscipline, Save
  <2>3. file' = [file EXCEPT ![call[p].peer] = After(@, call[p], p)]
    BY <2>1, <2>2 DEF Save
  <2>. QED
    BY <2>2, <2>3
<1>. QED
  BY <1>1, Invariant, PTL DEF Spec, SavesAreOperations

\* What a call makes of the record of its peer is confirmed only if it was,
\* or if the call adopts the peer or presents the code the record holds.
LEMMA AfterConfirms ==
  ASSUME NEW r \in PairedPeer, NEW c \in Calls, NEW p \in Proc,
         After(r, c, p).confirmed, ~r.confirmed
  PROVE  c.op = "adopt" \/ (c.op = "complete" /\ r.known /\ c.code = r.code)
<1>0. c.op \in {"add", "begin", "complete", "adopt"}
  BY DEF Calls
<1>1. CASE c.op = "add"
  <2>1. ~AddedPeer(p, NoAddr).confirmed
    BY DEF AddedPeer, NoPeer
  <2>. QED
    BY <1>1, <2>1 DEF After
<1>2. CASE c.op = "begin"
  <2>1. ~OfferedPeer(p, c.code, NoAddr, c.t).confirmed
    BY DEF OfferedPeer, AddedPeer, NoPeer
  <2>. QED
    BY <1>2, <2>1 DEF After
<1>3. CASE c.op = "complete"
  <2>1. ~Missed(r).confirmed
    BY DEF Missed, PairedPeer
  <2>2. Accepts(r, c.code, c.ip, c.t)
    BY <1>3, <2>1 DEF After, AfterAttempt
  <2>. QED
    BY <1>3, <2>2 DEF Accepts, Pending
<1>. QED
  BY <1>0, <1>1, <1>2, <1>3

\* Nobody becomes confirmed but by a call that adopts it or presents the code
\* on disk, also when calls fail, are killed, or load a file they may not
\* read as empty and replace it.
THEOREM ConfirmedOnlyByCall == Spec => ConfirmedByCall
<1>. DEFINE ByCall(q) ==
       \E p \in Proc :
         /\ pc[p] = "loaded"
         /\ call[p].peer = q
         /\ \/ call[p].op = "adopt"
            \/ call[p].op = "complete" /\ call[p].code = file[q].code
<1>1. IInv /\ [Next]_vars =>
        [\A q \in Peer : file'[q].confirmed /\ ~file[q].confirmed => ByCall(q)]_vars
  <2>. SUFFICES ASSUME IInv, Next, NEW q \in Peer,
                       file'[q].confirmed, ~file[q].confirmed
                PROVE  ByCall(q)
    OBVIOUS
  <2>1. PICK p \in Proc : Save(p)
    BY DEF Next, Call, Progress, Acquire, Load, ReturnUnsaved, SaveFails, Kill,
           ChangeMode
  <2>2. /\ pc[p] = "loaded" /\ snap[p] \in {file, NoFile} /\ snap[p] \in Files
        /\ call[p] \in Calls /\ call[p].peer \in Peer
    BY <2>1 DEF IInv, TypeOK, LockDiscipline, Save, Calls
  <2>3. file' = [snap[p] EXCEPT ![call[p].peer] = After(snap[p][call[p].peer], call[p], p)]
    BY <2>1 DEF Save
  <2>4. ~snap[p][q].confirmed
    BY <2>2 DEF NoFile, NoPeer
  <2>5. call[p].peer = q /\ After(snap[p][q], call[p], p).confirmed
    BY <2>2, <2>3, <2>4 DEF Files
  <2>6. \/ call[p].op = "adopt"
        \/ call[p].op = "complete" /\ snap[p][q].known /\ call[p].code = snap[p][q].code
    <3>1. snap[p][q] \in PairedPeer
      BY <2>2 DEF Files
    <3>. QED
      BY <2>2, <2>4, <2>5, <3>1, AfterConfirms
  <2>7. snap[p][q].known => snap[p] = file
    BY <2>2 DEF NoFile, NoPeer
  <2>. QED
    BY <2>2, <2>5, <2>6, <2>7
<1>. QED
  BY <1>1, Invariant, PTL DEF Spec, ConfirmedByCall

----------------------------------------------------------------------------
(* discovered_peers.json, which no lock protects: Discovery, for any peers *)
(* and times.                                                              *)

\* List l has nobody as seen more recently than he was heard.
NoneNewer(l) == \A p \in Sender : l[p] <= MaxAge => heard[p] <= l[p]

\* Neither the file nor a list that a process has read and may save.
DInv ==
  /\ DiscoveryTypeOK
  /\ NoneNewer(list)
  /\ \A x \in Process : NoneNewer(task[x].copy)

LEMMA InitListed == DiscoveryInit => DInv
<1> SUFFICES ASSUME DiscoveryInit PROVE DInv
  OBVIOUS
<1>1. Nobody \in Ages /\ NoneNewer(Nobody)
  BY DiscoveryAssumption DEF Nobody, Ages, Absent, NoneNewer
<1>2. Idle \in Task /\ NoneNewer(Idle.copy)
  BY <1>1 DEF Idle, Task, Mode
<1> QED BY <1>1, <1>2, DiscoveryAssumption DEF DiscoveryInit, DInv, DiscoveryTypeOK, Mode

\* A process moves, a list is saved, a beacon is received.
LEMMA StepListed ==
  ASSUME DInv, NEW x \in Process, NEW r \in Task, NoneNewer(r.copy),
         task' = [task EXCEPT ![x] = r],
         NEW l \in Ages, NoneNewer(l), list' = l,
         heard' \in Ages, \A p \in Sender : heard'[p] <= heard[p],
         vis' \in [mode : Mode, left : 0 .. EveryoneTime],
         up' \in [Sender -> BOOLEAN], net' \subseteq Datagram
  PROVE  DInv'
<1>1. DiscoveryTypeOK'
  BY DEF DInv, DiscoveryTypeOK
<1>2. ASSUME NEW k \in Ages, NoneNewer(k)
      PROVE  \A p \in Sender : k[p] <= MaxAge => heard'[p] <= k[p]
  <2> SUFFICES ASSUME NEW p \in Sender, k[p] <= MaxAge PROVE heard'[p] <= k[p]
    OBVIOUS
  <2>1. k[p] \in Nat /\ heard[p] \in Nat /\ heard'[p] \in Nat
    BY DiscoveryAssumption DEF DInv, DiscoveryTypeOK, Ages, Absent
  <2> QED BY <1>2, <2>1 DEF NoneNewer
<1>3. NoneNewer(list)'
  BY <1>2 DEF NoneNewer
<1>4. ASSUME NEW y \in Process PROVE NoneNewer(task[y].copy)'
  <2>1. task'[y] = task[y] \/ task'[y] = r
    BY DEF DInv, DiscoveryTypeOK
  <2>2. task[y].copy \in Ages /\ NoneNewer(task[y].copy) /\ r.copy \in Ages
    BY DEF DInv, DiscoveryTypeOK, Task
  <2>3. task'[y].copy \in {task[y].copy, r.copy}
    BY <2>1
  <2>4. \A p \in Sender : task'[y].copy[p] <= MaxAge => heard'[p] <= task'[y].copy[p]
    BY <1>2, <2>2, <2>3
  <2> QED BY <2>4 DEF NoneNewer
<1> QED BY <1>1, <1>3, <1>4 DEF DInv

\* The processes only move.
LEMMA StepTasks ==
  ASSUME DInv, NEW x \in Process, NEW r \in Task, NoneNewer(r.copy),
         task' = [task EXCEPT ![x] = r], list' = list, heard' = heard,
         vis' \in [mode : Mode, left : 0 .. EveryoneTime], up' = up, net' = net
  PROVE  DInv'
<1>1. /\ list \in Ages /\ NoneNewer(list) /\ heard' \in Ages
      /\ up' \in [Sender -> BOOLEAN] /\ net' \subseteq Datagram
  BY DEF DInv, DiscoveryTypeOK
<1>2. \A p \in Sender : heard'[p] <= heard[p]
  BY DiscoveryAssumption DEF DInv, DiscoveryTypeOK, Ages, Absent
<1> HIDE DEF DInv
<1> QED BY <1>1, <1>2, StepListed

\* No process moves.
LEMMA StepAround ==
  ASSUME DInv, task' = task, list' = list, heard' = heard,
         vis' \in [mode : Mode, left : 0 .. EveryoneTime],
         up' \in [Sender -> BOOLEAN], net' \subseteq Datagram
  PROVE  DInv'
  BY DEF DInv, DiscoveryTypeOK, NoneNewer

LEMMA NobodyNewer ==
  /\ Nobody \in Ages /\ NoneNewer(Nobody)
  /\ Idle \in Task /\ NoneNewer(Idle.copy)
<1>1. Nobody \in Ages /\ NoneNewer(Nobody)
  BY DiscoveryAssumption DEF Nobody, Ages, Absent, NoneNewer
<1> QED BY <1>1 DEF Idle, Task, Mode

\* Who looks at the visibility has read no list.
LEMMA LookType ==
  ASSUME DInv, NEW d \in Datagram \cup {Nothing},
         NEW place \in {"filter", "load", "prune"}, NEW x \in Process,
         Looks(x, d, place)
  PROVE  \E r \in Task : NoneNewer(r.copy) /\ task' = [task EXCEPT ![x] = r]
<1> DEFINE r == [at |-> IF Expired(vis) THEN "lower" ELSE place,
                 then |-> IF Expired(vis) THEN place ELSE "idle",
                 about |-> d,
                 mode |-> IF place = "prune" THEN "OFF" ELSE Told(vis),
                 copy |-> Nobody]
<1>1. Nobody \in Ages /\ NoneNewer(Nobody)
  BY NobodyNewer
<1>2. Told(vis) \in Mode /\ "OFF" \in Mode
  BY DEF DInv, DiscoveryTypeOK, Told, Mode
<1>3. r \in Task /\ r.copy = Nobody
  BY <1>1, <1>2 DEF Task
<1>4. task' = [task EXCEPT ![x] = r]
  BY DEF Looks
<1> QED BY <1>1, <1>3, <1>4

\* The lists that are made of a list show nobody as seen more recently.
LEMMA ListsMade ==
  ASSUME NEW l \in Ages, NoneNewer(l), NEW mode
  PROVE  /\ Listed(l, mode) \in Ages /\ NoneNewer(Listed(l, mode))
         /\ Pruned(l) \in Ages /\ NoneNewer(Pruned(l))
<1>1. /\ Absent \in 0 .. Absent /\ Old \in 0 .. Absent
      /\ ~ (Absent <= MaxAge) /\ ~ (Old <= MaxAge)
  BY DiscoveryAssumption DEF Absent, Old
<1>2. ASSUME NEW p \in Sender
      PROVE  /\ Listed(l, mode)[p] \in {Absent, Old, l[p]}
             /\ Pruned(l)[p] \in {Absent, l[p]}
  BY DEF Listed, Pruned, Standby
<1>3. /\ Listed(l, mode) = [p \in Sender |-> Listed(l, mode)[p]]
      /\ Pruned(l) = [p \in Sender |-> Pruned(l)[p]]
  BY DEF Listed, Pruned
<1>4. \A p \in Sender : l[p] \in 0 .. Absent
  BY DEF Ages
<1>5. Listed(l, mode) \in Ages /\ Pruned(l) \in Ages
  <2>1. \A p \in Sender : Listed(l, mode)[p] \in 0 .. Absent /\ Pruned(l)[p] \in 0 .. Absent
    BY <1>1, <1>2, <1>4
  <2> QED BY <1>3, <2>1 DEF Ages
<1>6. NoneNewer(Listed(l, mode)) /\ NoneNewer(Pruned(l))
  BY <1>1, <1>2 DEF NoneNewer
<1> QED BY <1>5, <1>6

LEMMA ProcessListed ==
  ASSUME DInv, NEW x \in Process,
         \/ Lower(x) \/ ReadList(x) \/ Prune(x) \/ SavePruned(x)
  PROVE  DInv'
<1>t. /\ vis \in [mode : Mode, left : 0 .. EveryoneTime]
      /\ list \in Ages /\ task[x] \in Task /\ task[x].copy \in Ages
      /\ NoneNewer(list) /\ NoneNewer(task[x].copy)
      /\ heard \in Ages /\ \A p \in Sender : heard[p] <= heard[p]
      /\ up \in [Sender -> BOOLEAN] /\ net \subseteq Datagram
  BY DiscoveryAssumption DEF DInv, DiscoveryTypeOK, Task, Ages, Absent
<1>n. Idle \in Task /\ NoneNewer(Idle.copy)
  BY NobodyNewer
<1>1. CASE Lower(x)
  <2> DEFINE r == [task[x] EXCEPT !.at = task[x].then, !.then = "idle"]
  <2>1. r \in Task /\ r.copy = task[x].copy
    BY <1>t DEF Task
  <2>2. task' = [task EXCEPT ![x] = r]
    BY <1>1, <1>t DEF Lower
  <2>3. vis' \in [mode : Mode, left : 0 .. EveryoneTime]
    BY <1>1, DiscoveryAssumption DEF Lower, Chosen, Mode
  <2> HIDE DEF r
  <2>4. NoneNewer(r.copy)
    BY <1>t, <2>1
  <2> QED BY <1>1, <2>1, <2>2, <2>3, <2>4, StepTasks DEF Lower
<1>2. CASE ReadList(x)
  <2> DEFINE c == Listed(list, task[x].mode)
             r == [task[x] EXCEPT !.at = "save", !.copy = c]
  <2>1. c \in Ages /\ NoneNewer(c)
    BY <1>t, ListsMade
  <2> HIDE DEF c
  <2>2. r \in Task /\ r.copy = c
    BY <1>t, <2>1 DEF Task
  <2>3. task' = [task EXCEPT ![x] = r]
    BY <1>2, <1>t DEF ReadList, c
  <2> HIDE DEF r
  <2>4. NoneNewer(r.copy)
    BY <2>1, <2>2
  <2> QED BY <1>2, <1>t, <2>2, <2>3, <2>4, StepTasks DEF ReadList
<1>3. CASE Prune(x)
  <2>1. CASE Done(x)
    BY <1>3, <1>t, <1>n, <2>1, StepTasks DEF Prune, Done
  <2>2. CASE ~Done(x)
    <3> DEFINE c == Pruned(list)
               r == [task[x] EXCEPT !.at = "save", !.copy = c]
    <3>1. c \in Ages /\ NoneNewer(c)
      BY <1>t, ListsMade
    <3> HIDE DEF c
    <3>2. r \in Task /\ r.copy = c
      BY <1>t, <3>1 DEF Task
    <3>3. task' = [task EXCEPT ![x] = r]
      BY <1>3, <1>t, <2>2 DEF Prune, c
    <3> HIDE DEF r
    <3>4. NoneNewer(r.copy)
      BY <3>1, <3>2
    <3> QED BY <1>3, <1>t, <3>2, <3>3, <3>4, StepTasks DEF Prune
  <2> QED BY <2>1, <2>2
<1>4. CASE SavePruned(x)
  BY <1>4, <1>t, <1>n, StepListed DEF SavePruned, Done
<1> QED BY <1>1, <1>2, <1>3, <1>4

LEMMA NextListed == DInv /\ [DiscoveryNext]_discoveryVars => DInv'
<1> SUFFICES ASSUME DInv, [DiscoveryNext]_discoveryVars PROVE DInv'
  OBVIOUS
<1>t. /\ vis \in [mode : Mode, left : 0 .. EveryoneTime]
      /\ list \in Ages
      /\ \A x \in Process : task[x] \in Task /\ task[x].copy \in Ages /\ NoneNewer(task[x].copy)
      /\ NoneNewer(list)
      /\ heard \in Ages /\ \A p \in Sender : heard[p] <= heard[p]
      /\ up \in [Sender -> BOOLEAN] /\ net \subseteq Datagram
  BY DiscoveryAssumption DEF DInv, DiscoveryTypeOK, Task, Ages, Absent
<1>n. /\ Nobody \in Ages /\ NoneNewer(Nobody)
      /\ Idle \in Task /\ NoneNewer(Idle.copy)
  BY NobodyNewer
<1>p. {"listener", "broadcaster", "scan", "user"} = Process
  BY DEF Process
<1>g. ASSUME NEW x \in Process, NEW place \in {"remove", "prune"}, Goes(x, place)
      PROVE  \E r \in Task : NoneNewer(r.copy) /\ task' = [task EXCEPT ![x] = r]
  <2> DEFINE r == [task[x] EXCEPT !.at = place]
  <2>1. r \in Task /\ r.copy = task[x].copy
    BY <1>t, <1>g DEF Task
  <2>2. task' = [task EXCEPT ![x] = r]
    BY <1>g DEF Goes
  <2> HIDE DEF r
  <2> QED BY <1>t, <2>1, <2>2
<1>1. ASSUME NEW mode \in Mode, SetVisibility(mode) PROVE DInv'
  <2>1. vis' \in [mode : Mode, left : 0 .. EveryoneTime]
    BY <1>1, DiscoveryAssumption DEF SetVisibility, Chosen, Mode
  <2>2. CASE mode = "OFF"
    <3>1. PICK r \in Task : NoneNewer(r.copy) /\ task' = [task EXCEPT !["user"] = r]
      BY <1>1, <1>g, <1>p, <2>2 DEF SetVisibility
    <3> QED BY <1>1, <1>p, <2>1, <3>1, StepTasks DEF SetVisibility
  <2>3. CASE mode # "OFF"
    BY <1>1, <1>t, <2>1, <2>3, StepAround DEF SetVisibility
  <2> QED BY <2>2, <2>3
<1>2. CASE RemoveList
  BY <1>2, <1>t, <1>n, <1>p, StepListed DEF RemoveList, Done
<1>3. ASSUME NEW d \in net, Receive(d) PROVE DInv'
  <2>1. d \in Datagram /\ d.from \in Sender
    BY <1>t DEF Datagram
  <2>2. PICK r \in Task : NoneNewer(r.copy) /\ task' = [task EXCEPT !["listener"] = r]
    BY <1>3, <1>p, <2>1, LookType DEF Receive
  <2>3. heard' \in Ages /\ \A p \in Sender : heard'[p] <= heard[p]
    BY <1>3, <1>t, <2>1, DiscoveryAssumption DEF Receive, Ages, Absent
  <2> QED BY <1>3, <1>p, <1>t, <2>2, <2>3, StepListed DEF Receive
<1>4. CASE Quiet
  <2>1. PICK r \in Task : NoneNewer(r.copy) /\ task' = [task EXCEPT !["listener"] = r]
    BY <1>4, <1>g, <1>p DEF Quiet
  <2> QED BY <1>4, <1>t, <1>p, <2>1, StepTasks DEF Quiet
<1>5. CASE Filter
  <2>1. CASE Done("listener")
    BY <1>5, <1>n, <1>p, <1>t, <2>1, StepTasks DEF Filter, Done
  <2>2. CASE ~Done("listener")
    <3>1. task["listener"].about \in Datagram \cup {Nothing}
      BY <1>t, <1>p DEF Task
    <3>2. PICK r \in Task : NoneNewer(r.copy) /\ task' = [task EXCEPT !["listener"] = r]
      BY <1>5, <1>p, <2>2, <3>1, LookType DEF Filter
    <3> QED BY <1>5, <1>p, <1>t, <3>2, StepTasks DEF Filter
  <2> QED BY <2>1, <2>2
<1>6. CASE Update \/ Depart
  <2> DEFINE d == task["listener"].about
             copy == task["listener"].copy
  <2>1. /\ copy \in Ages /\ NoneNewer(copy)
        /\ d \in Datagram /\ d.from \in Sender
        /\ task' = [task EXCEPT !["listener"] = Idle]
    BY <1>6, <1>t, <1>p DEF Update, Depart, Done, Task, Datagram
  <2>2. /\ list' \in {[copy EXCEPT ![d.from] = heard[d.from]], list, [copy EXCEPT ![d.from] = Absent]}
        /\ heard' = heard /\ vis' = vis /\ up' = up /\ net' = net
    BY <1>6 DEF Update, Depart
  <2> HIDE DEF d, copy
  <2>3. ASSUME NEW v \in {heard[d.from], Absent}
        PROVE  [copy EXCEPT ![d.from] = v] \in Ages /\ NoneNewer([copy EXCEPT ![d.from] = v])
    <3>1. v \in 0 .. Absent /\ (v <= MaxAge => v = heard[d.from])
      BY <1>t, <2>1, DiscoveryAssumption DEF Ages, Absent
    <3>2. \A p \in Sender : heard[p] \in Nat
      BY <1>t, DiscoveryAssumption DEF Ages, Absent
    <3>3. [copy EXCEPT ![d.from] = v] \in Ages
      BY <2>1, <3>1 DEF Ages
    <3>4. NoneNewer([copy EXCEPT ![d.from] = v])
      BY <2>1, <3>1, <3>2 DEF NoneNewer, Ages
    <3> QED BY <3>3, <3>4
  <2>4. list' \in Ages /\ NoneNewer(list')
    BY <1>t, <2>2, <2>3
  <2> QED BY <1>n, <1>p, <1>t, <2>1, <2>2, <2>4, StepListed
<1>7. CASE Broadcast \/ Scan
  <2>1. PICK x \in Process, r \in Task : NoneNewer(r.copy) /\ task' = [task EXCEPT ![x] = r]
    <3>1. CASE Broadcast
      BY <1>p, <3>1, LookType DEF Broadcast
    <3>2. CASE Scan
      BY <1>p, <3>2, LookType DEF Scan
    <3> QED BY <1>7, <3>1, <3>2
  <2> QED BY <1>7, <1>t, <2>1, StepTasks DEF Broadcast, Scan
<1>8. CASE SaveScan
  BY <1>8, <1>t, <1>n, <1>p, StepListed DEF SaveScan, Done
<1>9. ASSUME NEW p \in Sender, Beacon(p) \/ TurnOff(p) \/ TurnOn(p) PROVE DInv'
  <2>1. up' \in [Sender -> BOOLEAN]
    BY <1>9, <1>t DEF Beacon, TurnOff, TurnOn
  <2>2. net' \subseteq Datagram
    BY <1>9, <1>t DEF Beacon, TurnOff, TurnOn, Datagram, Mode
  <2> QED BY <1>9, <1>t, <2>1, <2>2, StepAround DEF Beacon, TurnOff, TurnOn
<1>10. CASE Tick
  <2>1. ASSUME NEW l \in Ages
        PROVE  /\ Older(l) \in Ages
               /\ \A p \in Sender : Older(l)[p] = IF l[p] < Old THEN l[p] + 1 ELSE l[p]
    BY DiscoveryAssumption DEF Older, Ages, Old, Absent
  <2>2. ASSUME NEW l \in Ages, NoneNewer(l)
        PROVE  \A p \in Sender : Older(l)[p] <= MaxAge => Older(heard)[p] <= Older(l)[p]
    <3> SUFFICES ASSUME NEW p \in Sender, Older(l)[p] <= MaxAge
                 PROVE  Older(heard)[p] <= Older(l)[p]
      OBVIOUS
    <3>1. l[p] \in Nat /\ heard[p] \in Nat /\ MaxAge \in Nat /\ Old = MaxAge + 1
      BY <1>t, DiscoveryAssumption DEF Ages, Absent, Old
    <3>2. /\ Older(l)[p] = IF l[p] < Old THEN l[p] + 1 ELSE l[p]
          /\ Older(heard)[p] = IF heard[p] < Old THEN heard[p] + 1 ELSE heard[p]
      BY <1>t, <2>1
    <3>3. l[p] < Old
      BY <3>1, <3>2
    <3>4. heard[p] <= l[p]
      BY <2>2, <3>1, <3>2, <3>3 DEF NoneNewer
    <3> QED BY <3>1, <3>2, <3>3, <3>4
  <2>3. ASSUME NEW x \in Process
        PROVE  /\ task'[x] \in Task
               /\ task'[x].copy = Older(task[x].copy)
    <3>1. task'[x] = [task[x] EXCEPT !.copy = Older(@)]
      BY <1>10 DEF Tick
    <3>2. Older(task[x].copy) \in Ages
      BY <1>t, <2>1
    <3> QED BY <1>t, <3>1, <3>2 DEF Task
  <2>4. /\ list' = Older(list) /\ heard' = Older(heard)
        /\ up' = up /\ net' = net
        /\ task' = [x \in Process |-> task'[x]]
    BY <1>10 DEF Tick
  <2>5. vis' \in [mode : Mode, left : 0 .. EveryoneTime]
    BY <1>10, <1>t, DiscoveryAssumption DEF Tick
  <2>6. DiscoveryTypeOK'
    BY <1>t, <2>1, <2>3, <2>4, <2>5 DEF DiscoveryTypeOK
  <2>7. NoneNewer(list)'
    BY <1>t, <2>2, <2>4 DEF NoneNewer
  <2>8. \A x \in Process : NoneNewer(task[x].copy)'
    BY <1>t, <2>2, <2>3, <2>4 DEF NoneNewer
  <2> QED BY <2>6, <2>7, <2>8 DEF DInv
<1>11. CASE UNCHANGED discoveryVars
  BY <1>11, <1>t, StepAround DEF discoveryVars
<1> QED
  BY <1>1, <1>2, <1>3, <1>4, <1>5, <1>6, <1>7, <1>8, <1>9, <1>10, <1>11, <1>p, ProcessListed
     DEF DiscoveryNext, Listener, Broadcaster, Scanner

\* The files, the lists and what the processes of Discovery hold keep their types.
THEOREM DiscoveryTypeCorrect == DiscoverySpec => []DiscoveryTypeOK
<1>1. DInv => DiscoveryTypeOK
  BY DEF DInv
<1> QED
  BY InitListed, NextListed, <1>1, PTL DEF DiscoverySpec

\* No peer is shown as seen more recently than its last beacon was received,
\* for any peers, and whichever stale lists the listener, the broadcaster and
\* the commands write back (main.rs:2178-2353, 2463-2477).
THEOREM ShownIsFresh == DiscoverySpec => []Fresh
<1>1. DInv => Fresh
  <2> SUFFICES ASSUME DInv, NEW p \in Sender, Shown(p) PROVE heard[p] <= list[p]
    BY DEF Fresh
  <2>1. list[p] <= MaxAge
    <3>1. /\ ~ (Absent <= MaxAge) /\ ~ (Old <= MaxAge)
      BY DiscoveryAssumption DEF Absent, Old
    <3>2. Listed(list, Told(vis))[p] \in {Absent, Old, list[p]}
      BY DEF Listed, Standby
    <3> QED BY <3>1, <3>2 DEF Shown
  <2> QED BY <2>1 DEF DInv, NoneNewer
<1> QED
  BY InitListed, NextListed, <1>1, PTL DEF DiscoverySpec
=============================================================================
