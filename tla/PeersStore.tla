----------------------------- MODULE PeersStore -----------------------------
(***************************************************************************)
(* paired_peers.json of one device, written by the daemon's threads and by *)
(* CLI processes at once.  Each call locks .paired_peers.lock with flock,  *)
(* loads the whole file, changes the records of one OmaID in memory and    *)
(* saves the whole file by writing a temporary one and renaming it.  The   *)
(* clock and the arguments are read before the lock is asked for.          *)
(*                                                                         *)
(* A process makes one call.  The token a call draws is the number of its  *)
(* process.                                                                *)
(***************************************************************************)
EXTENDS PairedPeers

CONSTANTS
  Proc,          \* processes and threads that make a call
  Free,          \* the lock is held by nobody
  Peer,          \* OmaIDs of other devices
  OldToken,      \* the token of a record from before the run
  OldIp,         \* and its address
  Times,         \* clock values calls may have read
  ModeChanges    \* whether something else may chmod the file

ASSUME PeersStoreAssumption ==
  /\ Proc \subseteq Nat \ {0}
  /\ Free \notin Proc
  /\ OldToken \in Nat \ Proc
  /\ OldIp \in Addr
  /\ Times \subseteq Nat
  /\ ModeChanges \in BOOLEAN

VARIABLES
  file,     \* the records on disk
  strict,   \* its mode is 0600, which reading it requires
  lock,     \* holder of the flock
  pc, call, \* of each process
  snap      \* what each process loaded

vars == <<file, strict, lock, pc, call, snap>>

Files == [Peer -> PairedPeer]
NoFile == [q \in Peer |-> NoPeer]

Calls ==
  [op : {"add", "begin", "complete", "adopt"}, peer : Peer,
   code : Code, ip : Addr, t : Times]

NoCall == [op |-> "none"]

TypeOK ==
  /\ file \in Files
  /\ strict \in BOOLEAN
  /\ lock \in Proc \cup {Free}
  /\ pc \in [Proc -> {"idle", "waiting", "locked", "loaded", "done", "killed"}]
  /\ call \in [Proc -> Calls \cup {NoCall}]
  /\ \A p \in Proc : pc[p] \in {"waiting", "locked", "loaded", "done"} => call[p] \in Calls
  /\ snap \in [Proc -> Files]

Init ==
  /\ file \in [Peer -> {NoPeer, AdoptedPeer(OldToken, OldIp)}]
  /\ strict = TRUE
  /\ lock = Free
  /\ pc = [p \in Proc |-> "idle"]
  /\ call = [p \in Proc |-> NoCall]
  /\ snap = [p \in Proc |-> NoFile]

\* What call c of process p makes of the record r of its peer.
After(r, c, p) ==
  CASE c.op = "add" -> IF r.known THEN r ELSE AddedPeer(p, NoAddr)
    [] c.op = "begin" -> OfferedPeer(p, c.code, NoAddr, c.t)
    [] c.op = "complete" -> AfterAttempt(r, c.code, c.ip, c.t)
    [] c.op = "adopt" -> AdoptedPeer(p, c.ip)

\* add_paired_peer returns a known peer, complete_remote_pairing refuses an
\* unknown one, and neither saves; every other call saves.
Saves(r, c) ==
  CASE c.op = "add" -> ~r.known
    [] c.op = "complete" -> r.known
    [] OTHER -> TRUE

Call(p) ==
  /\ pc[p] = "idle"
  /\ \E c \in Calls : call' = [call EXCEPT ![p] = c]
  /\ pc' = [pc EXCEPT ![p] = "waiting"]
  /\ UNCHANGED <<file, strict, lock, snap>>

\* Mutant of Acquire: the result of flock(LOCK_NB) is not looked at.
AcquireAnyway(p) ==
  /\ pc[p] = "waiting"
  /\ lock' = p
  /\ pc' = [pc EXCEPT ![p] = "locked"]
  /\ UNCHANGED <<file, strict, call, snap>>

\* lock_paired_peers: flock(LOCK_EX) blocks until the lock is free.
Acquire(p) ==
  /\ pc[p] = "waiting"
  /\ lock = Free
  /\ lock' = p
  /\ pc' = [pc EXCEPT ![p] = "locked"]
  /\ UNCHANGED <<file, strict, call, snap>>

\* Mutant of Load: the lock is dropped once the file is read.
LoadThenUnlock(p) ==
  /\ pc[p] = "locked"
  /\ snap' = [snap EXCEPT ![p] = IF strict THEN file ELSE NoFile]
  /\ pc' = [pc EXCEPT ![p] = "loaded"]
  /\ lock' = Free
  /\ UNCHANGED <<file, strict, call>>

\* load_paired_peers: a file that read_secure_file refuses loads as empty.
Load(p) ==
  /\ pc[p] = "locked"
  /\ snap' = [snap EXCEPT ![p] = IF strict THEN file ELSE NoFile]
  /\ pc' = [pc EXCEPT ![p] = "loaded"]
  /\ UNCHANGED <<file, strict, lock, call>>

\* The call returns and drops its PeersLock.
Return(p) ==
  /\ lock' = Free
  /\ pc' = [pc EXCEPT ![p] = "done"]
  /\ UNCHANGED <<call, snap>>

\* save_paired_peers_locked: the rename replaces the whole file, mode 0600.
Save(p) ==
  /\ pc[p] = "loaded"
  /\ LET c == call[p]
         r == snap[p][c.peer]
     IN  /\ Saves(r, c)
         /\ file' = [snap[p] EXCEPT ![c.peer] = After(r, c, p)]
  /\ strict' = TRUE
  /\ Return(p)

ReturnUnsaved(p) ==
  /\ pc[p] = "loaded"
  /\ ~Saves(snap[p][call[p].peer], call[p])
  /\ Return(p)
  /\ UNCHANGED <<file, strict>>

\* The temporary file cannot be created, written, synced or renamed.
SaveFails(p) ==
  /\ pc[p] = "loaded"
  /\ Saves(snap[p][call[p].peer], call[p])
  /\ Return(p)
  /\ UNCHANGED <<file, strict>>

\* Mutant of Kill: a lock file whose existence is the lock outlives its owner.
KillKeepsLock(p) ==
  /\ pc[p] \in {"waiting", "locked", "loaded"}
  /\ pc' = [pc EXCEPT ![p] = "killed"]
  /\ UNCHANGED <<file, strict, lock, call, snap>>

\* A killed process loses its lock: the kernel closes the descriptor.
Kill(p) ==
  /\ pc[p] \in {"waiting", "locked", "loaded"}
  /\ pc' = [pc EXCEPT ![p] = "killed"]
  /\ lock' = IF lock = p THEN Free ELSE lock
  /\ UNCHANGED <<file, strict, call, snap>>

\* A backup restored or a chmod: the file stays readable for its owner but
\* not for read_secure_file.
ChangeMode ==
  /\ ModeChanges
  /\ strict
  /\ strict' = FALSE
  /\ UNCHANGED <<file, lock, pc, call, snap>>

Progress(p) ==
  Acquire(p) \/ Load(p) \/ Save(p) \/ ReturnUnsaved(p) \/ SaveFails(p)

Next ==
  \/ \E p \in Proc : Call(p) \/ Progress(p) \/ Kill(p)
  \/ ChangeMode

\* A process that can run is run, and flock wakes a waiter when it is free.
Fairness == \A p \in Proc : WF_vars(Progress(p))

Spec == Init /\ [][Next]_vars /\ Fairness

----------------------------------------------------------------------------

\* Two calls never work on the file at once, and nobody writes a file it
\* loaded before somebody else's save ("serializing every read-modify-write
\* of paired_peers.json", lock_paired_peers).
Serialized ==
  \A p \in Proc : pc[p] = "loaded" =>
    /\ \A q \in Proc \ {p} : pc[q] \notin {"locked", "loaded"}
    /\ strict => snap[p] = file

\* Every change of a file that can be read is exactly one call's operation
\* on the records that are on disk at that moment: no update of another call
\* is lost and no other OmaID is touched.
SavesAreOperations ==
  [][strict /\ file' # file =>
       \E p \in Proc :
         /\ pc[p] = "loaded"
         /\ file' = [file EXCEPT ![call[p].peer] = After(@, call[p], p)]]_vars

\* Nobody becomes confirmed but by a code this device offered or by a
\* handshake its user completed, whatever is lost on the way.
ConfirmedByCall ==
  [][\A q \in Peer : file'[q].confirmed /\ ~file[q].confirmed =>
       \E p \in Proc :
         /\ pc[p] = "loaded"
         /\ call[p].peer = q
         /\ \/ call[p].op = "adopt"
            \/ call[p].op = "complete" /\ call[p].code = file[q].code]_vars

\* A call that waits for the lock returns or is killed, also when the holder
\* is killed.
EveryCallEnds ==
  \A p \in Proc : pc[p] = "waiting" ~> pc[p] \in {"done", "killed"}

\* "Existing records are returned unchanged: their address, token and
\* confirmation state are never modified here" (add_paired_peer).
ExistingUnchanged ==
  [][\A p \in Proc : Save(p) /\ call[p].op = "add" =>
       LET q == call[p].peer IN file[q].known => file'[q] = file[q]]_vars
=============================================================================
