------------------------------ MODULE Uploads ------------------------------
(***************************************************************************)
(* How the engine receives a file: POST /api/p2p/upload ("transfer"),      *)
(* /upload ("portal") and /api/upload-encrypted ("sealed").                *)
(*                                                                         *)
(* Each request has a thread of its own.  A body of more than              *)
(* IN_MEMORY_BODY_LIMIT is written to a part file under a                  *)
(* StagingReservationGuard.  The received file is then saved: the part     *)
(* file of a transfer is renamed, that of the portal copied to the         *)
(* destination, and what is in memory goes through write_secure_bytes, a   *)
(* temporary file that is renamed.  Guards and part files go when the      *)
(* handler returns.                                                        *)
(*                                                                         *)
(* Sizes are in blocks of the disk; nobody else writes to it.              *)
(***************************************************************************)
EXTENDS Integers, FiniteSets, FiniteSetsExt

CONSTANTS
  Request,
  Kind,         \* endpoints used, of "transfer", "portal", "sealed"
  Name,         \* file names, as sanitised
  Size,         \* bodies sent
  MaxSize,      \* MaxSize[k]: 100 MiB, 25 MiB for "sealed"
  MemoryLimit,  \* IN_MEMORY_BODY_LIMIT, 1 MiB
  StagingCap,   \* MAX_AGGREGATE_STAGING_BYTES, 200 MiB
  StageMargin,  \* 25 MiB
  SaveMargin,   \* 10 MiB
  MaxSealed,    \* MAX_CONCURRENT_ENCRYPTED_UPLOADS, 2
  Tries,        \* names get_unique_filepath looks up, 1000
  Disk,         \* what is available at first
  MaxRestarts,  \* bound: restarts of the daemon
  Nobody        \* no request

ASSUME UploadsAssumption ==
  /\ IsFiniteSet(Request)
  /\ Nobody \notin Request
  /\ Kind \subseteq {"transfer", "portal", "sealed"}
  /\ Size \subseteq Nat \ {0}
  /\ MaxSize \in [Kind -> Nat]
  /\ MemoryLimit \in Nat /\ StagingCap \in Nat
  /\ StageMargin \in Nat /\ SaveMargin \in Nat
  /\ MaxSealed \in Nat
  /\ Tries \in Nat \ {0}
  /\ Disk \in Nat
  /\ MaxRestarts \in Nat

VARIABLES
  req,       \* the requests
  staged,    \* CURRENT_STAGED_BYTES
  lock,      \* who holds STAGING_LOCK
  active,    \* ACTIVE_ENCRYPTED_UPLOADS
  parts,     \* blocks of each request's .part file
  out,       \* blocks of the file it saves, temporary or not
  files,     \* the download directory: whose file has a name
  restarts

vars == <<req, staged, lock, active, parts, out, files, restarts>>

Absent == -1

\* n, n_1, n_2 ...; the last one is n with the time, which is not looked up.
Path == Name \X (0 .. Tries)

Phases ==
  {"idle", "sealing", "reading", "reserving", "opening", "staging", "received", "fits",
   "named", "ready", "filling", "copying", "closing", "releasing", "leaving", "over"}

\* seen is a counter as last read, guard the bytes of the reservation held.
Requests ==
  [phase : Phases, kind : Kind, name : Name, size : Size, path : Path,
   seen : Int, guard : Nat]

Idle == [phase |-> "idle", guard |-> 0]

TypeOK ==
  /\ req \in [Request -> {Idle} \cup Requests]
  /\ staged \in Int
  /\ lock \in Request \cup {Nobody}
  /\ active \in Nat
  /\ parts \in [Request -> Nat \cup {Absent}]
  /\ out \in [Request -> Nat \cup {Absent}]
  /\ files \in [Path -> Request \cup {Nobody}]
  /\ restarts \in 0 .. MaxRestarts

Init ==
  /\ req = [r \in Request |-> Idle]
  /\ staged = 0
  /\ lock = Nobody
  /\ active = 0
  /\ parts = [r \in Request |-> Absent]
  /\ out = [r \in Request |-> Absent]
  /\ files = [p \in Path |-> Nobody]
  /\ restarts = 0

Blocks(n) == IF n = Absent THEN 0 ELSE n

\* get_available_disk_space
Free == Disk - MapThenSumSet(LAMBDA r : Blocks(parts[r]) + Blocks(out[r]), Request)

At(r, p) == req[r].phase = p
To(r, p) == req' = [req EXCEPT ![r].phase = p]

InMemory(r) == req[r].size <= MemoryLimit

\* What is saved by write_secure_bytes.
Materialised(r) == InMemory(r) \/ req[r].kind = "sealed"

disk == <<parts, out, files>>

----------------------------------------------------------------------------
(* The request, and EncryptedUploadGuard::try_acquire.                     *)

Arrive(r) ==
  /\ At(r, "idle")
  /\ \E k \in Kind, n \in Name, s \in Size :
       req' = [req EXCEPT ![r] =
                 [phase  |-> IF s > MaxSize[k] THEN "over"
                             ELSE IF k = "sealed" THEN "sealing" ELSE "reading",
                  kind   |-> k, name |-> n, size |-> s, path |-> <<n, 0>>,
                  seen   |-> IF k = "sealed" THEN active ELSE 0, guard |-> 0]]
  /\ UNCHANGED <<staged, lock, active, disk, restarts>>

\* Too many at once, by the value that was read.
NotSealed(r) ==
  /\ At(r, "sealing")
  /\ req[r].seen >= MaxSealed
  /\ To(r, "over")
  /\ UNCHANGED <<staged, lock, active, disk, restarts>>

\* Mutant of Seal: the counter is written without comparing it.
SealAnyway(r) ==
  /\ At(r, "sealing")
  /\ req[r].seen < MaxSealed
  /\ active' = req[r].seen + 1
  /\ req' = [req EXCEPT ![r].phase = "reading", ![r].seen = 0]
  /\ UNCHANGED <<staged, lock, disk, restarts>>

\* compare_exchange succeeds ...
Seal(r) ==
  /\ At(r, "sealing")
  /\ req[r].seen < MaxSealed
  /\ active = req[r].seen
  /\ active' = active + 1
  /\ req' = [req EXCEPT ![r].phase = "reading", ![r].seen = 0]
  /\ UNCHANGED <<staged, lock, disk, restarts>>

\* ... or tells the value that is there.
SealAgain(r) ==
  /\ At(r, "sealing")
  /\ req[r].seen < MaxSealed
  /\ active # req[r].seen
  /\ req' = [req EXCEPT ![r].seen = active]
  /\ UNCHANGED <<staged, lock, active, disk, restarts>>

----------------------------------------------------------------------------
(* read_http_body and StagingReservationGuard::try_reserve.                *)

\* The whole body arrived in time.
ReceiveInMemory(r) ==
  /\ At(r, "reading")
  /\ InMemory(r)
  /\ To(r, "received")
  /\ UNCHANGED <<staged, lock, active, disk, restarts>>

\* The connection breaks off, or the deadline passed.
BodyFails(r) ==
  /\ At(r, "reading")
  /\ InMemory(r)
  /\ To(r, "closing")
  /\ UNCHANGED <<staged, lock, active, disk, restarts>>

\* Mutant of Reserve: without the mutex.
ReserveUnlocked(r) ==
  /\ At(r, "reading")
  /\ ~InMemory(r)
  /\ lock' = r
  /\ req' = [req EXCEPT ![r].phase = "reserving", ![r].seen = staged]
  /\ UNCHANGED <<staged, active, disk, restarts>>

\* The mutex is taken and the counter read.
Reserve(r) ==
  /\ At(r, "reading")
  /\ ~InMemory(r)
  /\ lock = Nobody
  /\ lock' = r
  /\ req' = [req EXCEPT ![r].phase = "reserving", ![r].seen = staged]
  /\ UNCHANGED <<staged, active, disk, restarts>>

\* By the counter as it was read and the disk as it is.
HasRoom(r) ==
  /\ req[r].seen + req[r].size <= StagingCap
  /\ req[r].seen + req[r].size + StageMargin <= Free

\* Mutant of Reserved: the mutex stays taken.
ReservedLocked(r) ==
  /\ At(r, "reserving")
  /\ HasRoom(r)
  /\ staged' = staged + req[r].size
  /\ req' = [req EXCEPT ![r].phase = "opening", ![r].seen = 0,
                        ![r].guard = req[r].size]
  /\ UNCHANGED <<lock, active, disk, restarts>>

Reserved(r) ==
  /\ At(r, "reserving")
  /\ HasRoom(r)
  /\ staged' = staged + req[r].size
  /\ lock' = Nobody
  /\ req' = [req EXCEPT ![r].phase = "opening", ![r].seen = 0,
                        ![r].guard = req[r].size]
  /\ UNCHANGED <<active, disk, restarts>>

\* The connection is closed without an answer.
NotReserved(r) ==
  /\ At(r, "reserving")
  /\ ~HasRoom(r)
  /\ lock' = Nobody
  /\ req' = [req EXCEPT ![r].phase = "closing", ![r].seen = 0]
  /\ UNCHANGED <<staged, active, disk, restarts>>

OpenPart(r) ==
  /\ At(r, "opening")
  /\ parts' = [parts EXCEPT ![r] = 0]
  /\ To(r, "staging")
  /\ UNCHANGED <<staged, lock, active, out, files, restarts>>

OpenFails(r) ==
  /\ At(r, "opening")
  /\ To(r, "closing")
  /\ UNCHANGED <<staged, lock, active, disk, restarts>>

WritePart(r) ==
  /\ At(r, "staging")
  /\ parts[r] < req[r].size
  /\ Free > 0
  /\ parts' = [parts EXCEPT ![r] = @ + 1]
  /\ UNCHANGED <<req, staged, lock, active, out, files, restarts>>

\* The connection or a write fails, the deadline passed: the file goes.
PartFails(r) ==
  /\ At(r, "staging")
  /\ parts' = [parts EXCEPT ![r] = Absent]
  /\ To(r, "closing")
  /\ UNCHANGED <<staged, lock, active, out, files, restarts>>

Staged(r) ==
  /\ At(r, "staging")
  /\ parts[r] = req[r].size
  /\ To(r, "received")
  /\ UNCHANGED <<staged, lock, active, disk, restarts>>

----------------------------------------------------------------------------
(* Saving what was received.                                               *)

\* A hash that does not match, a bad IV, a decryption that fails.
Reject(r) ==
  /\ At(r, "received")
  /\ req[r].kind # "portal"
  /\ To(r, "closing")
  /\ UNCHANGED <<staged, lock, active, disk, restarts>>

\* Space is looked at before the name is chosen, but not for transfers.
NameFirst(r) == req[r].kind = "transfer"

CheckSpace(r) ==
  /\ At(r, "received") \/ At(r, "named")
  /\ Materialised(r)
  /\ At(r, "named") <=> NameFirst(r)
  /\ IF req[r].size + SaveMargin <= Free
     THEN To(r, IF NameFirst(r) THEN "ready" ELSE "fits")
     ELSE To(r, "closing")
  /\ UNCHANGED <<staged, lock, active, disk, restarts>>

\* get_unique_filepath: the first name nobody has.
Chosen(n, i) ==
  /\ i = Tries \/ files[<<n, i>>] = Nobody
  /\ \A j \in 0 .. i - 1 : files[<<n, j>>] # Nobody

ChooseName(r) ==
  /\ At(r, "received") \/ At(r, "fits")
  /\ At(r, "fits") <=> Materialised(r) /\ ~NameFirst(r)
  /\ \E i \in 0 .. Tries :
       /\ Chosen(req[r].name, i)
       /\ req' = [req EXCEPT ![r].phase = IF Materialised(r) /\ NameFirst(r)
                                          THEN "named" ELSE "ready",
                             ![r].path = <<req[r].name, i>>]
  /\ UNCHANGED <<staged, lock, active, disk, restarts>>

\* The file of r, of n blocks, gets its name; one that has it is replaced.
\* What somebody still copies to keeps its blocks until it is closed.
Rename(r, n) ==
  LET old == files[req[r].path]
      gone(q) == q = old /\ q # r /\ ~At(q, "copying")
  IN  /\ files' = [files EXCEPT ![req[r].path] = r]
      /\ out' = [q \in Request |-> IF q = r THEN n
                                   ELSE IF gone(q) THEN Absent ELSE out[q]]

\* StagedFile::persist
Persist(r) ==
  /\ At(r, "ready")
  /\ req[r].kind = "transfer" /\ ~Materialised(r)
  /\ Rename(r, parts[r])
  /\ parts' = [parts EXCEPT ![r] = Absent]
  /\ To(r, "releasing")
  /\ UNCHANGED <<staged, lock, active, restarts>>

\* write_secure_bytes makes its temporary file.
OpenTemp(r) ==
  /\ At(r, "ready")
  /\ Materialised(r)
  /\ out' = [out EXCEPT ![r] = 0]
  /\ To(r, "filling")
  /\ UNCHANGED <<staged, lock, active, parts, files, restarts>>

\* Mutant of SaveTemp: an error of the write is ignored.
SaveTempAnyway(r) ==
  /\ At(r, "filling")
  /\ Rename(r, out[r])
  /\ To(r, "closing")
  /\ UNCHANGED <<staged, lock, active, parts, restarts>>

\* It is written and synced, and renamed.
SaveTemp(r) ==
  /\ At(r, "filling")
  /\ out[r] = req[r].size
  /\ Rename(r, out[r])
  /\ To(r, "closing")
  /\ UNCHANGED <<staged, lock, active, parts, restarts>>

\* The portal copies a part file to a name that must not exist.
CreateFile(r) ==
  /\ At(r, "ready")
  /\ req[r].kind = "portal" /\ ~Materialised(r)
  /\ files[req[r].path] = Nobody
  /\ files' = [files EXCEPT ![req[r].path] = r]
  /\ out' = [out EXCEPT ![r] = 0]
  /\ To(r, "copying")
  /\ UNCHANGED <<staged, lock, active, parts, restarts>>

Write(r) ==
  /\ At(r, "filling") \/ At(r, "copying")
  /\ out[r] < req[r].size
  /\ Free > 0
  /\ out' = [out EXCEPT ![r] = @ + 1]
  /\ UNCHANGED <<req, staged, lock, active, parts, files, restarts>>

\* The copy is closed, and gone if its name was taken over meanwhile.
CloseCopy(r) ==
  out' = [out EXCEPT ![r] = IF files[req[r].path] = r THEN @ ELSE Absent]

Copied(r) ==
  /\ At(r, "copying")
  /\ out[r] = req[r].size
  /\ CloseCopy(r)
  /\ To(r, "closing")
  /\ UNCHANGED <<staged, lock, active, parts, files, restarts>>

\* The temporary file goes if it cannot be renamed.
RenameFails(r) ==
  /\ At(r, "filling")
  /\ out[r] = req[r].size
  /\ out' = [out EXCEPT ![r] = Absent]
  /\ To(r, "closing")
  /\ UNCHANGED <<staged, lock, active, parts, files, restarts>>

\* Any other error leaves what was written so far: a temporary file or a
\* part of the file under its name.
SaveFails(r) ==
  /\ At(r, "ready") \/ At(r, "filling") \/ At(r, "copying")
  /\ IF At(r, "copying") THEN CloseCopy(r) ELSE UNCHANGED out
  /\ To(r, "closing")
  /\ UNCHANGED <<staged, lock, active, parts, files, restarts>>

----------------------------------------------------------------------------
(* The handler returns.                                                    *)

\* Mutant of Close: the part file stays.
CloseOnly(r) ==
  /\ At(r, "closing")
  /\ To(r, "releasing")
  /\ UNCHANGED <<staged, lock, active, disk, restarts>>

\* StagedFile::drop
Close(r) ==
  /\ At(r, "closing")
  /\ parts' = [parts EXCEPT ![r] = Absent]
  /\ To(r, "releasing")
  /\ UNCHANGED <<staged, lock, active, out, files, restarts>>

\* Mutant of Release: whatever the request was, the other guard goes too.
ReleaseBoth(r) ==
  /\ At(r, "releasing")
  /\ staged' = staged - req[r].guard
  /\ req' = [req EXCEPT ![r].guard = 0, ![r].phase = "leaving"]
  /\ UNCHANGED <<lock, active, disk, restarts>>

\* StagingReservationGuard::release, without the mutex
Release(r) ==
  /\ At(r, "releasing")
  /\ staged' = staged - req[r].guard
  /\ req' = [req EXCEPT ![r].guard = 0,
                        ![r].phase = IF req[r].kind = "sealed" THEN "leaving" ELSE "over"]
  /\ UNCHANGED <<lock, active, disk, restarts>>

\* EncryptedUploadGuard::drop
Leave(r) ==
  /\ At(r, "leaving")
  /\ active' = active - 1
  /\ To(r, "over")
  /\ UNCHANGED <<staged, lock, disk, restarts>>

----------------------------------------------------------------------------

Underway(r) == ~At(r, "idle") /\ ~At(r, "over")

\* The daemon is killed and started again: its counters begin at 0, its part
\* and temporary files stay.
Restart ==
  /\ restarts < MaxRestarts
  /\ restarts' = restarts + 1
  /\ req' = [r \in Request |->
               IF Underway(r) THEN [req[r] EXCEPT !.phase = "over", !.seen = 0, !.guard = 0] ELSE req[r]]
  /\ out' = [r \in Request |->
               IF At(r, "copying") /\ files[req[r].path] # r THEN Absent ELSE out[r]]
  /\ staged' = 0
  /\ lock' = Nobody
  /\ active' = 0
  /\ UNCHANGED <<parts, files>>

Receive(r) ==
  \/ NotSealed(r) \/ Seal(r) \/ SealAgain(r)
  \/ ReceiveInMemory(r) \/ BodyFails(r)
  \/ Reserve(r) \/ Reserved(r) \/ NotReserved(r)
  \/ OpenPart(r) \/ OpenFails(r) \/ WritePart(r) \/ PartFails(r) \/ Staged(r)

Save(r) ==
  \/ Reject(r) \/ CheckSpace(r) \/ ChooseName(r)
  \/ Persist(r) \/ OpenTemp(r) \/ SaveTemp(r) \/ CreateFile(r) \/ Write(r)
  \/ Copied(r) \/ RenameFails(r) \/ SaveFails(r)

Return(r) == Close(r) \/ Release(r) \/ Leave(r)

Step(r) == Receive(r) \/ Save(r) \/ Return(r)

Next == (\E r \in Request : Arrive(r) \/ Step(r)) \/ Restart

Spec == Init /\ [][Next]_vars /\ \A r \in Request : WF_vars(Step(r))

----------------------------------------------------------------------------

\* The staged bytes are within the cap, although reservations are released
\* while another one is decided on the counter it has read.
WithinCap == staged <= StagingCap

\* The counter is the sum of the reservations held, and part files belong to
\* the requests that hold them: nothing is left by any way a request ends,
\* but for the files of a daemon that was killed.
Accounted ==
  /\ staged = MapThenSumSet(LAMBDA r : req[r].guard, Request)
  /\ restarts = 0 =>
       \A r \in Request : parts[r] # Absent =>
         req[r].guard = req[r].size /\ Blocks(parts[r]) <= req[r].guard

\* Who is past try_acquire and has not left.
Sealed ==
  {r \in Request : /\ Underway(r) /\ ~At(r, "sealing")
                   /\ req[r].kind = "sealed"}

\* Encrypted uploads are at most MaxSealed at a time, so that their memory
\* is bounded, whichever threads race for the counter.
SealedBounded == Cardinality(Sealed) <= MaxSealed

\* Whatever has a name in the download directory is whole, except for a
\* portal upload that was copied there.
FilesAreWhole ==
  \A p \in Path : files[p] # Nobody =>
    LET r == files[p]
    IN  (req[r].kind # "portal" \/ InMemory(r)) => out[r] = req[r].size

\* Every upload ends, also when threads race for the counter of encrypted
\* uploads and for the mutex.
EveryUploadEnds == \A r \in Request : Underway(r) ~> ~Underway(r)
=============================================================================
