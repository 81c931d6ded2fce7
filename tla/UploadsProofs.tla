--------------------------- MODULE UploadsProofs ---------------------------
(***************************************************************************)
(* Proofs about Uploads, for any requests, sizes and limits.               *)
(***************************************************************************)
EXTENDS Uploads, FiniteSetTheorems, WellFoundedInduction, TLAPS

\* A request that has arrived has all its fields.
Fielded == \A r \in Request : At(r, "idle") \/ req[r] \in Requests

\* Who decides on a reservation holds the mutex, and the counter can only
\* have fallen since it was read.
Deciding ==
  /\ \A r \in Request : At(r, "reserving") => lock = r /\ staged <= req[r].seen
  /\ staged <= StagingCap

\* The counter of encrypted uploads counts them.
Counted ==
  /\ active = Cardinality(Sealed)
  /\ active <= MaxSealed
  /\ \A r \in Request : At(r, "sealing") \/ At(r, "leaving") => req[r].kind = "sealed"

Typed == TypeOK /\ Fielded

\* Whose file has a name has chosen that name and saved the file.
Owned ==
  \A p \in Path : files[p] # Nobody =>
    /\ req[files[p]].path = p
    /\ req[files[p]].phase \in {"copying", "closing", "releasing", "leaving", "over"}

\* A part file that is renamed is whole, one that is copied is the portal's.
Complete ==
  \A r \in Request :
    /\ At(r, "copying") => req[r].kind = "portal" /\ ~InMemory(r)
    /\ req[r].phase \in {"received", "ready"} =>
         req[r].kind # "transfer" \/ InMemory(r) \/ parts[r] = req[r].size

\* A reservation is held from try_reserve on until the handler returns.
Reserving ==
  \A r \in Request :
    /\ req[r].phase \in {"idle", "sealing", "reading", "reserving", "leaving", "over"} =>
         req[r].guard = 0
    /\ req[r].phase \in {"opening", "staging"} => req[r].guard = req[r].size

\* While the daemon has not been killed, a part file has a request that is
\* at work on it and has reserved its space.
Parted ==
  restarts = 0 =>
    \A r \in Request : parts[r] # Absent =>
      /\ req[r].phase \notin {"idle", "sealing", "reading", "reserving", "opening",
                              "releasing", "leaving", "over"}
      /\ req[r].guard = req[r].size
      /\ Blocks(parts[r]) <= req[r].guard

----------------------------------------------------------------------------
(* Types.                                                                  *)

LEMMA InitTyped == Init => Typed
  BY UploadsAssumption DEF Init, Typed, TypeOK, Fielded, At, Idle, Path, Absent

LEMMA StepTyped ==
  ASSUME Typed, NEW r \in Request, Arrive(r) \/ Step(r),
         At(r, "leaving") => active > 0
  PROVE  Typed'
<1> USE UploadsAssumption DEF Typed, TypeOK, Fielded, At, To, Absent, disk
<1>1. CASE Arrive(r)
  <2>1. PICK k \in Kind, n \in Name, s \in Size :
          req' = [req EXCEPT ![r] =
                    [phase |-> IF s > MaxSize[k] THEN "over"
                               ELSE IF k = "sealed" THEN "sealing" ELSE "reading",
                     kind |-> k, name |-> n, size |-> s, path |-> <<n, 0>>,
                     seen |-> IF k = "sealed" THEN active ELSE 0, guard |-> 0]]
    BY <1>1 DEF Arrive
  <2>2. req'[r] \in Requests
    BY <2>1 DEF Requests, Phases, Path
  <2> QED BY <1>1, <2>1, <2>2 DEF Arrive, Idle, Requests
<1>2. CASE Receive(r)
  <2>1. CASE NotSealed(r) \/ Seal(r) \/ SealAgain(r)
    BY <2>1 DEF NotSealed, Seal, SealAgain, Requests, Phases, Idle
  <2>2. CASE ReceiveInMemory(r) \/ BodyFails(r)
    BY <2>2 DEF ReceiveInMemory, BodyFails, Requests, Phases, Idle
  <2>3. CASE Reserve(r) \/ Reserved(r) \/ NotReserved(r)
    BY <2>3 DEF Reserve, Reserved, NotReserved, Requests, Phases, Idle
  <2>4. CASE OpenPart(r) \/ OpenFails(r)
    BY <2>4 DEF OpenPart, OpenFails, Requests, Phases, Idle
  <2>5. CASE WritePart(r) \/ PartFails(r) \/ Staged(r)
    BY <2>5 DEF WritePart, PartFails, Staged, Requests, Phases, Idle
  <2> QED BY <1>2, <2>1, <2>2, <2>3, <2>4, <2>5 DEF Receive
<1>3. CASE Save(r)
  <2>1. CASE Reject(r) \/ CheckSpace(r)
    BY <2>1 DEF Reject, CheckSpace, Requests, Phases, Idle
  <2>2. CASE ChooseName(r)
    <3>1. PICK i \in 0 .. Tries :
            req' = [req EXCEPT ![r].phase = IF Materialised(r) /\ NameFirst(r)
                                            THEN "named" ELSE "ready",
                               ![r].path = <<req[r].name, i>>]
      BY <2>2 DEF ChooseName
    <3>2. req[r] \in Requests
      BY <2>2 DEF ChooseName
    <3>3. <<req[r].name, i>> \in Path
      BY <3>2 DEF Requests, Path
    <3>4. req'[r] \in Requests
      BY <3>1, <3>2, <3>3 DEF Requests, Phases
    <3> QED BY <2>2, <3>1, <3>4 DEF ChooseName, Idle, Requests
  <2>3. CASE Persist(r) \/ SaveTemp(r)
    <3>1. req[r] \in Requests
      BY <2>3 DEF Persist, SaveTemp
    <3>2. PICK n \in Nat \cup {-1} : Rename(r, n)
      BY <2>3 DEF Persist, SaveTemp
    <3>3. files' \in [Path -> Request \cup {Nobody}] /\ out' \in [Request -> Nat \cup {-1}]
      BY <3>2 DEF Rename
    <3> QED BY <2>3, <3>1, <3>3 DEF Persist, SaveTemp, Requests, Phases, Idle
  <2>4. CASE OpenTemp(r) \/ CreateFile(r) \/ Write(r)
    BY <2>4 DEF OpenTemp, CreateFile, Write, Requests, Phases, Idle
  <2>5. CASE Copied(r) \/ RenameFails(r) \/ SaveFails(r)
    BY <2>5 DEF Copied, RenameFails, SaveFails, CloseCopy, Requests, Phases, Idle
  <2> QED BY <1>3, <2>1, <2>2, <2>3, <2>4, <2>5 DEF Save
<1>4. CASE Return(r)
  BY <1>4 DEF Return, Close, Release, Leave, Requests, Phases, Idle
<1> QED BY <1>1, <1>2, <1>3, <1>4 DEF Step

----------------------------------------------------------------------------
(* The counters.                                                           *)

\* A step of a request leaves the others where they are.
OthersStay(r) == \A q \in Request \ {r} : req'[q] = req[q]

LEMMA StepOfOne ==
  ASSUME Typed, NEW r \in Request, Arrive(r) \/ Step(r)
  PROVE  OthersStay(r)
<1> USE DEF Typed, TypeOK, OthersStay, To
<1>1. CASE Arrive(r)
  BY <1>1 DEF Arrive
<1>2. CASE Receive(r)
  BY <1>2 DEF Receive, NotSealed, Seal, SealAgain, ReceiveInMemory, BodyFails, Reserve,
              Reserved, NotReserved, OpenPart, OpenFails, WritePart, PartFails, Staged
<1>3. CASE Save(r)
  BY <1>3 DEF Save, Reject, CheckSpace, ChooseName, Persist, OpenTemp, SaveTemp,
              CreateFile, Write, Copied, RenameFails, SaveFails
<1>4. CASE Return(r)
  BY <1>4 DEF Return, Close, Release, Leave
<1> QED BY <1>1, <1>2, <1>3, <1>4 DEF Step

\* Where a step that does not change the counter or the mutex may lead.
LEMMA Undecided ==
  ASSUME Typed, NEW r \in Request, Arrive(r) \/ Step(r), staged' = staged, lock' = lock
  PROVE  ~At(r, "reserving")' \/ UNCHANGED req
<1> USE DEF Typed, TypeOK, Fielded, Requests, Idle, At, To
<1>1. CASE Arrive(r)
  BY <1>1 DEF Arrive
<1>2. CASE Receive(r)
  <2>1. CASE NotSealed(r) \/ Seal(r) \/ SealAgain(r) \/ ReceiveInMemory(r) \/ BodyFails(r)
    BY <2>1 DEF NotSealed, Seal, SealAgain, ReceiveInMemory, BodyFails
  <2>2. CASE Reserve(r) \/ Reserved(r) \/ NotReserved(r)
    BY <2>2, UploadsAssumption DEF Reserve, Reserved, NotReserved
  <2>3. CASE OpenPart(r) \/ OpenFails(r) \/ WritePart(r) \/ PartFails(r) \/ Staged(r)
    BY <2>3 DEF OpenPart, OpenFails, WritePart, PartFails, Staged
  <2> QED BY <1>2, <2>1, <2>2, <2>3 DEF Receive
<1>3. CASE Save(r)
  <2>1. CASE Reject(r) \/ CheckSpace(r) \/ ChooseName(r)
    BY <2>1 DEF Reject, CheckSpace, ChooseName
  <2>2. CASE Persist(r) \/ OpenTemp(r) \/ SaveTemp(r) \/ CreateFile(r)
    BY <2>2 DEF Persist, OpenTemp, SaveTemp, CreateFile
  <2>3. CASE Write(r) \/ Copied(r) \/ RenameFails(r) \/ SaveFails(r)
    BY <2>3 DEF Write, Copied, RenameFails, SaveFails
  <2> QED BY <1>3, <2>1, <2>2, <2>3 DEF Save
<1>4. CASE Return(r)
  BY <1>4 DEF Return, Close, Release, Leave
<1> QED BY <1>1, <1>2, <1>3, <1>4 DEF Step

\* What a step does to the counter and the mutex.
LEMMA Counters ==
  ASSUME NEW r \in Request, Arrive(r) \/ Step(r)
  PROVE  Reserve(r) \/ Reserved(r) \/ NotReserved(r) \/ Release(r) \/ UNCHANGED <<staged, lock>>
BY DEF Step, Receive, Save, Return, Arrive, NotSealed, Seal, SealAgain, ReceiveInMemory,
       BodyFails, OpenPart, OpenFails, WritePart, PartFails, Staged, Reject, CheckSpace,
       ChooseName, Persist, OpenTemp, SaveTemp, CreateFile, Write, Copied, RenameFails, SaveFails,
       Close, Leave

LEMMA StepDeciding ==
  ASSUME Typed, Deciding, NEW r \in Request, Arrive(r) \/ Step(r)
  PROVE  Deciding'
<1> USE UploadsAssumption DEF Typed, TypeOK, Fielded, Deciding, At, To
<1>0. OthersStay(r)
  BY StepOfOne
<1>1. CASE Reserve(r)
  BY <1>1 DEF Reserve
<1>2. CASE Reserved(r)
  <2>1. req[r] \in Requests
    BY <1>2 DEF Reserved
  <2>2. staged + req[r].size <= StagingCap /\ req[r].size \in Nat
    BY <1>2, <2>1 DEF Reserved, HasRoom, Requests
  <2>3. \A q \in Request : ~At(q, "reserving")'
    BY <1>2 DEF Reserved
  <2> QED BY <1>2, <2>2, <2>3 DEF Reserved
<1>3. CASE NotReserved(r)
  BY <1>3 DEF NotReserved
<1>4. CASE Release(r)
  <2>1. req[r].guard \in Nat
    BY <1>4 DEF Release, Requests
  <2>2. staged' <= staged /\ lock' = lock /\ ~At(r, "reserving")'
    BY <1>4, <2>1 DEF Release
  <2>3. \A q \in Request : At(q, "reserving") => req[q].seen \in Int
    BY DEF Requests
  <2>4. staged' \in Int
    BY <1>4, <2>1 DEF Release
  <2> QED BY <1>0, <2>2, <2>3, <2>4 DEF OthersStay
<1>5. CASE UNCHANGED <<staged, lock>>
  <2>1. ~At(r, "reserving")' \/ UNCHANGED req
    BY <1>5, Undecided
  <2> QED BY <1>0, <1>5, <2>1 DEF OthersStay
<1> QED
  BY <1>1, <1>2, <1>3, <1>4, <1>5, Counters

\* r holds an EncryptedUploadGuard.
Holds(r) == Underway(r) /\ ~At(r, "sealing") /\ req[r].kind = "sealed"

\* Only two steps make or drop one.
LEMMA Holding ==
  ASSUME Typed, Counted, NEW r \in Request, Arrive(r) \/ Step(r)
  PROVE  \/ Seal(r) \/ Leave(r)
         \/ /\ Holds(r)' <=> Holds(r)
            /\ At(r, "sealing")' \/ At(r, "leaving")' => req[r].kind' = "sealed"
            /\ active' = active
<1> USE DEF Typed, TypeOK, Fielded, Requests, Idle, At, To, Holds, Underway, Counted
<1>1. CASE Arrive(r)
  BY <1>1 DEF Arrive
<1>2. CASE Receive(r)
  <2>1. CASE NotSealed(r) \/ SealAgain(r) \/ ReceiveInMemory(r) \/ BodyFails(r)
    BY <2>1 DEF NotSealed, SealAgain, ReceiveInMemory, BodyFails
  <2>2. CASE Reserve(r) \/ Reserved(r) \/ NotReserved(r)
    BY <2>2 DEF Reserve, Reserved, NotReserved
  <2>3. CASE OpenPart(r) \/ OpenFails(r) \/ WritePart(r) \/ PartFails(r) \/ Staged(r)
    BY <2>3 DEF OpenPart, OpenFails, WritePart, PartFails, Staged
  <2> QED BY <1>2, <2>1, <2>2, <2>3 DEF Receive
<1>3. CASE Save(r)
  <2>1. CASE Reject(r) \/ CheckSpace(r) \/ ChooseName(r)
    BY <2>1 DEF Reject, CheckSpace, ChooseName
  <2>2. CASE Persist(r) \/ OpenTemp(r) \/ SaveTemp(r) \/ CreateFile(r)
    BY <2>2 DEF Persist, OpenTemp, SaveTemp, CreateFile
  <2>3. CASE Write(r) \/ Copied(r) \/ RenameFails(r) \/ SaveFails(r)
    BY <2>3 DEF Write, Copied, RenameFails, SaveFails
  <2> QED BY <1>3, <2>1, <2>2, <2>3 DEF Save
<1>4. CASE Close(r) \/ Release(r)
  BY <1>4 DEF Close, Release
<1> QED BY <1>1, <1>2, <1>3, <1>4 DEF Step, Return

LEMMA SealedFinite == IsFiniteSet(Sealed) /\ Cardinality(Sealed) \in Nat
<1>1. Sealed \subseteq Request
  BY DEF Sealed
<1> QED BY <1>1, UploadsAssumption, FS_Subset, FS_CardinalityType

LEMMA StepCounted ==
  ASSUME Typed, Counted, NEW r \in Request, Arrive(r) \/ Step(r)
  PROVE  Counted'
<1> USE UploadsAssumption DEF Typed, TypeOK, Fielded
<1>0. \A q \in Request \ {r} : req'[q] = req[q]
  BY StepOfOne DEF OthersStay
<1>a. Sealed = {q \in Request : Holds(q)}
  BY DEF Sealed, Holds
<1>b. Sealed' = {q \in Request : Holds(q)'}
  BY DEF Sealed, Holds
<1>c. \A q \in Request \ {r} : Holds(q)' <=> Holds(q)
  BY <1>0 DEF Holds, Underway, At
<1>1. CASE Seal(r)
  <2>1. req[r] \in Requests /\ req[r].kind = "sealed" /\ ~Holds(r)
    BY <1>1 DEF Seal, Counted, Holds, Underway, At
  <2>2. Holds(r)' /\ ~At(r, "sealing")' /\ ~At(r, "leaving")'
    BY <1>1, <2>1 DEF Seal, Holds, Underway, At, Requests
  <2>3. Sealed' = Sealed \cup {r} /\ r \notin Sealed
    BY <1>a, <1>b, <1>c, <2>1, <2>2
  <2>4. Cardinality(Sealed') = Cardinality(Sealed) + 1
    BY <2>3, SealedFinite, FS_AddElement
  <2>5. active' = active + 1 /\ active < MaxSealed
    BY <1>1 DEF Seal
  <2> QED BY <1>0, <2>2, <2>4, <2>5 DEF Counted, At
<1>2. CASE Leave(r)
  <2>1. req[r] \in Requests /\ Holds(r)
    BY <1>2 DEF Leave, Counted, Holds, Underway, At
  <2>2. ~Holds(r)' /\ ~At(r, "sealing")' /\ ~At(r, "leaving")'
    BY <1>2, <2>1 DEF Leave, Holds, Underway, At, To, Requests
  <2>3. Sealed' = Sealed \ {r} /\ r \in Sealed
    BY <1>a, <1>b, <1>c, <2>1, <2>2
  <2>4. Cardinality(Sealed') = Cardinality(Sealed) - 1
    BY <2>3, SealedFinite, FS_RemoveElement
  <2>5. active' = active - 1
    BY <1>2 DEF Leave
  <2> QED BY <1>0, <2>2, <2>4, <2>5 DEF Counted, At
<1>3. CASE /\ Holds(r)' <=> Holds(r)
           /\ At(r, "sealing")' \/ At(r, "leaving")' => req[r].kind' = "sealed"
           /\ active' = active
  <2>1. Sealed' = Sealed
    BY <1>3, <1>a, <1>b, <1>c
  <2> QED BY <1>0, <1>3, <2>1 DEF Counted, At
<1> QED BY <1>1, <1>2, <1>3, Holding

\* The guard of a request that leaves is counted.
LEMMA Leaving ==
  ASSUME Typed, Counted, NEW r \in Request, At(r, "leaving")
  PROVE  active > 0
<1>1. r \in Sealed
  BY DEF Sealed, Underway, At, Counted
<1>2. Cardinality(Sealed) # 0
  BY <1>1, SealedFinite, FS_EmptySet
<1> QED BY <1>2, SealedFinite DEF Counted

----------------------------------------------------------------------------
(* The files.                                                              *)

Kept == Owned /\ Complete /\ FilesAreWhole

\* A step that renames nothing and does not touch a file that has a name.
LEMMA SameFiles ==
  ASSUME Typed, Kept, NEW r \in Request, OthersStay(r), files' = files,
         req[r] \in Requests \/ \A p \in Path : files[p] # r,
         \A q \in Request \ {r} : out'[q] = out[q] /\ parts'[q] = parts[q],
         \/ \A p \in Path : files[p] # r
         \/ /\ req'[r].path = req[r].path /\ req'[r].kind = req[r].kind
            /\ req'[r].size = req[r].size
            /\ req'[r].phase \in {"copying", "closing", "releasing", "leaving", "over"}
            /\ out'[r] = out[r] \/ (req[r].kind = "portal" /\ ~InMemory(r)),
         At(r, "copying")' => req[r].kind' = "portal" /\ ~InMemory(r)',
         req'[r].phase \in {"received", "ready"} =>
           req'[r].kind # "transfer" \/ InMemory(r)' \/ parts'[r] = req'[r].size
  PROVE  Kept'
<1> USE DEF Typed, TypeOK
<1>1. Owned'
  BY DEF Kept, Owned, OthersStay
<1>2. Complete'
  BY DEF Kept, Complete, OthersStay, At, InMemory
<1>3. FilesAreWhole'
  BY DEF Kept, FilesAreWhole, OthersStay, InMemory
<1> QED BY <1>1, <1>2, <1>3 DEF Kept

\* Who has saved nothing yet owns no name.
LEMMA NoOwner ==
  ASSUME Typed, Kept, NEW r \in Request,
         req[r].phase \notin {"copying", "closing", "releasing", "leaving", "over"}
  PROVE  \A p \in Path : files[p] # r
BY UploadsAssumption DEF Typed, TypeOK, Kept, Owned

\* A whole file that takes a name, from whoever has it.
LEMMA Renamed ==
  ASSUME Typed, Kept, NEW r \in Request, OthersStay(r), req[r] \in Requests,
         Rename(r, req[r].size), \A p \in Path : files[p] # r,
         req'[r].path = req[r].path, req'[r].size = req[r].size,
         req'[r].phase \in {"closing", "releasing"},
         \A q \in Request \ {r} : parts'[q] = parts[q]
  PROVE  Kept'
<1> USE DEF Typed, TypeOK
<1>0. req[r].path \in Path /\ files'[req[r].path] = r /\ out'[r] = req[r].size
  BY DEF Requests, Rename
<1>1. \A p \in Path \ {req[r].path} :
        /\ files'[p] = files[p]
        /\ files[p] # Nobody => out'[files[p]] = out[files[p]]
  <2> SUFFICES ASSUME NEW p \in Path \ {req[r].path}, files[p] # Nobody
               PROVE  files'[p] = files[p] /\ out'[files[p]] = out[files[p]]
    BY DEF Rename
  <2>1. files[p] # r /\ files[p] \in Request
    OBVIOUS
  <2>2. files[p] # files[req[r].path]
    BY <1>0 DEF Kept, Owned
  <2> QED BY <2>1, <2>2 DEF Rename
<1>2. Owned'
  BY <1>0, <1>1 DEF Kept, Owned, OthersStay
<1>3. Complete'
  BY DEF Kept, Complete, OthersStay, At, InMemory
<1>4. FilesAreWhole'
  BY <1>0, <1>1 DEF Kept, FilesAreWhole, OthersStay, InMemory
<1> QED BY <1>2, <1>3, <1>4 DEF Kept

LEMMA StepKept ==
  ASSUME Typed, Kept, NEW r \in Request, Arrive(r) \/ Step(r)
  PROVE  Kept'
<1>0. OthersStay(r)
  BY StepOfOne
<1> USE DEF Typed, TypeOK, Fielded, Requests, Idle, At, To, disk
<1>1. CASE Arrive(r)
  BY <1>0, <1>1, NoOwner, SameFiles DEF Arrive
<1>2. CASE NotSealed(r) \/ Seal(r) \/ SealAgain(r) \/ BodyFails(r)
  BY <1>0, <1>2, NoOwner, SameFiles DEF NotSealed, Seal, SealAgain, BodyFails
<1>3. CASE ReceiveInMemory(r)
  BY <1>0, <1>3, NoOwner, SameFiles DEF ReceiveInMemory, InMemory
<1>4. CASE Reserve(r) \/ Reserved(r) \/ NotReserved(r)
  BY <1>0, <1>4, NoOwner, SameFiles DEF Reserve, Reserved, NotReserved
<1>5. CASE OpenPart(r) \/ OpenFails(r) \/ WritePart(r) \/ PartFails(r)
  BY <1>0, <1>5, NoOwner, SameFiles DEF OpenPart, OpenFails, WritePart, PartFails
<1>6. CASE Staged(r)
  BY <1>0, <1>6, NoOwner, SameFiles DEF Staged, InMemory
<1>7. CASE Reject(r)
  BY <1>0, <1>7, NoOwner, SameFiles DEF Reject
<1>8. CASE CheckSpace(r)
  BY <1>0, <1>8, NoOwner, SameFiles DEF CheckSpace, Materialised, NameFirst, InMemory
<1>9. CASE ChooseName(r)
  <2>1. req[r] \in Requests /\ \A p \in Path : files[p] # r
    BY <1>9, NoOwner DEF ChooseName
  <2>2. PICK i \in 0 .. Tries :
          req' = [req EXCEPT ![r].phase = IF Materialised(r) /\ NameFirst(r)
                                          THEN "named" ELSE "ready",
                             ![r].path = <<req[r].name, i>>]
    BY <1>9 DEF ChooseName
  <2>3. /\ req'[r].kind = req[r].kind /\ req'[r].size = req[r].size
        /\ req'[r].phase = IF Materialised(r) /\ NameFirst(r) THEN "named" ELSE "ready"
    BY <2>1, <2>2
  <2>4. req'[r].phase = "ready" =>
          req'[r].kind # "transfer" \/ InMemory(r)' \/ parts[r] = req[r].size
    BY <1>9, <2>1, <2>3
       DEF ChooseName, Materialised, NameFirst, InMemory, Kept, Complete
  <2> QED BY <1>0, <1>9, <2>1, <2>3, <2>4, SameFiles DEF ChooseName
<1>10. CASE Persist(r)
  <2>1. parts[r] = req[r].size
    BY <1>10 DEF Persist, Kept, Complete, Materialised
  <2> QED BY <1>0, <1>10, <2>1, NoOwner, Renamed DEF Persist
<1>11. CASE OpenTemp(r)
  BY <1>0, <1>11, NoOwner, SameFiles DEF OpenTemp
<1>12. CASE SaveTemp(r)
  BY <1>0, <1>12, NoOwner, Renamed DEF SaveTemp
<1>13. CASE CreateFile(r)
  <2>1. req[r] \in Requests /\ \A p \in Path : files[p] # r
    BY <1>13, NoOwner DEF CreateFile
  <2>2. /\ req'[r] = [req[r] EXCEPT !.phase = "copying"]
        /\ req[r].kind = "portal" /\ ~InMemory(r) /\ ~InMemory(r)'
    BY <1>13, <2>1 DEF CreateFile, Materialised, InMemory
  <2>3. files' = [files EXCEPT ![req[r].path] = r] /\ req[r].path \in Path
    BY <1>13, <2>1 DEF CreateFile
  <2>4. \A q \in Request \ {r} : out'[q] = out[q] /\ parts'[q] = parts[q]
    BY <1>13 DEF CreateFile
  <2>5. Owned'
    BY <1>0, <2>1, <2>2, <2>3 DEF Kept, Owned, OthersStay
  <2>6. Complete'
    BY <1>0, <2>1, <2>2, <2>4 DEF Kept, Complete, OthersStay, InMemory
  <2>7. FilesAreWhole'
    BY <1>0, <2>1, <2>2, <2>3, <2>4 DEF Kept, FilesAreWhole, OthersStay, InMemory
  <2> QED BY <2>5, <2>6, <2>7 DEF Kept
<1>14. CASE Write(r)
  BY <1>0, <1>14, NoOwner, SameFiles DEF Write, Kept, Complete, InMemory
<1>15. CASE Copied(r) \/ RenameFails(r) \/ SaveFails(r)
  BY <1>0, <1>15, NoOwner, SameFiles DEF Copied, RenameFails, SaveFails, CloseCopy, Kept, Complete, InMemory
<1>16. CASE Close(r) \/ Release(r) \/ Leave(r)
  <2>1. req[r] \in Requests /\ req'[r].path = req[r].path /\ req'[r].kind = req[r].kind
    BY <1>16 DEF Close, Release, Leave
  <2>2. req'[r].size = req[r].size /\ req'[r].phase \in {"releasing", "leaving", "over"}
    BY <1>16 DEF Close, Release, Leave
  <2>3. files' = files /\ \A q \in Request : out'[q] = out[q]
    BY <1>16 DEF Close, Release, Leave
  <2>4. \A q \in Request \ {r} : parts'[q] = parts[q]
    BY <1>16 DEF Close, Release, Leave
  <2>5. ~At(r, "copying")' /\ req'[r].phase \notin {"received", "ready"}
    BY <2>2
  <2>6. \A q \in Request \ {r} : out'[q] = out[q] /\ parts'[q] = parts[q]
    BY <2>3, <2>4
  <2> HIDE DEF Typed, TypeOK, Fielded, Requests, Idle, At, To, disk
  <2> QED BY <1>0, <2>1, <2>2, <2>3, <2>5, <2>6, SameFiles
<1> QED
  BY <1>1, <1>2, <1>3, <1>4, <1>5, <1>6, <1>7, <1>8, <1>9, <1>10, <1>11, <1>12, <1>13,
     <1>14, <1>15, <1>16 DEF Step, Receive, Save, Return

----------------------------------------------------------------------------
(* The sum of the guards.  A fold is what some function of the subsets of  *)
(* the set gives for the whole set; the function exists because the set is *)
(* finite, and what holds of all its values is shown by induction over the *)
(* subsets.                                                                *)

First(s) == CHOOSE x \in s : TRUE

LEMMA FirstIn ==
  ASSUME NEW s, s # {}
  PROVE  First(s) \in s
  BY DEF First

\* The empty set is good, and a set is if it is without its first element.
Hereditary(S, Good) ==
  \A s \in SUBSET S : s = {} \/ s \ {First(s)} \in Good => s \in Good

\* Induction over the subsets of a finite set.
LEMMA SubsetInduction ==
  ASSUME NEW S, IsFiniteSet(S), NEW Good, Hereditary(S, Good)
  PROVE  \A s \in SUBSET S : s \in Good
<1> DEFINE Bad == {s \in SUBSET S : s \notin Good}
<1> SUFFICES ASSUME Bad # {} PROVE FALSE
  OBVIOUS
<1>1. Bad \subseteq FiniteSubsetsOf(S)
  BY FS_FiniteSubsetsOfFinite
<1>2. IsWellFoundedOn(StrictSubsetOrdering(S), FiniteSubsetsOf(S))
  BY FS_StrictSubsetOrderingWellFounded
<1>3. PICK s \in Bad : \A t \in Bad : ~ (<<t, s>> \in StrictSubsetOrdering(S))
  <2> HIDE DEF Bad
  <2> QED BY <1>1, <1>2, WFMin
<1>4. s # {} /\ s \ {First(s)} \notin Good
  BY DEF Hereditary
<1>5. First(s) \in s /\ s \ {First(s)} \in Bad
  BY <1>4, FirstIn
<1>6. <<s \ {First(s)}, s>> \in StrictSubsetOrdering(S)
  BY <1>5 DEF StrictSubsetOrdering
<1> QED BY <1>3, <1>5, <1>6

LEMMA SubsetOfFinite ==
  ASSUME NEW S, IsFiniteSet(S), NEW s \in SUBSET S
  PROVE  /\ IsFiniteSet(s) /\ Cardinality(s) \in Nat
         /\ Cardinality(s) <= Cardinality(S)
         /\ (Cardinality(s) = 0) <=> (s = {})
         /\ s # {} => /\ s \ {First(s)} \in SUBSET S
                      /\ Cardinality(s \ {First(s)}) = Cardinality(s) - 1
  BY FS_Subset, FS_CardinalityType, FS_EmptySet, FS_RemoveElement, FirstIn

\* One round of the recursion that defines the sum: g are requests, h is the
\* sum for smaller sets of them.
Round(g, h, s) == IF s = {} THEN 0 ELSE g[First(s)].guard + h[s \ {First(s)}]

Guarded(g, S) == \A r \in S : g[r].guard \in Nat

Sum(g, S) == MapThenSumSet(LAMBDA r : g[r].guard, S)

\* h is right for the sets of up to n elements.
RightUpTo(g, S, h, n) ==
  /\ h \in [SUBSET S -> Nat]
  /\ \A s \in SUBSET S : Cardinality(s) <= n => h[s] = Round(g, h, s)

LEMMA RightExists ==
  ASSUME NEW S, IsFiniteSet(S), NEW g, Guarded(g, S)
  PROVE  \E h : RightUpTo(g, S, h, Cardinality(S))
<1> DEFINE Good == {T \in SUBSET S : \E h : RightUpTo(g, S, h, Cardinality(T))}
<1>1. {} \in Good
  <2> DEFINE h == [s \in SUBSET S |-> 0]
  <2>1. ASSUME NEW s \in SUBSET S, Cardinality(s) <= 0 PROVE s = {}
    <3>1. Cardinality(s) \in Nat /\ ((Cardinality(s) = 0) <=> (s = {}))
      BY SubsetOfFinite
    <3> QED BY <2>1, <3>1
  <2>2. RightUpTo(g, S, h, 0)
    BY <2>1 DEF RightUpTo, Round
  <2>3. Cardinality({}) = 0
    BY FS_EmptySet
  <2> QED BY <2>2, <2>3
<1>2. ASSUME NEW T \in SUBSET S, T # {}, T \ {First(T)} \in Good
      PROVE  T \in Good
  <2>1. /\ Cardinality(T \ {First(T)}) = Cardinality(T) - 1
        /\ Cardinality(T) \in Nat
    BY <1>2, SubsetOfFinite
  <2>2. PICK h : RightUpTo(g, S, h, Cardinality(T) - 1)
    BY <1>2, <2>1
  <2> DEFINE k == [s \in SUBSET S |-> Round(g, h, s)]
  <2>3. ASSUME NEW s \in SUBSET S PROVE Round(g, h, s) \in Nat
    <3>1. CASE s = {}
      BY <3>1 DEF Round
    <3>2. CASE s # {}
      <4>1. First(s) \in S /\ s \ {First(s)} \in SUBSET S
        BY <3>2, FirstIn
      <4>2. g[First(s)].guard \in Nat /\ h[s \ {First(s)}] \in Nat
        BY <2>2, <4>1 DEF Guarded, RightUpTo
      <4> QED BY <3>2, <4>2 DEF Round
    <3> QED BY <3>1, <3>2
  <2>4. k \in [SUBSET S -> Nat]
    BY <2>3
  <2>5. ASSUME NEW s \in SUBSET S, Cardinality(s) <= Cardinality(T)
        PROVE  k[s] = Round(g, k, s)
    <3>1. CASE s = {}
      BY <3>1 DEF Round
    <3>2. CASE s # {}
      <4> DEFINE u == s \ {First(s)}
      <4>1. u \in SUBSET S /\ Cardinality(u) = Cardinality(s) - 1
        BY <3>2, SubsetOfFinite
      <4>2. Cardinality(s) \in Nat
        BY SubsetOfFinite
      <4>3. h[u] = Round(g, h, u)
        BY <2>1, <2>2, <2>5, <4>1, <4>2 DEF RightUpTo
      <4>4. h[u] = k[u]
        BY <4>1, <4>3
      <4> QED BY <3>2, <4>4 DEF Round
    <3> QED BY <3>1, <3>2
  <2> HIDE DEF k
  <2>6. RightUpTo(g, S, k, Cardinality(T))
    BY <2>4, <2>5 DEF RightUpTo
  <2> QED BY <2>6
<1>3. Hereditary(S, Good)
  <2> HIDE DEF Good
  <2> QED BY <1>1, <1>2 DEF Hereditary
<1>4. S \in Good
  <2> HIDE DEF Good
  <2> QED BY <1>3, SubsetInduction
<1> QED BY <1>4

\* h is the function of the definition.
Sums(g, S, h) ==
  /\ h \in [SUBSET S -> Nat]
  /\ Sum(g, S) = h[S]
  /\ \A s \in SUBSET S : h[s] = Round(g, h, s)

LEMMA SumIs ==
  ASSUME NEW S, IsFiniteSet(S), NEW g, Guarded(g, S)
  PROVE  \E h : Sums(g, S, h)
<1> DEFINE P(h) == h = [s \in SUBSET S |-> Round(g, h, s)]
           it == CHOOSE h : P(h)
           Good == {s \in SUBSET S : it[s] \in Nat}
<1>1. Sum(g, S) = it[S]
  BY DEF Sum, MapThenSumSet, MapThenFoldSet, Round, First
<1>2. \E h : P(h)
  <2>1. PICK h : RightUpTo(g, S, h, Cardinality(S))
    BY RightExists
  <2>2. \A s \in SUBSET S : Cardinality(s) <= Cardinality(S)
    BY SubsetOfFinite
  <2>3. h \in [SUBSET S -> Nat] /\ \A s \in SUBSET S : h[s] = Round(g, h, s)
    BY <2>1, <2>2 DEF RightUpTo
  <2>4. P(h)
    BY <2>3
  <2> QED BY <2>4
<1>3. P(it)
  <2> HIDE DEF P
  <2> QED BY <1>2
<1> HIDE DEF it
<1>4. \A s \in SUBSET S : it[s] = Round(g, it, s)
  BY <1>3
<1>5. ASSUME NEW s \in SUBSET S, s = {} \/ s \ {First(s)} \in Good
      PROVE  s \in Good
  <2>1. CASE s = {}
    <3>1. it[s] = 0
      BY <1>4, <2>1 DEF Round
    <3> QED BY <3>1
  <2>2. CASE s # {}
    <3>1. First(s) \in S /\ it[s \ {First(s)}] \in Nat
      BY <1>5, <2>2, FirstIn
    <3>2. g[First(s)].guard \in Nat
      BY <3>1 DEF Guarded
    <3>3. it[s] = g[First(s)].guard + it[s \ {First(s)}]
      BY <1>4, <2>2 DEF Round
    <3>4. it[s] \in Nat
      BY <3>1, <3>2, <3>3
    <3> QED BY <3>4
  <2> QED BY <2>1, <2>2
<1>6. \A s \in SUBSET S : s \in Good
  <2> HIDE DEF Good
  <2>1. Hereditary(S, Good)
    BY <1>5 DEF Hereditary
  <2> QED BY <2>1, SubsetInduction
<1>7. it \in [SUBSET S -> Nat]
  BY <1>3, <1>6
<1>8. Sums(g, S, it)
  BY <1>1, <1>4, <1>7 DEF Sums
<1> QED BY <1>8

LEMMA SumOfNone ==
  ASSUME NEW S, IsFiniteSet(S), NEW g, \A r \in S : g[r].guard = 0
  PROVE  Sum(g, S) = 0
<1>1. Guarded(g, S)
  BY DEF Guarded
<1>2. PICK h : Sums(g, S, h)
  BY <1>1, SumIs
<1> DEFINE Good == {s \in SUBSET S : h[s] = 0}
<1>3. ASSUME NEW s \in SUBSET S, s = {} \/ s \ {First(s)} \in Good
      PROVE  s \in Good
  <2>1. h[s] = Round(g, h, s)
    BY <1>2 DEF Sums
  <2> QED BY <1>3, <2>1, FirstIn DEF Round
<1>4. S \in Good
  <2> HIDE DEF Good
  <2>1. Hereditary(S, Good)
    BY <1>3 DEF Hereditary
  <2> QED BY <2>1, SubsetInduction
<1> QED BY <1>2, <1>4 DEF Sums

\* Who changes one guard changes the sum by as much.
LEMMA SumChanges ==
  ASSUME NEW S, IsFiniteSet(S), NEW x \in S, NEW f, NEW g, Guarded(f, S), Guarded(g, S),
         \A r \in S \ {x} : g[r].guard = f[r].guard
  PROVE  Sum(g, S) = Sum(f, S) + g[x].guard - f[x].guard
<1>1. PICK h : Sums(f, S, h)
  BY SumIs
<1>2. PICK k : Sums(g, S, k)
  BY SumIs
<1>3. f[x].guard \in Nat /\ g[x].guard \in Nat
  BY DEF Guarded
<1> DEFINE Differ(s) == k[s] = h[s] + (IF x \in s THEN g[x].guard - f[x].guard ELSE 0)
           Good == {s \in SUBSET S : Differ(s)}
<1>4. ASSUME NEW s \in SUBSET S, s = {} \/ s \ {First(s)} \in Good
      PROVE  Differ(s)
  <2>1. h[s] = Round(f, h, s) /\ k[s] = Round(g, k, s)
    BY <1>1, <1>2 DEF Sums
  <2>2. CASE s = {}
    BY <1>3, <2>1, <2>2 DEF Round
  <2>3. CASE s # {}
    <3> DEFINE y == First(s)
               u == s \ {y}
    <3>1. y \in s /\ y \in S /\ u \in SUBSET S /\ Differ(u) /\ (x \in s <=> x = y \/ x \in u)
      BY <1>4, <2>3, FirstIn
    <3>2. k[s] = g[y].guard + k[u] /\ h[s] = f[y].guard + h[u]
      BY <2>1, <2>3 DEF Round
    <3>3. h[u] \in Nat /\ k[u] \in Nat
      BY <1>1, <1>2, <3>1 DEF Sums
    <3>4. f[y].guard \in Nat /\ g[y].guard \in Nat
      BY <3>1 DEF Guarded
    <3>5. CASE y = x
      <4>1. x \notin u /\ x \in s
        BY <3>1, <3>5
      <4> QED BY <3>1, <3>2, <3>3, <3>4, <3>5, <4>1
    <3>6. CASE y # x
      <4>1. g[y].guard = f[y].guard
        BY <3>1, <3>6
      <4> QED BY <1>3, <3>1, <3>2, <3>3, <3>4, <3>6, <4>1
    <3> QED BY <3>5, <3>6
  <2> QED BY <2>2, <2>3
<1>5. S \in Good
  <2> HIDE DEF Differ
  <2>1. \A s \in SUBSET S : s = {} \/ s \ {First(s)} \in Good => s \in Good
    BY <1>4
  <2> HIDE DEF Good
  <2>2. Hereditary(S, Good)
    BY <2>1 DEF Hereditary
  <2> QED BY <2>2, SubsetInduction
<1>6. h[S] \in Nat /\ k[S] \in Nat /\ Sum(f, S) = h[S] /\ Sum(g, S) = k[S]
  BY <1>1, <1>2 DEF Sums
<1> QED BY <1>3, <1>5, <1>6

----------------------------------------------------------------------------
(* The reservations.                                                       *)

Ledger == staged = Sum(req, Request) /\ Reserving /\ Parted

LEMMA GuardType ==
  ASSUME NEW x \in [Request -> {Idle} \cup Requests]
  PROVE  Guarded(x, Request)
<1> SUFFICES ASSUME NEW r \in Request PROVE x[r].guard \in Nat
  BY DEF Guarded
<1>1. x[r] = Idle \/ x[r] \in Requests
  OBVIOUS
<1> QED BY <1>1 DEF Idle, Requests

\* What a step does to the guard of its request.
LEMMA Guarding ==
  ASSUME Typed, Reserving, NEW r \in Request, Arrive(r) \/ Step(r)
  PROVE  \/ /\ Reserved(r)
            /\ req[r].guard = 0 /\ req'[r].guard = req[r].size
         \/ Release(r) /\ req'[r].guard = 0
         \/ ~Release(r) /\ req'[r].guard = req[r].guard /\ staged' = staged
<1> USE DEF Typed, TypeOK, Fielded, Requests, Idle, At, To, Reserving
<1>1. CASE Arrive(r)
  BY <1>1 DEF Arrive, Release
<1>2. CASE Receive(r)
  <2>1. CASE NotSealed(r) \/ Seal(r) \/ SealAgain(r) \/ ReceiveInMemory(r) \/ BodyFails(r)
    BY <2>1 DEF NotSealed, Seal, SealAgain, ReceiveInMemory, BodyFails, Release
  <2>2. CASE Reserve(r) \/ Reserved(r) \/ NotReserved(r)
    BY <2>2 DEF Reserve, Reserved, NotReserved, Release
  <2>3. CASE OpenPart(r) \/ OpenFails(r) \/ WritePart(r) \/ PartFails(r) \/ Staged(r)
    BY <2>3 DEF OpenPart, OpenFails, WritePart, PartFails, Staged, Release
  <2> QED BY <1>2, <2>1, <2>2, <2>3 DEF Receive
<1>3. CASE Save(r)
  <2>1. CASE Reject(r) \/ CheckSpace(r) \/ ChooseName(r)
    BY <2>1 DEF Reject, CheckSpace, ChooseName, Release
  <2>2. CASE Persist(r) \/ OpenTemp(r) \/ SaveTemp(r) \/ CreateFile(r)
    BY <2>2 DEF Persist, OpenTemp, SaveTemp, CreateFile, Release
  <2>3. CASE Write(r) \/ Copied(r) \/ RenameFails(r) \/ SaveFails(r)
    BY <2>3 DEF Write, Copied, RenameFails, SaveFails, Release
  <2> QED BY <1>3, <2>1, <2>2, <2>3 DEF Save
<1>4. CASE Close(r) \/ Leave(r)
  BY <1>4 DEF Close, Leave, Release
<1>5. CASE Release(r)
  BY <1>5 DEF Release
<1> QED BY <1>1, <1>2, <1>3, <1>4, <1>5 DEF Step, Return

LEMMA StepSummed ==
  ASSUME Typed, Typed', Ledger, NEW r \in Request, Arrive(r) \/ Step(r)
  PROVE  staged' = Sum(req', Request)
<1>0. Guarded(req, Request) /\ Guarded(req', Request)
  BY GuardType DEF Typed, TypeOK
<1>1. req[r].guard \in Nat /\ req'[r].guard \in Nat
  BY <1>0 DEF Guarded
<1>2. \A q \in Request \ {r} : req'[q].guard = req[q].guard
  BY StepOfOne DEF OthersStay
<1>3. Sum(req', Request) = Sum(req, Request) + req'[r].guard - req[r].guard
  BY <1>0, <1>2, SumChanges, UploadsAssumption
<1>4. staged = Sum(req, Request) /\ staged \in Int
  BY DEF Ledger, Typed, TypeOK
<1>5. CASE Reserved(r) /\ req[r].guard = 0 /\ req'[r].guard = req[r].size
  BY <1>1, <1>3, <1>4, <1>5 DEF Reserved
<1>6. CASE Release(r) /\ req'[r].guard = 0
  BY <1>1, <1>3, <1>4, <1>6 DEF Release
<1>7. CASE req'[r].guard = req[r].guard /\ staged' = staged
  BY <1>1, <1>3, <1>4, <1>7
<1> QED BY <1>5, <1>6, <1>7, Guarding DEF Ledger

\* What a step does to the part file and the guard of its request.
LEMMA StepLedger ==
  ASSUME Typed, Typed', Ledger, NEW r \in Request, Arrive(r) \/ Step(r)
  PROVE  Ledger'
<1>0. OthersStay(r)
  BY StepOfOne
<1>1. staged' = Sum(req', Request)
  BY StepSummed
<1>2. (\A q \in Request \ {r} : parts'[q] = parts[q]) /\ restarts' = restarts
  <2> USE DEF Typed, TypeOK, disk
  <2>1. CASE Arrive(r)
    BY <2>1 DEF Arrive
  <2>2. CASE Receive(r)
    BY <2>2 DEF Receive, NotSealed, Seal, SealAgain, ReceiveInMemory, BodyFails, Reserve,
                Reserved, NotReserved, OpenPart, OpenFails, WritePart, PartFails, Staged
  <2>3. CASE Save(r)
    BY <2>3 DEF Save, Reject, CheckSpace, ChooseName, Persist, OpenTemp, SaveTemp,
                CreateFile, Write, Copied, RenameFails, SaveFails
  <2>4. CASE Return(r)
    BY <2>4 DEF Return, Close, Release, Leave
  <2> QED BY <2>1, <2>2, <2>3, <2>4 DEF Step
<1> DEFINE Free0 == {"idle", "sealing", "reading", "reserving", "leaving", "over"}
           Mine ==
             /\ req[r].phase \in Free0 => req[r].guard = 0
             /\ req[r].phase \in {"opening", "staging"} => req[r].guard = req[r].size
           Whole ==
             parts[r] # Absent =>
               /\ req[r].phase \notin Free0 \cup {"opening", "releasing"}
               /\ req[r].guard = req[r].size
               /\ Blocks(parts[r]) <= req[r].guard
<1>3. Mine /\ (restarts = 0 => Whole)
  BY DEF Ledger, Reserving, Parted
<1>4. Mine' /\ (Whole => Whole')
  <2> USE <1>3 DEF Typed, TypeOK, Fielded, Requests, Idle, At, To, disk, Blocks, Absent
  <2>1. CASE Arrive(r)
    BY <2>1 DEF Arrive
  <2>2. CASE NotSealed(r) \/ Seal(r) \/ SealAgain(r) \/ ReceiveInMemory(r) \/ BodyFails(r)
    BY <2>2 DEF NotSealed, Seal, SealAgain, ReceiveInMemory, BodyFails
  <2>3. CASE Reserve(r) \/ Reserved(r) \/ NotReserved(r)
    BY <2>3 DEF Reserve, Reserved, NotReserved
  <2>4. CASE OpenPart(r) \/ OpenFails(r)
    BY <2>4 DEF OpenPart, OpenFails
  <2>5. CASE WritePart(r)
    BY <2>5 DEF WritePart
  <2>6. CASE PartFails(r) \/ Staged(r)
    BY <2>6 DEF PartFails, Staged
  <2>7. CASE Reject(r) \/ CheckSpace(r) \/ ChooseName(r)
    BY <2>7 DEF Reject, CheckSpace, ChooseName
  <2>8. CASE Persist(r) \/ OpenTemp(r) \/ SaveTemp(r) \/ CreateFile(r)
    BY <2>8 DEF Persist, OpenTemp, SaveTemp, CreateFile
  <2>9. CASE Write(r) \/ Copied(r) \/ RenameFails(r) \/ SaveFails(r)
    BY <2>9 DEF Write, Copied, RenameFails, SaveFails
  <2>10. CASE Close(r) \/ Release(r) \/ Leave(r)
    BY <2>10 DEF Close, Release, Leave
  <2> QED BY <2>1, <2>2, <2>3, <2>4, <2>5, <2>6, <2>7, <2>8, <2>9, <2>10
             DEF Step, Receive, Save, Return
<1>5. Reserving'
  BY <1>0, <1>4 DEF OthersStay, Ledger, Reserving
<1>6. Parted'
  BY <1>0, <1>2, <1>3, <1>4 DEF OthersStay, Ledger, Parted
<1> QED BY <1>1, <1>5, <1>6 DEF Ledger

----------------------------------------------------------------------------
(* Restarts, and the theorems.                                             *)

IInv == Typed /\ Deciding /\ Counted /\ Kept /\ Ledger

LEMMA InitInv == Init => IInv
<1> SUFFICES ASSUME Init PROVE IInv
  OBVIOUS
<1>1. Typed
  BY InitTyped
<1>2. Sealed = {}
  BY DEF Init, Sealed, Underway, At, Idle
<1>3. Ledger
  <2>1. Sum(req, Request) = 0
    BY SumOfNone, UploadsAssumption DEF Init, Idle
  <2> QED BY <2>1 DEF Init, Ledger, Reserving, Parted, Idle, Absent
<1> QED
  BY <1>1, <1>2, <1>3, UploadsAssumption, FS_EmptySet
     DEF Init, IInv, Deciding, Counted, Kept, Owned, Complete, FilesAreWhole, At, Idle

\* A request that a restart ended.
Ended(x) == [x EXCEPT !.phase = "over", !.seen = 0, !.guard = 0]

LEMMA EndedRequest ==
  ASSUME NEW x \in Requests
  PROVE  /\ Ended(x) \in Requests /\ Ended(x).phase = "over" /\ Ended(x).path = x.path
         /\ Ended(x).kind = x.kind /\ Ended(x).size = x.size /\ Ended(x).guard = 0
<1> DEFINE y == [x EXCEPT !.phase = "over"]
           z == [y EXCEPT !.seen = 0]
<1>1. y \in Requests /\ y.phase = "over" /\ y.path = x.path /\ y.kind = x.kind /\ y.size = x.size
  BY DEF Requests, Phases
<1>2. z \in Requests /\ z.phase = "over" /\ z.path = x.path /\ z.kind = x.kind /\ z.size = x.size
  <2> HIDE DEF y
  <2> QED BY <1>1 DEF Requests
<1>3. Ended(x) = [z EXCEPT !.guard = 0]
  BY DEF Ended
<1> HIDE DEF y, z
<1> QED BY <1>2, <1>3 DEF Requests

LEMMA Restarted == IInv /\ Restart => IInv'
<1> SUFFICES ASSUME IInv, Restart PROVE IInv'
  OBVIOUS
<1> USE UploadsAssumption DEF IInv, Typed, TypeOK
<1>0. /\ req' \in [Request -> {Idle} \cup Requests]
      /\ files' = files /\ parts' = parts
      /\ staged' = 0 /\ lock' = Nobody /\ active' = 0
  <2>1. \A r \in Request : Underway(r) => req[r] \in Requests
    BY DEF Fielded, Underway, At
  <2>3. req' \in [Request -> {Idle} \cup Requests]
    BY <2>1, EndedRequest DEF Restart, Ended
  <2> QED BY <2>3 DEF Restart
<1>1. \A r \in Request :
        /\ Underway(r) => req[r] \in Requests /\ req[r].phase # "over"
        /\ req'[r].phase = IF Underway(r) THEN "over" ELSE req[r].phase
        /\ req[r] \in Requests => /\ req'[r] \in Requests
                                  /\ req'[r].path = req[r].path
                                  /\ req'[r].kind = req[r].kind
                                  /\ req'[r].size = req[r].size
  <2> TAKE r \in Request
  <2>1. CASE Underway(r)
    <3>1. req[r] \in Requests /\ req[r].phase # "over"
      BY <2>1 DEF Fielded, Underway, At
    <3>2. req'[r] = Ended(req[r])
      BY <2>1 DEF Restart, Ended
    <3> QED BY <2>1, <3>1, <3>2, EndedRequest
  <2>2. CASE ~Underway(r)
    BY <2>2 DEF Restart
  <2> QED BY <2>1, <2>2
<1>2. \A r \in Request : req'[r].phase \in {"idle", "over"}
  BY <1>1 DEF Underway, At
<1>3. \A r \in Request : req[r].phase = "idle" \/ req[r] \in Requests
  BY DEF Fielded, At
<1>4. Typed'
  <2>1. out' \in [Request -> Nat \cup {Absent}]
    BY DEF Restart, Absent
  <2>2. Fielded'
    BY <1>1, <1>3 DEF Fielded, At, Underway
  <2>3. restarts' \in 0 .. MaxRestarts
    <3>1. restarts \in 0 .. MaxRestarts /\ MaxRestarts \in Nat
      OBVIOUS
    <3>2. restarts < MaxRestarts /\ restarts' = restarts + 1
      BY DEF Restart
    <3> HIDE DEF TypeOK, Typed
    <3> QED BY <3>1, <3>2
  <2> HIDE DEF TypeOK
  <2>4. TypeOK'
    <3> HIDE UploadsAssumption
    <3> QED BY <1>0, <2>1, <2>3 DEF TypeOK
  <2> QED BY <2>2, <2>4
<1>5. Deciding'
  BY <1>0, <1>2 DEF Deciding, At
<1>6. Counted'
  <2>1. Sealed' = {}
    BY <1>2 DEF Sealed, Underway, At
  <2> QED BY <1>0, <1>2, <2>1, FS_EmptySet DEF Counted, At
<1>7. \A p \in Path : files[p] # Nobody =>
        LET r == files[p]
        IN  /\ r \in Request /\ req[r] \in Requests /\ req[r].path = p
            /\ req'[r].phase = "over" /\ out'[r] = out[r]
  <2> TAKE p \in Path
  <2> HAVE files[p] # Nobody
  <2> DEFINE r == files[p]
  <2>1. r \in Request /\ req[r].path = p
        /\ req[r].phase \in {"copying", "closing", "releasing", "leaving", "over"}
    BY DEF Kept, Owned
  <2>2. req[r] \in Requests /\ req'[r].phase = "over"
    BY <1>1, <1>3, <2>1 DEF Underway, At
  <2>3. out'[r] = out[r]
    BY <2>1 DEF Restart
  <2> QED BY <2>1, <2>2, <2>3
<1>8. Owned'
  BY <1>0, <1>1, <1>7 DEF Owned
<1>9. Complete'
  BY <1>2 DEF Complete, At
<1>10. FilesAreWhole'
  BY <1>0, <1>1, <1>7 DEF Kept, FilesAreWhole, InMemory
<1>11. Ledger'
  <2>1. \A r \in Request : req'[r].guard = 0
    <3> TAKE r \in Request
    <3>1. CASE Underway(r)
      <4>1. req'[r] = Ended(req[r]) /\ req[r] \in Requests
        BY <1>1, <3>1 DEF Restart, Ended
      <4> QED BY <4>1, EndedRequest
    <3>2. CASE ~Underway(r)
      <4>1. req[r].phase \in {"idle", "over"} /\ req'[r] = req[r]
        BY <3>2 DEF Restart, Underway, At
      <4> QED BY <4>1 DEF Ledger, Reserving
    <3> QED BY <3>1, <3>2
  <2>2. Sum(req', Request) = 0
    BY <2>1, SumOfNone
  <2>3. Reserving'
    BY <1>2, <2>1 DEF Reserving
  <2>4. Parted'
    <3>1. restarts \in 0 .. MaxRestarts /\ MaxRestarts \in Nat
      OBVIOUS
    <3>2. restarts' = restarts + 1
      BY DEF Restart
    <3> HIDE DEF TypeOK, Typed
    <3>3. restarts' # 0
      BY <3>1, <3>2
    <3> QED BY <3>3 DEF Parted
  <2> QED BY <1>0, <2>2, <2>3, <2>4 DEF Ledger
<1> QED BY <1>4, <1>5, <1>6, <1>8, <1>9, <1>10, <1>11 DEF Kept

LEMMA Inductive == IInv /\ [Next]_vars => IInv'
<1> SUFFICES ASSUME IInv, [Next]_vars PROVE IInv'
  OBVIOUS
<1>1. ASSUME NEW r \in Request, Arrive(r) \/ Step(r) PROVE IInv'
  <2>1. Typed'
    BY <1>1, Leaving, StepTyped DEF IInv
  <2> QED BY <1>1, <2>1, StepDeciding, StepCounted, StepKept, StepLedger DEF IInv
<1>2. CASE Restart
  BY <1>2, Restarted
<1>3. CASE UNCHANGED vars
  BY <1>3 DEF vars, IInv, Typed, TypeOK, Fielded, Deciding, Counted, Sealed, Underway, Kept,
              Owned, Complete, FilesAreWhole, At, InMemory, Ledger, Reserving, Parted
<1> QED BY <1>1, <1>2, <1>3 DEF Next

LEMMA Invariance == Spec => []IInv
<1>1. Init => IInv
  BY InitInv
<1>2. IInv /\ [Next]_vars => IInv'
  BY Inductive
<1> QED BY <1>1, <1>2, PTL DEF Spec

\* Requests, counters, the mutex and the files have their types.
THEOREM TypeCorrect == Spec => []TypeOK
<1>1. IInv => TypeOK
  BY DEF IInv, Typed
<1> QED BY <1>1, Invariance, PTL

\* However many requests reserve and release, the cap of try_reserve holds.
THEOREM CapHolds == Spec => []WithinCap
<1>1. IInv => WithinCap
  BY DEF IInv, Deciding, WithinCap
<1> QED BY <1>1, Invariance, PTL

\* However many threads race for it, the counter of try_acquire lets no
\* more than MaxSealed encrypted uploads in.
THEOREM SealedLimitHolds == Spec => []SealedBounded
<1>1. IInv => SealedBounded
  BY DEF IInv, Counted, SealedBounded
<1> QED BY <1>1, Invariance, PTL

\* No interleaving of uploads of the same name, failures and restarts puts
\* a part of a file under its name, but for what the portal copies.
THEOREM WholeFiles == Spec => []FilesAreWhole
<1>1. IInv => FilesAreWhole
  BY DEF IInv, Kept
<1> QED BY <1>1, Invariance, PTL

\* The counter is the sum of the reservations held, whatever way requests end
\* and however they interleave, and but for the part files of a daemon that
\* was killed, every part file is within its request's reservation.
THEOREM ReservationsAreAccounted == Spec => []Accounted
<1>1. IInv => Accounted
  <2> SUFFICES ASSUME IInv PROVE Accounted
    OBVIOUS
  <2>1. staged = MapThenSumSet(LAMBDA r : req[r].guard, Request)
    BY DEF IInv, Ledger, Sum
  <2>2. restarts = 0 =>
          \A r \in Request : parts[r] # Absent =>
            req[r].guard = req[r].size /\ Blocks(parts[r]) <= req[r].guard
    BY DEF IInv, Ledger, Parted
  <2> QED BY <2>1, <2>2 DEF Accounted
<1> QED BY <1>1, Invariance, PTL
=============================================================================
