# Formal models of OmaSend

TLA+ modules, TLC configurations and TLAPS proofs for the Rust engine of
OmaSend (`omasend-engine`: `src/src/main.rs`, `src/src/rendezvous.rs`,
`src/src/subproc.rs`).

## The system

`omasend-engine` is one binary with two roles.  Started as a daemon it listens
on a TCP port, accepts connections one after the other and serves each in a
thread of its own; further threads listen for and send discovery beacons, watch
the download directory and watch the clipboard.  Started from the panel or a
shell with a command (`--pair-peer`, `--complete-pair`, `--accept-transfer`,
`--send`, `--set-visibility` ...) it does one operation and exits.  Daemon and
commands share nothing but the files of `~/.local/state/omarchy/omasend` and the
network, so every file is a variable shared by processes.

| Component | State it keeps | Operations | What makes it hard |
|---|---|---|---|
| Pairing handshake | `paired_peers.json` of two devices, a request in flight | `begin_local_pairing`, `complete_remote_pairing`, `p2p_complete_pairing`, `store_completed_pairing`, `add_paired_peer` | three critical sections in one handler, lost answers, expiry, replaced offers, moving addresses |
| Paired peers file | `paired_peers.json`, `.paired_peers.lock` | lock, load, save by rename | threads and processes at once, killed holders, failed saves, refused reads |
| PIN and pairing limiter | `PIN_RATE_LIMITER` | `is_pin_rate_limited`, `record_pin_attempt` | check and report are separate, purge of a full map |
| Connection limiter | `GLOBAL_ACTIVE_CONNECTIONS`, `PEER_CONNECTION_TRACKER` | `try_acquire_connection`, `ConnectionGuard::drop` | one counter changes under the mutex, the other outside it |
| Staging | `CURRENT_STAGED_BYTES`, `ACTIVE_ENCRYPTED_UPLOADS`, `.tmp_stage_*.part` files | `try_reserve`, `release`, `StagedFile::persist`, drops | release without the lock, disk space read at another moment |
| Transfer session | `pending_transfer.json` (one slot) | `/api/p2p/request`, `/decision`, `/upload`, `--accept-transfer`, `--reject-transfer` | a slot that is overwritten, decisions and uploads in between, expiry |
| Clipboard sync | hash of the last synced clip | sentinel thread, POST `/api/p2p/clipboard`, pushes to peers | echoes between devices |
| Clip staging | `clip_staging/` | stage, LRU cleanup | concurrent cleanup, caps |
| Discovery and visibility | peers file, visibility file with an expiry | listener, broadcaster, `get_visibility` | expiry at read, files rewritten by several threads |
| WAN tunnel | pid and url files | start, stop, status | processes that outlive the command |
| Download watcher | recently notified names | inotify loop | duplicates of events |
| Subprocess runner | a child and its pipes | `run_cmd_bounded`, reap | timeouts, partial output, a child that does not die |
| OmaID | `oma_id` file | Luhn check digit, normalisation | first creation by two processes |
| STUN and rendezvous status | a socket, cached answers | binding requests, NAT classification | lost datagrams |
| Web portal, QR, QML, Landlock | — | — | presentation and system configuration |
| Android server, vault, discovery, WAN | pending tokens, hash ring, counters | HTTP handler, vault, beacons | concurrent maps, timeouts |

How they interact.  `handle_connection` is the meeting point: a thread per
connection, admitted by the connection limiter, passes the PIN limiter and then
works on the files of the other components: a pairing request changes the
paired peers file, a transfer request the transfer session, an upload reserves
staging space, reads the session twice and renames a file into the download
directory, an inbound clip sets the clipboard and the hash the sentinel
compares.  Commands change the same files from other processes.  Devices meet
only through HTTP requests that may be late, lost or answered twice.

What makes each component correct:

* Pairing: a record is confirmed only through a code its own user offered to
  that device, in time, once, within the guess budget; no other request changes
  a token or an address.
* Paired peers file: every change is one call's operation on the current
  records.
* Limiters and staging: limits hold under every interleaving of check, count and
  release; counters return to what is really in use whichever way a thread ends;
  nobody is refused for ever.
* Transfer session: a token is usable for its time and no longer; a batch nobody
  disturbs is stored completely; the sender ends and reports what happened.
* Uploads: what has a name in the download directory is whole.
* Clipboard: what is on the clipboard is noticed, no clip is pushed again and
  again, and the staging directory stays within its limits.
* Discovery: who is listed was heard, who beacons is listed, who is gone is not.
* Subprocesses: a call ends, leaves no process of the command behind, and output
  that is returned is complete.

## Modules

| Module | Models | EXTENDS |
|---|---|---|
| `PairedPeers` | the records of `paired_peers.json` and what each operation does to one | |
| `PinLimiter` | the limiter's entries and map operations | |
| `PeersStore` | one device's file under concurrent calls | `PairedPeers` |
| `Pairing` | the handshake between devices | `PairedPeers`, `PinLimiter` |
| `PairingConsent` | what pairing promises; abstract | |
| `PinLimiterThreads` | the limiter inside the daemon's threads | `PinLimiter` |
| `Transfer` | senders, upload handlers and decisions over the one pending transfer | |
| `Connections` | the accepting loop and the connection guards | |
| `Uploads` | reservations, staged bodies and the saving of files | |
| `Subprocess` | a command run with a deadline | |
| `ClipStaging` | the staging directory of clips and its cleanup | |
| `Clipboard` | the sentinel, inbound clips and staging threads of one device | `ClipStaging` |
| `Discovery` | visibility, beacons and the list of peers | |
| `PairingProofs`, `TransferProofs`, `ConnectionsProofs`, `UploadsProofs`, `SubprocessProofs`, `ClipboardProofs` | proofs | the modules they are named after |
| `PinLimiterProofs` | proofs | `PinLimiterThreads` |
| `StateFilesProofs` | proofs | `PeersStore`, `Discovery` |
| `MCPairing`, `MCPeersStore`, `MCPinLimiter`, `MCTransfer`, `MCConnections`, `MCUploads`, `MCSubprocess`, `MCClipboard`, `MCDiscovery` | instances for TLC | |

Operators named `...Anyway`, `...Unlocked` and the like, with a comment that
begins with "Mutant of", are variants of the definition below them with a bug;
no specification uses them.  They document which mistake each property catches.

### PairedPeers, PeersStore

`PairedPeers` holds the pure part: `OfferedPeer`, `AddedPeer`, `AdoptedPeer` are
the records the three local operations write, `AfterAttempt` is the decision of
`complete_remote_pairing`.  A token is the serial number of the draw (32 random
bytes never repeat), a code is a member of a small set (six digits may repeat),
an address is a model value.  The name shown for a peer and `paired_at` are left
out: nothing depends on them.

`PeersStore` runs these operations in processes that take the flock, load the
whole file, save the whole file and return.  `Kill` may strike a process that
waits or holds the lock, `SaveFails` stands for any error of
`write_secure_bytes` before its rename, `ChangeMode` for whatever makes
`read_secure_file` refuse the file.  The clock value of a call is chosen when it
is made, before the lock.

### Pairing, PairingConsent

`Pairing` takes each locked operation as one step, which `PeersStore` justifies,
and models the rest of the handshake around it: the request in flight, the
handler's three critical sections (`Admit`, `CompleteRemotePairing`,
`RecordAttempt`) and the initiator's `StoreCompletedPairing`.  `TurnAway` is every
refusal before the file is locked, `GiveUp` every way the initiator ends up
storing nothing after the responder confirmed.  `Restart` empties the limiter and
ends the handlers of a daemon, `Renumber` gives a device another address.
`PostThroughTunnel` is the WAN tunnel's traffic, which arrives from loopback.
The variables `issued`, `offers`, `accepts`, `misses` are history; the code does
not have them.

`PairingConsent` is the promise: an offer is open, may be taken once, links the
offering device, and lets the other one link with the same token afterwards; it
is closed by a later offer or adoption for the same pair, and stays closed.
`Pairing` implements it under the mapping at the end of the module.

### PinLimiter, PinLimiterThreads

`PinLimiterThreads` runs `handle_connection` up to the end of a pairing request:
check, optional PIN with its report, and for a pairing completion a second check
and a second report.  Times are kept relative to the present, so that the state
space is finite without a last clock value.

### Transfer

A sender is one `p2p_send_files_to_peer`, and since it makes one request it names
the token it is given.  `slot` is `pending_transfer.json`.  The receiver's handler
of an upload goes through `LetIn` (reads the slot), `Store` (the file is saved) and
`UpdateSlot` (writes back what it read, less its file), so that other handlers,
requests and decisions come in between; a handler outlives the sender that
stopped waiting (`ReadAnswer` is the answer or its timeout, the code treats both
alike).  `Decide` reads and writes the slot in two steps, too.  Saves that fail
are ignored by the code and so are in the model.  `Restart` ends the handlers,
not the slot.

`UndisturbedUploads` leaves out what does make the receiver refuse a file, and no
more: another confirmed sender's request, a decision other than to accept, a grant
that was not saved, and the end of the lifetime.  Requests of devices that are not
confirmed, acceptances, failed updates, restarts and changes of the visibility
disturb nothing.

Assumed: the file names of one batch differ; the sender does not poll for a
decision, because this receiver never answers `PENDING` (see the findings); a
receiver that answers a byte at a time within each read timeout is left out.
What happens to the bytes of a file is in `Uploads`.

### Connections

`Check`, `CountPeer` and `Serve` are the critical section of
`try_acquire_connection`; `Leave` is the decrement of the global counter in
`ConnectionGuard::drop`, outside the mutex, and `Forget` the tracker's, inside.
A thread that panics aborts the process, so a guard is always dropped.

### Uploads

A request is one thread in `/api/p2p/upload` (`"transfer"`), `/upload`
(`"portal"`) or `/api/upload-encrypted` (`"sealed"`).  `Reserve` and `Reserved` or
`NotReserved` are the two ends of the critical section of `try_reserve`; `Release`
is outside it.  `Seal` and `SealAgain` are the outcomes of the
compare-and-exchange.  `WritePart` and `Write` use one block of the disk each.
The three ways to save a body are `Persist` (rename of the part file), `OpenTemp`
... `SaveTemp` (`write_secure_bytes`) and `CreateFile` ... `Copied` (the portal's
copy).  `files` maps a name to the request whose file has it, `out` to the blocks
written; the name was chosen earlier, by `ChooseName`, so two requests may have
chosen the same one.  `Restart` resets the counters and leaves part files and
temporary files behind.

Assumed: nobody else uses the disk or the directory; the last name
`get_unique_filepath` tries, which contains the time, is one value.

### Subprocess

One call of `run_cmd_bounded`, `run_cmd_write_stdin_bounded` or
`run_cmd_status_bounded`; `pc` is where it is, and the three loops share `Deadline`
and `TryWait`.  The command is an environment that may do anything a process can:
fork helpers, which inherit the group and the pipe, leave the group, close or
fill the pipe, exit, or ignore SIGTERM.  `PollReady` ... `Drained` are `poll` and
the two inner loops of reads, `Decide` the condition before `Some(buffer)`;
`Terminate`, `Kill` and `Reap` are `reap_process_group`, called by the guard or
after success.  Lengths are counted in chunks.  Left out: the reuse of process
numbers.

### ClipStaging, Clipboard

`ClipStaging` is the directory as a sequence of files, newest first; `Visit` is the
body of the loop of `cleanup_clip_staging`, `Surplus` what it removes.  Temporary
files, which the code counts too, are left out: counting them only removes more.

`Clipboard` runs, on one device, the sentinel, the threads of the HTTP server and
`--sync-clipboard` commands.  Reading the clipboard, reading the hash and setting
the hash are steps of their own (`ReadImage` or `ReadText`, `Compare`, `Mark`), and
so are the listing of the staging directory and each removal (`ListStaging`,
`Sweep`).  A handler sets the hash when it receives a clip (`Receive`) and the
clipboard later (`Apply`), after a fetch (`Fetched`) or a staging, or never
(`GivesUp`, the shield).  `ImageOf` is what `get_pc_image_clipboard` returns: it asks
for `image/png`, so an image that is not in `Png` is on the clipboard, set by the
user or by `Apply`, and the sentinel does not see it.  `Copy` is the user.  A hash is modelled by the clip it is
the hash of.  `changes` and `pushes` are history.  Left out: requests refused
before the hash is set, and a restarted daemon.

### Discovery

`Looks` is `get_visibility`, which takes a second step, `Lower`, when it finds an
EVERYONE that has run out.  `ReadList` is the rest of `get_discovered_peers`; `Update`
and `Depart` are the ends of `update_discovered_peer`, `SaveScan` that of
`--scan-peers`, `SavePruned` that of `prune_expired_discovered_peers`, each of
which replaces the file by what was read before.  Times are ages, so the state
space is finite without a last clock value.  `net` is a set of datagrams, so a
beacon may arrive after a later OFF; a datagram that is never received is lost.
`heard` is history.  Left out: names, ports and fingerprints, and a peer that
changes its address.

## Runs

| Run | Instance | Shows |
|---|---|---|
| `pairing_race` | 2 devices, 2 exchanges, 2 codes, 2 offers, 2 clock values, 2 tolerated failures | one-time codes, the guess budget, timeliness, the consent protocol |
| `pairing_wrong_device` | 3 devices, 4 addresses, one of them moving, hints given or not | what is stored when the request reaches another device, and that every stored token comes from an accepted offer |
| `peers_store` | 2 processes, 2 peers, 2 codes, 2 times, mode changes, kills, failed saves | serialised calls, no lost update, calls end, no confirmation without a code or a handshake |
| `peers_store_mode` | 1 process, mode changes | violated: `ExistingUnchanged` |
| `pin_limiter` | 2 threads, 2 addresses, purge at 2 entries | attempts beyond the limit, blocks that end early, and that a block ends |
| `transfer` | a confirmed sender and a stranger, 2 files, 1 decider, 3 clock values, 1 fault | type, no prolonged transfer, undisturbed batches, the sender ends |
| `transfer_success` | 2 confirmed senders | violated: `SuccessMeansAccepted` |
| `connections` | 5 connections of 2 addresses, limits 3 and 2 | limits and due refusals |
| `uploads` | 2 requests of one name, bodies of 1 (in memory) to 3 blocks, all endpoints, 1 restart | exact counters, limits, whole files, every upload ends |
| `subprocess` | 2 helpers, a pipe of 2 chunks, a limit of 2, up to 3 chunks written or fed, all three calls | no process left, honest output, calls end |
| `clipboard` | 1 server thread, 1 command, 3 texts, 3 images, one of them not a PNG, room for 2 files, 2 changes | no endless pushing, a bounded directory, clips are noticed |
| `discovery` | 1 paired peer, expiry after 1, EVERYONE for 1 | the list is fresh, finds who is there, forgets who is gone |

Bounds.  Two exchanges are every race for one code, because a code is taken out
of the record by the first; two codes tell a right guess from a wrong one; two
offers are an offer and the one that replaces it; two tolerated failures are one
that is forgiven and one that revokes.  `MaxIssues` and `MaxTime` bound the draws
and the clock and are named in the guards of `Draw` and `Tick`; `Mobile` and
`HintGiven` restrict which devices move and which hints are given in a run.  In
`Transfer`, two files are one whose handler writes back and one that must survive
it, and `MaxFaults` bounds restarts and failed saves together.  In `Connections`,
five connections exceed both limits.  In `Uploads`, a body of 1 block stays in
memory and 2 or 3 are staged; under the cap of 4 two bodies of 2 are reserved at
once, a body of 2 and one of 3 exceed it; `MaxSealed`
is 1, so that two requests race for the last slot; with `Tries` = 1 the third
file of a name gets the fallback name; the disk of 6 blocks is full in some
interleavings.  In `Subprocess`, one
chunk more than the limit and than the pipe holds is written; two helpers are one
in the group and one that left it.  In `Clipboard`, `MaxChanges` bounds copies and
inbound clips (settings that follow from them are counted but not bounded); the
texts are one with white space around it, the same without, and a secret, and one
image is too large to be sent inline; the three images do not fit the directory.
In `Discovery`, one peer is enough because every operation treats each entry by
itself, and a list that `--scan-peers` or pruning writes back is as stale as one
written for another peer; with `MaxAge` = 1 an entry is fresh, about to expire, or
old.  The same holds when `MCDiscovery.cfg` is changed to a stranger with a private
address, in EVERYONE mode or with neither (each about 300 000 states).  The proofs need none of these numbers.

`CHECK_DEADLOCK FALSE` is set for `PeersStore`, `Transfer`, `Uploads` and
`Subprocess`: a call, a batch or a request is made once, and then all is done.

Fairness.  `PeersStore` assumes weak fairness of each process's own steps (the
operating system runs it, and a flock that is free wakes a waiter; a call waits
at most for the calls before it).  It assumes nothing of `Kill` and
`ChangeMode`.  `PinLimiterThreads` assumes that time passes.  `Transfer` assumes
that the sending command runs and that its timeouts fire, and nothing of the
receiver.  `Uploads` assumes that each request's thread runs: its reads have
deadlines (`read_stream_chunk_with_deadline`), its other calls return.
`Subprocess` assumes that the calling thread is
scheduled and that the deadline comes, and nothing of the command.  `Clipboard`
assumes that the sentinel, a thread that never ends, is scheduled, and that of the
readings it repeats every 250 ms for ever some succeed (strong fairness of
`ReadImage` and `ReadText`): a clipboard that can never be read cannot be noticed.
A reading of an image that is not a PNG is never enabled, so nothing is assumed of
it, and `Noticed` is about PNGs and texts.
It assumes nothing of users, peers and server threads.  `Discovery` assumes that
the daemon's threads and a command that was started run, that time passes, that a
peer that is up keeps sending, as its broadcaster does every 3 s, and that of the
beacons it sends again and again some are received (strong fairness of `Receive`,
for beacons only: an OFF, sent once, may be lost).  `Tick` lets no beacon
be in the listener's hands for longer than `MaxAge` (15 s); handling one reads and
writes three small files.  `Pairing` has no liveness: an exchange may end in `GiveUp` at any time, which the
code allows.

## Findings

Two runs end in a violation of something the repository says of itself.

* `peers_store_mode`, `ExistingUnchanged`.  `add_paired_peer` documents that
  existing records are never modified (`rendezvous.rs:391-393`).
  `load_paired_peers` turns every failure to read the file into an empty list, so
  after a `chmod` (or damage) of `paired_peers.json` the next `--trust-peer` or
  accepted transfer registers the peer anew, unconfirmed and with another token,
  and saves a file that holds nothing else.  `ConfirmedByCall` shows what still
  holds then: nobody becomes confirmed by the loss.
* `transfer_success`, `SuccessMeansAccepted`.  The sender drops the answer to each
  upload and reports "Transfer successfully completed" (`main.rs:2814-2818`).
  Another confirmed sender's request replaces the receiver's only slot, the first
  sender's next file is refused with 403, and success is reported.

Other places where the code does not do what is said of it, or where the models
had to leave room for it.  No run checks these.

* `CHANGELOG.md:19` and `tests/simulation_test.py:189-211` say that in EVERYONE mode
  a device that is not paired reaches the consent prompt.  `/api/p2p/request`
  refuses every sender that is not confirmed before it looks at anything else
  (`main.rs:4389-4395`), so the PENDING branches behind it are never taken
  (`RequestRefused`).
* `main.rs:2907` says that the reservations "eliminate disk space check races".  The
  portal copies its staged part to the destination without a reservation
  (`main.rs:5253-5255`), so a file of up to 100 MiB is on the disk twice, and
  another upload that was granted its space may find none (`Write`, `PartFails`).
* The hash of an inbound text is that of the text as received (`main.rs:4864`,
  `5066`, `5122`), the sentinel's that of the trimmed text (`main.rs:1805`).  A text
  with white space around it is therefore pushed back once by each device that
  receives it.  `PushBudget` allows it, a push for each inbound clip; what it
  excludes is that this goes on for ever on one device.
* `README.md:28` promises bidirectional clipboard sync for "PNG, JPEG, WebP".
  `get_pc_image_clipboard` asks for `image/png` and nothing else (`main.rs:1816`,
  `1821`), so an image that is offered as JPEG or WebP only is never noticed and
  never sent.  The engine itself offers inbound images that way
  (`main.rs:1833-1837`).  `Noticed` is stated for PNGs and texts (`ImageOf`).
* A clipboard that offers an image and a text at once makes the two hashes replace
  each other at every poll (`main.rs:1734`, `1768`), so that both are pushed for
  ever.  `PushBudget` and its theorem are stated for clipboards that do not offer a
  PNG and a text at once.
* `get_visibility` writes KNOWN over a file it has read a moment ago
  (`main.rs:2009-2012`): an OFF that is set in between is lost (`Lower` after
  `SetVisibility`).  `Found` is about a visibility that stays other than OFF.
* A beacon that says EVERYONE passes the filter of the listener
  (`main.rs:2315`), but the next `get_discovered_peers` drops the entry again, as
  `Listed` shows, unless the peer is known or local.
* `run_cmd_write_stdin_bounded` is documented to work "with deadline"
  (`subproc.rs:266`), but looks at the deadline only after `write_all`
  (`subproc.rs:306`): a command that never reads its input holds the thread.
  `EveryCallEnds` covers such a call from the end of the write on.

## Proofs

All theorems hold for every value of the constants that satisfies the named
assumptions of the modules.

* `StateFilesProofs`, on `PeersStore`: `IInv` is `TypeOK` and `LockDiscipline`: who is
  between locking and returning holds the lock, and what such a call has loaded is
  what is on disk, or nothing at all when the mode kept it from reading.  It gives
  `Serialized`, `SavesAreOperations` and `ConfirmedByCall`: a list that starts from
  nothing loses records, but it confirms none.
  On `Discovery`: `DInv` is `DiscoveryTypeOK` and that neither the file nor a list that a
  process has read has a peer as seen more recently than its last beacon was
  received (`NoneNewer`); lists that are out of date are only older.  It gives `Fresh`.
  (`Discovery` calls its specification `DiscoverySpec`, and its peers `Sender`, so that
  this module can extend both.)
* `PairingProofs`: `IInv` is `TypeOK`, `RecordsInv` and `AnswersBacked`.  The
  checked invariants are not inductive alone: that a confirmed record comes from
  an accepted offer needs that a pending record still holds its own offer's
  code, expiry and failure count (`PendingBacked`), that no token is in two
  offers' records (`FreshTokens`), and that an answer in flight carries a token
  already accepted (`AnswersBacked`).  The action properties `AcceptanceEarned`
  and `KeyedByLocalUser` follow from the same invariant.  The
  refinement: the initial states map to initial states of `PairingConsent`, and
  under `IInv` every step maps to one of its steps or a stutter; one lemma per action.
* `PinLimiterProofs`: `LateFailuresBounded` needs that while an address is blocked its
  late failures and the threads that were let in and have not reported are together
  fewer than the threads (`Budget`); that holds when the block begins, because the
  failure that begins it is reported by a thread that no longer counts, and a blocked
  address lets nobody in.  `CountedOut` says that a blocked address has reached the
  limit.  `BlockKept` is proved from the invariant action by action.
* `TransferProofs`: `UsableInTime` needs that every copy of the slot in a handler
  or a decider is itself in time (`CopiesInTime`).  `UndisturbedUploads` needs
  that the slot and every copy of it approve what the sender has still to upload
  (`Covered`), because any handler and any acceptance may write its copy back.  That
  nobody else has a copy when the request is granted takes three facts: whatever is
  kept of a transfer was requested by a confirmed sender that has been answered
  (`FromRequests`), who is not confirmed is granted nothing and sends nothing
  (`Strangers`), and a file not sent yet has no handler (`Untouched`).
* `ConnectionsProofs`: both counters are cardinalities of sets of guards, the
  tracker one ahead while a guard is made (`Accounted`); while a check is under
  way the global counter can only fall, and no thread that left it can be over,
  because that takes the mutex (`Checked`), hence both limits and
  `RefusedOnlyWhenFull`.
* `UploadsProofs`: `WithinCap` needs that whoever decides on a reservation holds
  the mutex and that the counter is at most what was read (`Deciding`), because
  releases go on meanwhile; `SealedBounded` that the counter is the number of
  guards held (`Counted`), by the cardinality of the set of holders;
  `FilesAreWhole` that each request whose file has a name chose that name and is
  past saving it (`Owned`), so that a rename replaces one file and touches no
  other, and that a part file about to be renamed is complete (`Complete`).
  `Accounted` is a sum over the requests: each step changes one guard, and the sum
  and the counter by as much.  That needs which guard a request has at each point of
  its way (`Reserving`), and that a part file belongs to a request that is at work
  on it (`Parted`).  The lemmas about the sum are proved by induction over the
  subsets of the requests.
* `SubprocessProofs`: `GroupGone` needs that a call reaches its end only through a
  SIGKILL of the whole group after which nobody is left who could fork into it
  (`Reaped`, `Phases`), or without having spawned anything (`Clean`).
  `HonestOutput` needs that what was read and what is in the pipe is all that was
  written unless the limit was exceeded (`Whole`), and that a pipe that counts as
  closed is empty and has no writer unless a read failed (`Closing`).
* `ClipboardProofs`: `PushBudget` needs to know what is still to come: `Paid` says
  that the pushes made, the one the sentinel is about to make and the one that the
  clipboard at hand would cause are all paid for by changes, at each place of the
  sentinel's round.  It holds because each pass sets the hash to what was compared.
  `StagingBounded`: unless somebody has still to list the directory, the images that
  nobody is about to remove are within the limits (`Settled`), because the last one to
  list it saw every image that was written.  That what a cleanup keeps is within the
  limits (`KeptWithin`) is an induction over its fold; it does not use the order in
  which the files are visited.

The library's induction theorems have an operator as a parameter, which the provers
cannot instantiate.  Where a proof needs induction over a finite set (`UploadsProofs`,
`ClipboardProofs`), `SubsetInduction` has the set of the good subsets as a parameter
instead and is proved from the well-foundedness of the subset relation; the function
that the recursion of a sum or a fold defines is shown to exist (`RightExists`,
`FoldExists`) before anything is said of it.  `ClipStaging` uses folds and sets where
`SelectSeq` would do, which the provers have no definition of.

Every safety invariant and action property of a passing run is a theorem, except
that `PushBudget` is proved, and checked, for clipboards that do not offer a PNG and
a text at once.
Model-checked only: liveness (`EveryCallEnds` of both modules, `BlockEnds`,
`EverySendEnds`, `EveryUploadEnds`, `Noticed`, `Found`, `Gone`), which is out of the
prover's reach.  `ConsentBacked` is checked on an instance in which one device
completes, and proved for any, crossing handshakes included.  `TypeOK` of
`Clipboard` and `DiscoveryTypeOK` state the types and are in no run, though TLC finds
them true on the same instances; the latter is proved.

## Not modelled

* WAN tunnel: starting, stopping and its pid and url files.  What matters is what
  the operating system does with processes and their numbers; its traffic is in
  `Pairing`.
* `trusted_peers.json` is a constant set in `Discovery`.  Its one writer may lose an
  entry to another one; for devices with an OmaID the paired peers file has it too.
* Download watcher: it decides which notification is shown and nothing else.
* OmaID (check digit, normalisation), STUN and NAT classification, the rendezvous
  anchor, ciphers, checksums, image headers, the clipboard shield's heuristics and
  the HTTP parser: functions of bytes or pure I/O.  The modules use their results as
  model values or constants.
* Landlock: one call to the kernel at start.
* Web portal, QR code and panels: presentation.
* Android application: another program for the same protocol.  To the engine's
  modules it is a peer, which may send what the protocol allows at any time.

What would come next: the daemon's start and stop together with the tunnel, with
process numbers that are used again; two `Clipboard` devices that push to each
other.
