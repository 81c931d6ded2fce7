------------------------------ MODULE Transfer ------------------------------
(***************************************************************************)
(* Sending files to a device that runs omasend-engine.                     *)
(*                                                                         *)
(* A sender is one p2p_send_files_to_peer: it asks POST /api/p2p/request,  *)
(* is granted a token, and uploads its files one after the other, each on  *)
(* a connection of its own.  The receiver keeps the one transfer it knows  *)
(* of in pending_transfer.json.  The handler of an upload reads that slot  *)
(* before it receives the file and writes back what it read, less the      *)
(* file, after it stored it.  Commands of the receiver's user and posts to *)
(* /api/p2p/decision also read the slot and write it back.  Nothing locks  *)
(* the slot.                                                               *)
(*                                                                         *)
(* A sender makes one request, so it names the token that request is given.*)
(* requested, renewed and lost are history.                                *)
(***************************************************************************)
EXTENDS Naturals, FiniteSets

CONSTANTS
  Sender,        \* invocations of p2p_send_files_to_peer
  Confirmed,     \* those whose OmaID the receiver has confirmed
  File,          \* names of the files each of them sends
  Decider,       \* --accept-transfer, --reject-transfer and decision requests
  TransferTtl,   \* 600 s
  Visibilities,  \* bound: the modes the receiver's user has set and sets
  MaxTime,       \* bound: the last clock value
  MaxFaults    \* bound: restarts of the daemon and saves that fail

ASSUME TransferAssumption ==
  /\ Confirmed \subseteq Sender
  /\ IsFiniteSet(File) /\ File # {}
  /\ Visibilities \subseteq {"OFF", "KNOWN", "EVERYONE"}
  /\ TransferTtl \in Nat
  /\ MaxTime \in Nat
  /\ MaxFaults \in Nat

VARIABLES
  now,
  visibility,   \* the receiver's AirBridge visibility
  slot,         \* pending_transfer.json
  send,         \* the senders
  hand,         \* hand[s][f]: the receiver's handler of the upload of f
  decide,       \* the deciders
  saved,        \* <<s, f>>: file f of s is in the download directory
  faults,
  requested,    \* when a sender's request was granted
  renewed,      \* the latest time for which somebody accepted it anew
  lost          \* senders whose granted request could not be saved

vars == <<now, visibility, slot, send, hand, decide, saved, faults, requested, renewed, lost>>

NoTransfer == [status |-> "none"]

PendingTransfer ==
  [token : Sender, files : SUBSET File, status : {"PENDING", "ACCEPTED", "REJECTED"},
   expires : Nat]

Slots == {NoTransfer} \cup PendingTransfer

\* The first file not asked for yet is any of left: the order does not matter.
SenderState ==
  [phase : {"idle", "asking", "granted", "waiting", "done", "failed"}, left : SUBSET File]

\* A handler is over once its client got the answer, or nobody will.
HandlerState ==
  [phase : {"none", "arrived", "receiving", "stored", "refused", "failed", "ok"},
   copy  : Slots]

DeciderState ==
  [phase : {"asked", "read", "over"},
   op    : {"accept", "reject", "renew"}, token : Sender, t0 : Nat, copy : Slots]

NoHandler == [phase |-> "none", copy |-> NoTransfer]

TypeOK ==
  /\ now \in 0 .. MaxTime
  /\ visibility \in {"OFF", "KNOWN", "EVERYONE"}
  /\ slot \in Slots
  /\ send \in [Sender -> SenderState]
  /\ hand \in [Sender -> [File -> HandlerState]]
  /\ decide \in [Decider -> {[phase |-> "idle"]} \cup DeciderState]
  /\ saved \subseteq Sender \X File
  /\ faults \in 0 .. MaxFaults
  /\ requested \in [Sender -> Nat]
  /\ renewed \in [Sender -> Nat]
  /\ lost \subseteq Sender

Init ==
  /\ now = 0
  /\ visibility \in Visibilities
  /\ slot = NoTransfer
  /\ send = [s \in Sender |-> [phase |-> "idle", left |-> File]]
  /\ hand = [s \in Sender |-> [f \in File |-> NoHandler]]
  /\ decide = [c \in Decider |-> [phase |-> "idle"]]
  /\ saved = {}
  /\ faults = 0
  /\ requested = [s \in Sender |-> 0]
  /\ renewed = [s \in Sender |-> 0]
  /\ lost = {}

\* get_pending_transfer: one that expired is as good as none.
Live(x) == x # NoTransfer /\ now <= x.expires

Fault == faults < MaxFaults /\ faults' = faults + 1

----------------------------------------------------------------------------
(* POST /api/p2p/request and its answer.                                   *)

Phase(s, p) == send' = [send EXCEPT ![s] = [phase |-> p, left |-> send[s].left]]

\* The visibility is looked at before the body of the request is read.
RequestArrives(s) ==
  /\ send[s].phase = "idle"
  /\ Phase(s, IF visibility = "OFF" THEN "failed" ELSE "asking")
  /\ UNCHANGED <<now, visibility, slot, hand, decide, saved, faults, requested, renewed, lost>>

\* An OmaID that is not confirmed.
RequestRefused(s) ==
  /\ send[s].phase = "asking"
  /\ s \notin Confirmed
  /\ Phase(s, "failed")
  /\ UNCHANGED <<now, visibility, slot, hand, decide, saved, faults, requested, renewed, lost>>

\* Not the token of the receiver's record, or no room for the files.
RequestDenied(s) ==
  /\ send[s].phase = "asking"
  /\ s \in Confirmed
  /\ Phase(s, "failed")
  /\ UNCHANGED <<now, visibility, slot, hand, decide, saved, faults, requested, renewed, lost>>

\* Who is confirmed is accepted at once.  Whatever was in the slot is gone.
RequestGranted(s) ==
  /\ send[s].phase = "asking"
  /\ s \in Confirmed
  /\ slot' = [token |-> s, files |-> File, status |-> "ACCEPTED",
              expires |-> now + TransferTtl]
  /\ Phase(s, "granted")
  /\ requested' = [requested EXCEPT ![s] = now]
  /\ UNCHANGED <<now, visibility, hand, decide, saved, faults, renewed, lost>>

\* That the slot could not be saved is ignored.
GrantUnsaved(s) ==
  /\ send[s].phase = "asking"
  /\ s \in Confirmed
  /\ Fault
  /\ Phase(s, "granted")
  /\ lost' = lost \cup {s}
  /\ UNCHANGED <<now, visibility, slot, hand, decide, saved, requested, renewed>>

\* No answer within 15 s, although the request may have been handled.
TimeOut(s) ==
  /\ send[s].phase = "asking"
  /\ Phase(s, "failed")
  /\ UNCHANGED <<now, visibility, slot, hand, decide, saved, faults, requested, renewed, lost>>

\* The answer is lost, a connection fails or the command is stopped.
Abort(s) ==
  /\ send[s].phase \in {"granted", "waiting"}
  /\ Phase(s, "failed")
  /\ UNCHANGED <<now, visibility, slot, hand, decide, saved, faults, requested, renewed, lost>>

----------------------------------------------------------------------------
(* An upload: the sender's side and the receiver's handler.                *)

\* The handler of the upload of f gets to phase p, having read x.
Handled(s, f, p, x) == hand' = [hand EXCEPT ![s][f] = [phase |-> p, copy |-> x]]

\* The sender connects and writes the whole file.
Upload(s, f) ==
  /\ send[s].phase = "granted"
  /\ f \in send[s].left
  /\ send' = [send EXCEPT ![s] = [phase |-> "waiting", left |-> send[s].left \ {f}]]
  /\ Handled(s, f, "arrived", NoTransfer)
  /\ UNCHANGED <<now, visibility, slot, decide, saved, faults, requested, renewed, lost>>

\* Mutant of ReadAnswer: the socket has no read timeout.
AwaitAnswer(s) ==
  /\ send[s].phase = "waiting"
  /\ \A f \in File : hand[s][f].phase \notin {"arrived", "receiving", "stored"}
  /\ Phase(s, IF send[s].left = {} THEN "done" ELSE "granted")
  /\ UNCHANGED <<now, visibility, slot, hand, decide, saved, faults, requested, renewed, lost>>

\* The sender reads the answer, or waits 15 s for it in vain; it does not
\* look at it.  The batch is complete when every file was written.
ReadAnswer(s) ==
  /\ send[s].phase = "waiting"
  /\ Phase(s, IF send[s].left = {} THEN "done" ELSE "granted")
  /\ UNCHANGED <<now, visibility, slot, hand, decide, saved, faults, requested, renewed, lost>>

\* The slot approves file f of s.
Approves(x, s, f) ==
  /\ Live(x)
  /\ x.token = s
  /\ x.status = "ACCEPTED"
  /\ f \in x.files

Refuse(s, f) ==
  /\ hand[s][f].phase = "arrived"
  /\ ~Approves(slot, s, f)
  /\ Handled(s, f, "refused", NoTransfer)
  /\ UNCHANGED <<now, visibility, slot, send, decide, saved, faults, requested, renewed, lost>>

\* The slot is read; then the body arrives, for as long as it takes.
LetIn(s, f) ==
  /\ hand[s][f].phase = "arrived"
  /\ Approves(slot, s, f)
  /\ Handled(s, f, "receiving", slot)
  /\ UNCHANGED <<now, visibility, slot, send, decide, saved, faults, requested, renewed, lost>>

\* A deadline, a hash that does not match, a full disk.
UploadFails(s, f) ==
  /\ hand[s][f].phase \in {"arrived", "receiving"}
  /\ Handled(s, f, "failed", NoTransfer)
  /\ UNCHANGED <<now, visibility, slot, send, decide, saved, faults, requested, renewed, lost>>

Store(s, f) ==
  /\ hand[s][f].phase = "receiving"
  /\ Handled(s, f, "stored", hand[s][f].copy)
  /\ saved' = saved \cup {<<s, f>>}
  /\ UNCHANGED <<now, visibility, slot, send, decide, faults, requested, renewed, lost>>

\* Mutant of WrittenBack: the time to complete the batch starts again.
WrittenBackAnew(x, f) ==
  IF x.files = {f} THEN NoTransfer
  ELSE [x EXCEPT !.files = @ \ {f}, !.expires = now + TransferTtl]

\* Mutant of WrittenBack: the slot is cleared with the first file.
Cleared(x, f) == NoTransfer

\* What the handler makes of the slot it read.
WrittenBack(x, f) ==
  IF x.files = {f} THEN NoTransfer ELSE [x EXCEPT !.files = @ \ {f}]

\* The slot is removed or written, whatever it holds by now.
UpdateSlot(s, f) ==
  /\ hand[s][f].phase = "stored"
  /\ slot' = WrittenBack(hand[s][f].copy, f)
  /\ Handled(s, f, "ok", NoTransfer)
  /\ UNCHANGED <<now, visibility, send, decide, saved, faults, requested, renewed, lost>>

\* A failure to remove or to write it is ignored.
UpdateUnsaved(s, f) ==
  /\ hand[s][f].phase = "stored"
  /\ Fault
  /\ Handled(s, f, "ok", NoTransfer)
  /\ UNCHANGED <<now, visibility, slot, send, decide, saved, requested, renewed, lost>>

----------------------------------------------------------------------------
(* The receiver's user, and POST /api/p2p/decision.                        *)

Ask(c) ==
  /\ decide[c].phase = "idle"
  /\ \E op \in {"accept", "reject", "renew"}, s \in Sender :
       decide' = [decide EXCEPT ![c] =
                    [phase |-> "asked", op |-> op, token |-> s, t0 |-> now,
                     copy |-> NoTransfer]]
  /\ UNCHANGED <<now, visibility, slot, send, hand, saved, faults, requested, renewed, lost>>

\* Another token, or no transfer: an error, and nothing changes.
ReadSlot(c) ==
  /\ decide[c].phase = "asked"
  /\ decide' = [decide EXCEPT ![c] =
                  IF Live(slot) /\ slot.token = decide[c].token
                  THEN [decide[c] EXCEPT !.phase = "read", !.copy = slot]
                  ELSE [phase |-> "idle"]]
  /\ UNCHANGED <<now, visibility, slot, send, hand, saved, faults, requested, renewed, lost>>

\* Mutant of Decided: the action is stored as the status.
DecidedAsAsked(d) ==
  [d.copy EXCEPT !.status = d.op, !.expires = IF d.op = "renew" THEN d.t0 + TransferTtl ELSE @]

\* Only the decision request gives an accepted transfer its full time again.
Decided(d) ==
  [d.copy EXCEPT !.status = IF d.op = "reject" THEN "REJECTED" ELSE "ACCEPTED",
                 !.expires = IF d.op = "renew" THEN d.t0 + TransferTtl ELSE @]

\* The slot is written from what was read.  The peers an acceptance adds are
\* Pairing's AddPairedPeer.
Decide(c) ==
  /\ decide[c].phase = "read"
  /\ LET d == decide[c]
     IN  /\ slot' = Decided(d)
         /\ renewed' = IF d.op = "renew" /\ d.t0 > renewed[d.token]
                       THEN [renewed EXCEPT ![d.token] = d.t0] ELSE renewed
  /\ decide' = [decide EXCEPT ![c] = [decide[c] EXCEPT !.phase = "over"]]
  /\ UNCHANGED <<now, visibility, send, hand, saved, faults, requested, lost>>

DecideUnsaved(c) ==
  /\ decide[c].phase = "read"
  /\ Fault
  /\ decide' = [decide EXCEPT ![c] = [decide[c] EXCEPT !.phase = "over"]]
  /\ UNCHANGED <<now, visibility, slot, send, hand, saved, requested, renewed, lost>>

SetVisibility ==
  /\ visibility' \in Visibilities \ {visibility}
  /\ UNCHANGED <<now, slot, send, hand, decide, saved, faults, requested, renewed, lost>>

----------------------------------------------------------------------------

\* The daemon is started again: its handlers are gone, the slot is not.
Restart ==
  /\ Fault
  /\ send' = [s \in Sender |->
                IF send[s].phase = "asking" THEN [send[s] EXCEPT !.phase = "failed"] ELSE send[s]]
  /\ hand' = [s \in Sender |-> [f \in File |->
                IF hand[s][f].phase \in {"arrived", "receiving", "stored"}
                THEN [phase |-> "failed", copy |-> NoTransfer] ELSE hand[s][f]]]
  /\ UNCHANGED <<now, visibility, slot, decide, saved, requested, renewed, lost>>

Tick ==
  /\ now < MaxTime
  /\ now' = now + 1
  /\ UNCHANGED <<visibility, slot, send, hand, decide, saved, faults, requested, renewed, lost>>

Handle(s, f) ==
  \/ Refuse(s, f) \/ LetIn(s, f) \/ UploadFails(s, f) \/ Store(s, f)
  \/ UpdateSlot(s, f) \/ UpdateUnsaved(s, f)

Next ==
  \/ \E s \in Sender : \/ RequestArrives(s) \/ RequestRefused(s) \/ RequestDenied(s)
                       \/ RequestGranted(s) \/ GrantUnsaved(s) \/ TimeOut(s) \/ ReadAnswer(s) \/ Abort(s)
  \/ \E s \in Sender, f \in File : Upload(s, f) \/ Handle(s, f)
  \/ \E c \in Decider : Ask(c) \/ ReadSlot(c) \/ Decide(c) \/ DecideUnsaved(c)
  \/ SetVisibility \/ Restart \/ Tick

\* The sending command is run, and what it waits for has a timeout.  The
\* receiver may be as slow as it likes.
Fairness ==
  \A s \in Sender :
    /\ WF_vars(TimeOut(s))
    /\ WF_vars(ReadAnswer(s))
    /\ WF_vars(\E f \in File : Upload(s, f))

Spec == Init /\ [][Next]_vars /\ Fairness

----------------------------------------------------------------------------

\* The request of s was saved, s did not fail, its time is not over, and
\* until now there was no request of another confirmed sender and no decision
\* but to accept.
Undisturbed(s) ==
  /\ send[s].phase \in {"granted", "waiting", "done"}
  /\ \A r \in Confirmed \ {s} : send[r].phase \in {"idle", "asking"}
  /\ \A c \in Decider : decide[c].phase = "over" => decide[c].op = "accept"
  /\ s \notin lost
  /\ now <= requested[s] + TransferTtl

\* Nothing but that makes the receiver refuse a file: uploads of one batch do
\* not get in each other's way, although their handlers may run at once (the
\* sender stops waiting after 15 s) and each writes back the slot it read.
UndisturbedUploads ==
  \A s \in Sender : Undisturbed(s) => \A f \in File : hand[s][f].phase # "refused"

Latest(s) == IF renewed[s] > requested[s] THEN renewed[s] ELSE requested[s]

\* A transfer is usable for TransferTtl from its request or from the last
\* decision request that accepted it, however often it is written back.
UsableInTime ==
  slot # NoTransfer => slot.expires <= Latest(slot.token) + TransferTtl

\* A sending command ends, also when the receiver never answers.
EverySendEnds ==
  \A s \in Sender : send[s].phase = "asking" ~> send[s].phase \in {"done", "failed"}

\* A sender that reports success ("Transfer successfully completed") had no
\* file refused.
SuccessMeansAccepted ==
  \A s \in Sender : send[s].phase = "done" => \A f \in File : hand[s][f].phase # "refused"
=============================================================================
