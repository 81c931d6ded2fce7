--------------------------- MODULE TransferProofs ---------------------------
(***************************************************************************)
(* Proofs about Transfer, for any senders, files, deciders and lifetimes.  *)
(***************************************************************************)
EXTENDS Transfer, TLAPS

\* Every copy of the slot somebody holds is one that is usable in time.
InTime(x) == x # NoTransfer => x.expires <= Latest(x.token) + TransferTtl

CopiesInTime ==
  /\ InTime(slot)
  /\ \A s \in Sender : requested[s] <= now
  /\ \A s \in Sender, f \in File : InTime(hand[s][f].copy)
  /\ \A c \in Decider : decide[c].phase = "read" => InTime(decide[c].copy)

\* Files whose upload has not been looked at.
Pending(s) == {f \in File : hand[s][f].phase \in {"none", "arrived"}}

\* x approves the files p of s, granted at t.
Covers(x, s, p, t) ==
  /\ x \in PendingTransfer
  /\ x.token = s
  /\ x.status = "ACCEPTED"
  /\ x.expires = t + TransferTtl
  /\ p \subseteq x.files

\* A sender that was granted a transfer, or failed to get one.
Begun(s) == send[s].phase \notin {"idle", "asking"}

\* Nothing is granted to who is not confirmed.
Strangers ==
  \A s \in Sender \ Confirmed :
    /\ send[s].phase \in {"idle", "asking", "failed"}
    /\ \A f \in File : hand[s][f].phase = "none"

\* Wherever a transfer is kept, a confirmed sender has requested it.
Owned(x) == x # NoTransfer => x.token \in Confirmed /\ Begun(x.token)

FromRequests ==
  /\ Owned(slot)
  /\ \A s \in Sender, f \in File : Owned(hand[s][f].copy)
  /\ \A c \in Decider : decide[c].phase = "read" => Owned(decide[c].copy)

\* A file that is not sent yet has no handler.
Untouched ==
  \A s \in Sender, f \in File :
    send[s].phase \in {"idle", "asking"} \/ f \in send[s].left => hand[s][f].phase = "none"

\* The slot, and every copy of it that a handler or an acceptance may write
\* back, approves what s has still to upload.
CoveredFor(s) ==
  /\ Covers(slot, s, Pending(s), requested[s]) \/ (slot = NoTransfer /\ Pending(s) = {})
  /\ \A f \in File :
       /\ hand[s][f].phase # "refused"
       /\ hand[s][f].phase \in {"receiving", "stored"} =>
            Covers(hand[s][f].copy, s, Pending(s), requested[s])
  /\ \A c \in Decider :
       decide[c].phase = "read" /\ decide[c].op = "accept" =>
         Covers(decide[c].copy, s, Pending(s), requested[s])

Covered == \A s \in Sender : Undisturbed(s) => CoveredFor(s)

\* Who writes the slot has read a transfer from it.
HaveRead ==
  /\ \A c \in Decider : decide[c].phase = "read" =>
       decide[c].copy # NoTransfer /\ decide[c].copy.token = decide[c].token
  /\ \A s \in Sender, f \in File :
       hand[s][f].phase \in {"receiving", "stored"} => hand[s][f].copy # NoTransfer

IInv ==
  /\ TypeOK /\ HaveRead /\ CopiesInTime /\ Untouched
  /\ Strangers /\ FromRequests
  /\ Covered

----------------------------------------------------------------------------
(* Type correctness.                                                       *)

LEMMA InitType == Init => TypeOK
  BY TransferAssumption
     DEF Init, TypeOK, Slots, SenderState, HandlerState, NoHandler

\* One sender's record replaced by another of its type.
LEMMA PhaseType ==
  ASSUME send \in [Sender -> SenderState], NEW s \in Sender,
         NEW p \in {"asking", "granted", "waiting", "done", "failed"}, Phase(s, p)
  PROVE  send' \in [Sender -> SenderState]
  BY DEF Phase, SenderState

LEMMA HandledType ==
  ASSUME hand \in [Sender -> [File -> HandlerState]],
         NEW s \in Sender, NEW f \in File,
         NEW p \in {"arrived", "receiving", "stored", "refused", "failed", "ok"},
         NEW x \in Slots, Handled(s, f, p, x)
  PROVE  hand' \in [Sender -> [File -> HandlerState]]
<1> DEFINE h == [phase |-> p, copy |-> x]
<1>1. h \in HandlerState
  BY DEF HandlerState
<1>2. hand' = [hand EXCEPT ![s][f] = h]
  BY DEF Handled
<1> HIDE DEF h
<1> QED BY <1>1, <1>2

LEMMA WrittenBackType ==
  ASSUME NEW x \in Slots, x # NoTransfer, NEW f \in File
  PROVE  /\ WrittenBack(x, f) \in Slots
         /\ WrittenBack(x, f) # NoTransfer =>
              /\ WrittenBack(x, f) = [x EXCEPT !.files = x.files \ {f}]
              /\ WrittenBack(x, f).token = x.token
              /\ WrittenBack(x, f).expires = x.expires
              /\ WrittenBack(x, f).status = x.status
              /\ WrittenBack(x, f).files = x.files \ {f}
         /\ WrittenBack(x, f) = NoTransfer => x.files = {f}
<1>1. x \in PendingTransfer
  BY DEF Slots
<1>2. CASE x.files = {f}
  BY <1>2 DEF WrittenBack, Slots
<1>3. CASE x.files # {f}
  <2>1. WrittenBack(x, f) = [x EXCEPT !.files = x.files \ {f}]
    BY <1>3 DEF WrittenBack
  <2>2. WrittenBack(x, f) \in PendingTransfer
    BY <1>1, <2>1 DEF PendingTransfer
  <2>3. WrittenBack(x, f) # NoTransfer
    BY <2>2 DEF PendingTransfer, NoTransfer
  <2> QED BY <1>1, <2>1, <2>2, <2>3 DEF PendingTransfer, Slots
<1> QED BY <1>2, <1>3

LEMMA DecidedType ==
  ASSUME NEW d \in DeciderState, d.copy # NoTransfer
  PROVE  /\ Decided(d) \in PendingTransfer
         /\ Decided(d).token = d.copy.token
         /\ Decided(d).expires = IF d.op = "renew" THEN d.t0 + TransferTtl ELSE d.copy.expires
<1>1. d.copy \in PendingTransfer /\ d.t0 \in Nat /\ d.t0 + TransferTtl \in Nat
  BY TransferAssumption DEF DeciderState, Slots
<1> DEFINE e == IF d.op = "renew" THEN d.t0 + TransferTtl ELSE d.copy.expires
           st == IF d.op = "reject" THEN "REJECTED" ELSE "ACCEPTED"
<1>2. e \in Nat /\ st \in {"REJECTED", "ACCEPTED"}
  BY <1>1 DEF PendingTransfer
<1>3. Decided(d) = [d.copy EXCEPT !.status = st, !.expires = e]
  BY <1>1 DEF Decided, PendingTransfer
<1> HIDE DEF e, st
<1>4. /\ Decided(d) \in PendingTransfer
      /\ Decided(d).token = d.copy.token
      /\ Decided(d).expires = e
  BY <1>1, <1>2, <1>3 DEF PendingTransfer
<1> QED BY <1>4 DEF e

LEMMA ApprovesRead ==
  ASSUME NEW x \in Slots, NEW s, NEW f, Approves(x, s, f)
  PROVE  x # NoTransfer
  BY DEF Approves, Live

LEMMA TypeStep == TypeOK /\ HaveRead /\ [Next]_vars => TypeOK' /\ HaveRead'
<1> SUFFICES ASSUME TypeOK, HaveRead, [Next]_vars PROVE TypeOK' /\ HaveRead'
  OBVIOUS
<1> USE TransferAssumption
<1>0. \A s \in Sender, f \in File : hand[s][f] \in HandlerState /\ hand[s][f].copy \in Slots
  BY DEF TypeOK, HandlerState
<1>00. NoTransfer \in Slots
  BY DEF Slots
<1>1. ASSUME NEW s \in Sender, RequestArrives(s) PROVE TypeOK' /\ HaveRead'
  <2>1. send' \in [Sender -> SenderState]
    BY <1>1, PhaseType DEF RequestArrives, TypeOK
  <2> QED BY <1>1, <2>1 DEF RequestArrives, TypeOK, HaveRead
<1>2. ASSUME NEW s \in Sender, RequestRefused(s) PROVE TypeOK' /\ HaveRead'
  <2>1. send' \in [Sender -> SenderState]
    BY <1>2, PhaseType DEF RequestRefused, TypeOK
  <2> QED BY <1>2, <2>1 DEF RequestRefused, TypeOK, HaveRead
<1>16. ASSUME NEW s \in Sender, RequestDenied(s) PROVE TypeOK' /\ HaveRead'
  <2>1. send' \in [Sender -> SenderState]
    BY <1>16, PhaseType DEF RequestDenied, TypeOK
  <2> QED BY <1>16, <2>1 DEF RequestDenied, TypeOK, HaveRead
<1>3. ASSUME NEW s \in Sender, RequestGranted(s) PROVE TypeOK' /\ HaveRead'
  <2>1. send' \in [Sender -> SenderState]
    BY <1>3, PhaseType DEF RequestGranted, TypeOK
  <2>2. slot' \in Slots
    BY <1>3 DEF RequestGranted, TypeOK, Slots, PendingTransfer
  <2>3. requested' \in [Sender -> Nat]
    BY <1>3 DEF RequestGranted, TypeOK
  <2>4. TypeOK'
    BY <1>3, <2>1, <2>2, <2>3 DEF RequestGranted, TypeOK
  <2>5. HaveRead'
    BY <1>3 DEF RequestGranted, HaveRead
  <2> QED BY <2>4, <2>5
<1>17. ASSUME NEW s \in Sender, GrantUnsaved(s) PROVE TypeOK' /\ HaveRead'
  <2>1. send' \in [Sender -> SenderState]
    BY <1>17, PhaseType DEF GrantUnsaved, TypeOK
  <2> QED BY <1>17, <2>1 DEF GrantUnsaved, Fault, TypeOK, HaveRead
<1>4. ASSUME NEW s \in Sender, TimeOut(s) PROVE TypeOK' /\ HaveRead'
  <2>1. send' \in [Sender -> SenderState]
    BY <1>4, PhaseType DEF TimeOut, TypeOK
  <2> QED BY <1>4, <2>1 DEF TimeOut, TypeOK, HaveRead
<1>5. ASSUME NEW s \in Sender, Abort(s) PROVE TypeOK' /\ HaveRead'
  <2>1. send' \in [Sender -> SenderState]
    BY <1>5, PhaseType DEF Abort, TypeOK
  <2> QED BY <1>5, <2>1 DEF Abort, TypeOK, HaveRead
<1>6. ASSUME NEW s \in Sender, ReadAnswer(s) PROVE TypeOK' /\ HaveRead'
  <2>1. send' \in [Sender -> SenderState]
    BY <1>6, PhaseType DEF ReadAnswer, TypeOK
  <2> QED BY <1>6, <2>1 DEF ReadAnswer, TypeOK, HaveRead
<1>7. ASSUME NEW s \in Sender, NEW f \in File, Upload(s, f) PROVE TypeOK' /\ HaveRead'
  <2>1. hand' \in [Sender -> [File -> HandlerState]]
    BY <1>7, <1>00, HandledType DEF Upload, TypeOK
  <2>2. send' \in [Sender -> SenderState]
    BY <1>7 DEF Upload, TypeOK, SenderState
  <2>3. \A r \in Sender, g \in File :
          hand'[r][g] = IF r = s /\ g = f THEN [phase |-> "arrived", copy |-> NoTransfer] ELSE hand[r][g]
    BY <1>7 DEF Upload, Handled, TypeOK
  <2>4. TypeOK'
    BY <1>7, <2>1, <2>2 DEF Upload, TypeOK
  <2>5. HaveRead'
    BY <1>7, <2>3 DEF Upload, HaveRead
  <2> QED BY <2>4, <2>5
<1>8. ASSUME NEW s \in Sender, NEW f \in File, Handle(s, f) PROVE TypeOK' /\ HaveRead'
  <2> DEFINE Step(p, x) ==
        /\ Handled(s, f, p, x)
        /\ p \in {"arrived", "receiving", "stored", "refused", "failed", "ok"}
        /\ x \in Slots
        /\ p \in {"receiving", "stored"} => x # NoTransfer
        /\ slot' \in Slots /\ saved' \subseteq Sender \X File
        /\ faults' \in 0 .. MaxFaults
        /\ UNCHANGED <<now, visibility, send, decide, requested, renewed, lost>>
  <2>1. \E p, x : Step(p, x)
    <3>1. CASE Refuse(s, f)
      <4>1. Step("refused", NoTransfer) BY <3>1, <1>00 DEF Refuse, TypeOK
      <4> QED BY <4>1
    <3>2. CASE LetIn(s, f)
      <4>1. slot # NoTransfer BY <3>2, ApprovesRead DEF LetIn, TypeOK
      <4>2. Step("receiving", slot) BY <3>2, <4>1 DEF LetIn, TypeOK
      <4> QED BY <4>2
    <3>3. CASE UploadFails(s, f)
      <4>1. Step("failed", NoTransfer) BY <3>3, <1>00 DEF UploadFails, TypeOK
      <4> QED BY <4>1
    <3>4. CASE Store(s, f)
      <4>1. Step("stored", hand[s][f].copy) BY <3>4, <1>0 DEF Store, TypeOK, HaveRead
      <4> QED BY <4>1
    <3>5. CASE UpdateSlot(s, f)
      <4>1. slot' \in Slots
        BY <3>5, <1>0, WrittenBackType DEF UpdateSlot, HaveRead
      <4>2. Step("ok", NoTransfer) BY <3>5, <4>1, <1>00 DEF UpdateSlot, TypeOK
      <4> QED BY <4>2
    <3>6. CASE UpdateUnsaved(s, f)
      <4>1. Step("ok", NoTransfer) BY <3>6, <1>00 DEF UpdateUnsaved, Fault, TypeOK
      <4> QED BY <4>1
    <3> QED BY <1>8, <3>1, <3>2, <3>3, <3>4, <3>5, <3>6 DEF Handle
  <2>2. PICK p, x : Step(p, x) BY <2>1
  <2>3. hand' \in [Sender -> [File -> HandlerState]]
    BY <2>2, HandledType DEF TypeOK
  <2>4. \A r \in Sender, g \in File :
          hand'[r][g] = IF r = s /\ g = f THEN [phase |-> p, copy |-> x] ELSE hand[r][g]
    BY <2>2 DEF Handled, TypeOK
  <2> QED BY <2>2, <2>3, <2>4 DEF TypeOK, HaveRead
<1>9. ASSUME NEW c \in Decider, Ask(c) PROVE TypeOK' /\ HaveRead'
  <2>1. PICK op \in {"accept", "reject", "renew"}, s \in Sender :
          decide' = [decide EXCEPT ![c] =
            [phase |-> "asked", op |-> op, token |-> s, t0 |-> now, copy |-> NoTransfer]]
    BY <1>9 DEF Ask
  <2>2. [phase |-> "asked", op |-> op, token |-> s, t0 |-> now, copy |-> NoTransfer] \in DeciderState
    BY <1>00 DEF DeciderState, TypeOK
  <2> QED BY <1>9, <2>1, <2>2 DEF Ask, TypeOK, HaveRead
<1>10. ASSUME NEW c \in Decider, ReadSlot(c) PROVE TypeOK' /\ HaveRead'
  <2>1. decide[c] \in DeciderState
    BY <1>10 DEF ReadSlot, TypeOK
  <2>2. [decide[c] EXCEPT !.phase = "read", !.copy = slot] \in DeciderState
    BY <2>1 DEF DeciderState, TypeOK
  <2>3. Live(slot) => slot # NoTransfer
    BY DEF Live
  <2>4. [decide[c] EXCEPT !.phase = "read", !.copy = slot].copy = slot
    BY <2>1 DEF DeciderState
  <2> QED BY <1>10, <2>2, <2>3, <2>4 DEF ReadSlot, TypeOK, HaveRead
<1>11. ASSUME NEW c \in Decider, Decide(c) PROVE TypeOK' /\ HaveRead'
  <2>1. decide[c] \in DeciderState /\ decide[c].copy # NoTransfer
    BY <1>11 DEF Decide, TypeOK, HaveRead
  <2>2. slot' \in Slots
    BY <1>11, <2>1, DecidedType DEF Decide, Slots
  <2>3. [decide[c] EXCEPT !.phase = "over"] \in DeciderState
    BY <2>1 DEF DeciderState
  <2>4. [decide[c] EXCEPT !.phase = "over"].phase = "over"
    BY <2>1 DEF DeciderState
  <2>5. decide[c].t0 \in Nat
    BY <2>1 DEF DeciderState
  <2> QED BY <1>11, <2>2, <2>3, <2>4, <2>5 DEF Decide, TypeOK, HaveRead
<1>18. ASSUME NEW c \in Decider, DecideUnsaved(c) PROVE TypeOK' /\ HaveRead'
  <2>1. decide[c] \in DeciderState
    BY <1>18 DEF DecideUnsaved, TypeOK
  <2>2. [decide[c] EXCEPT !.phase = "over"] \in DeciderState
    BY <2>1 DEF DeciderState
  <2>3. [decide[c] EXCEPT !.phase = "over"].phase = "over"
    BY <2>1 DEF DeciderState
  <2> QED BY <1>18, <2>2, <2>3 DEF DecideUnsaved, Fault, TypeOK, HaveRead
<1>12. CASE SetVisibility
  BY <1>12 DEF SetVisibility, TypeOK, HaveRead
<1>13. CASE Restart
  <2> DEFINE gone(r) == [send[r] EXCEPT !.phase = "failed"]
  <2>1. \A r \in Sender : send[r].phase = "asking" => gone(r) \in SenderState
    BY DEF TypeOK, SenderState
  <2>2. [phase |-> "failed", copy |-> NoTransfer] \in HandlerState
    BY <1>00 DEF HandlerState
  <2> HIDE DEF gone
  <2>3. send' \in [Sender -> SenderState]
    BY <1>13, <2>1 DEF Restart, TypeOK, gone
  <2>4. hand' \in [Sender -> [File -> HandlerState]]
    BY <1>13, <2>2 DEF Restart, TypeOK
  <2> QED BY <1>13, <2>3, <2>4 DEF Restart, Fault, TypeOK, HaveRead
<1>14. CASE Tick
  BY <1>14 DEF Tick, TypeOK, HaveRead
<1>15. CASE UNCHANGED vars
  BY <1>15 DEF vars, TypeOK, HaveRead
<1> QED
  BY <1>1, <1>2, <1>3, <1>4, <1>5, <1>6, <1>7, <1>8, <1>9, <1>10, <1>11, <1>12, <1>13,
     <1>14, <1>15, <1>16, <1>17, <1>18 DEF Next

----------------------------------------------------------------------------
(* The handlers' table after a step of one of them.                        *)

LEMMA HandStep ==
  ASSUME TypeOK, NEW s \in Sender, NEW f \in File, NEW p, NEW x, Handled(s, f, p, x)
  PROVE  \A r \in Sender, g \in File :
           hand'[r][g] = IF r = s /\ g = f THEN [phase |-> p, copy |-> x] ELSE hand[r][g]
  BY DEF TypeOK, Handled

LEMMA SendStep ==
  ASSUME TypeOK, NEW s \in Sender, NEW p, Phase(s, p)
  PROVE  \A r \in Sender :
           send'[r] = IF r = s THEN [phase |-> p, left |-> send[s].left] ELSE send[r]
  BY DEF TypeOK, Phase

----------------------------------------------------------------------------
(* The lifetime of a transfer.                                             *)

\* The history of acceptances only grows.
LEMMA HistoryGrows ==
  ASSUME TypeOK, CopiesInTime, [Next]_vars
  PROVE  \A s \in Sender : requested'[s] >= requested[s] /\ renewed'[s] >= renewed[s]
<1> USE DEF TypeOK
<1>1. ASSUME NEW r \in Sender, RequestGranted(r)
      PROVE  \A s \in Sender : requested'[s] >= requested[s] /\ renewed'[s] >= renewed[s]
  BY <1>1 DEF RequestGranted, CopiesInTime
<1>2. ASSUME NEW c \in Decider, Decide(c)
      PROVE  \A s \in Sender : requested'[s] >= requested[s] /\ renewed'[s] >= renewed[s]
  <2>1. decide[c] \in DeciderState
    BY <1>2 DEF Decide
  <2>2. decide[c].t0 \in Nat
    BY <2>1 DEF DeciderState
  <2> QED BY <1>2, <2>2 DEF Decide
<1>3. CASE UNCHANGED <<requested, renewed>>
  BY <1>3
<1> QED
  BY <1>1, <1>2, <1>3
     DEF Next, vars, RequestArrives, RequestRefused, RequestDenied, TimeOut, Abort, ReadAnswer, Upload, Handle,
         Refuse, LetIn, UploadFails, Store, UpdateSlot, UpdateUnsaved, GrantUnsaved, DecideUnsaved,
         Ask, ReadSlot, SetVisibility, Restart, Tick

\* Latest and InTime of a value, seen after the step.
LatestThen(s) == IF renewed'[s] > requested'[s] THEN renewed'[s] ELSE requested'[s]

InTimeThen(x) == x # NoTransfer => x.expires <= LatestThen(x.token) + TransferTtl

LEMMA InTimeStays ==
  ASSUME TypeOK, TypeOK', CopiesInTime, [Next]_vars, NEW x \in Slots,
         InTime(x)
  PROVE  InTimeThen(x)
<1> SUFFICES ASSUME x # NoTransfer
             PROVE  x.expires <= LatestThen(x.token) + TransferTtl
  BY DEF InTimeThen
<1>1. x.token \in Sender /\ x.expires \in Nat
  BY DEF Slots, PendingTransfer
<1>2. /\ requested'[x.token] >= requested[x.token]
      /\ renewed'[x.token] >= renewed[x.token]
  BY <1>1, HistoryGrows
<1>3. /\ requested[x.token] \in Nat /\ requested'[x.token] \in Nat
      /\ renewed[x.token] \in Nat /\ renewed'[x.token] \in Nat
  BY <1>1 DEF TypeOK
<1> QED BY <1>1, <1>2, <1>3, TransferAssumption DEF Latest, LatestThen, InTime

LEMMA CopiesStep ==
  ASSUME TypeOK, TypeOK', HaveRead, CopiesInTime, [Next]_vars
  PROVE  CopiesInTime'
<1> USE TransferAssumption
<1>0. \A x \in Slots : InTime(x) => InTimeThen(x)
  BY InTimeStays
<1>n. InTimeThen(NoTransfer)
  BY DEF InTimeThen
<1>h. \A s \in Sender, f \in File :
        /\ hand[s][f] \in HandlerState
        /\ hand[s][f].copy \in Slots /\ InTimeThen(hand[s][f].copy)
  <2>1. \A s \in Sender, f \in File : hand[s][f] \in HandlerState
    BY DEF TypeOK
  <2> QED BY <1>0, <2>1 DEF CopiesInTime, HandlerState
<1>s. InTimeThen(slot)
  BY <1>0 DEF TypeOK, CopiesInTime
<1>d. \A c \in Decider : decide[c].phase = "read" =>
        decide[c] \in DeciderState /\ decide[c].copy \in Slots /\ InTimeThen(decide[c].copy)
  <2>1. \A c \in Decider : decide[c].phase = "read" => decide[c] \in DeciderState
    BY DEF TypeOK
  <2> QED BY <1>0, <2>1 DEF CopiesInTime, DeciderState
<1> DEFINE Goal == /\ InTimeThen(slot')
                   /\ \A s \in Sender : requested'[s] <= now'
                   /\ \A s \in Sender, f \in File : InTimeThen(hand'[s][f].copy)
                   /\ \A c \in Decider : decide'[c].phase = "read" => InTimeThen(decide'[c].copy)
<1> SUFFICES Goal
  BY DEF CopiesInTime, InTime, InTimeThen, Latest, LatestThen
\* What most actions leave alone.
<1>q. UNCHANGED <<now, requested>> => \A s \in Sender : requested'[s] <= now'
  BY DEF CopiesInTime
<1>1. CASE UNCHANGED <<now, slot, hand, decide, requested>>
  BY <1>1, <1>h, <1>s, <1>d, <1>q
<1>2. ASSUME NEW s \in Sender, RequestGranted(s) PROVE Goal
  <2>1. InTimeThen(slot')
    <3>1. slot'.token = s /\ slot'.expires = now + TransferTtl
      BY <1>2 DEF RequestGranted
    <3>2. requested'[s] = now /\ renewed'[s] \in Nat /\ now \in Nat
      BY <1>2 DEF RequestGranted, TypeOK
    <3>3. now + TransferTtl <= LatestThen(s) + TransferTtl
      BY <3>2 DEF LatestThen
    <3> QED BY <3>1, <3>3 DEF InTimeThen
  <2>2. \A r \in Sender : requested'[r] <= now'
    BY <1>2 DEF RequestGranted, TypeOK, CopiesInTime
  <2> QED BY <1>2, <2>1, <2>2, <1>h, <1>d DEF RequestGranted, InTimeThen
<1>3. ASSUME NEW s \in Sender, NEW f \in File, Upload(s, f) \/ Handle(s, f) PROVE Goal
  <2> DEFINE Step(p, x) == Handled(s, f, p, x) /\ InTimeThen(x) /\ InTimeThen(slot')
                           /\ UNCHANGED <<now, decide, requested>>
  <2>1. \E p, x : Step(p, x)
    <3>1. CASE Upload(s, f)
      <4>1. Step("arrived", NoTransfer) BY <3>1, <1>n, <1>s DEF Upload
      <4> QED BY <4>1
    <3>2. CASE Refuse(s, f)
      <4>1. Step("refused", NoTransfer) BY <3>2, <1>n, <1>s DEF Refuse
      <4> QED BY <4>1
    <3>3. CASE LetIn(s, f)
      <4>1. Step("receiving", slot) BY <3>3, <1>s DEF LetIn
      <4> QED BY <4>1
    <3>4. CASE UploadFails(s, f)
      <4>1. Step("failed", NoTransfer) BY <3>4, <1>n, <1>s DEF UploadFails
      <4> QED BY <4>1
    <3>5. CASE Store(s, f)
      <4>1. Step("stored", hand[s][f].copy) BY <3>5, <1>h, <1>s DEF Store
      <4> QED BY <4>1
    <3>6. CASE UpdateSlot(s, f)
      <4>1. hand[s][f].copy # NoTransfer
        BY <3>6 DEF UpdateSlot, HaveRead
      <4>2. InTimeThen(slot')
        BY <3>6, <4>1, <1>h, <1>n, WrittenBackType DEF UpdateSlot, InTimeThen
      <4>3. Step("ok", NoTransfer) BY <3>6, <4>2, <1>n DEF UpdateSlot
      <4> QED BY <4>3
    <3>7. CASE UpdateUnsaved(s, f)
      <4>1. Step("ok", NoTransfer) BY <3>7, <1>n, <1>s DEF UpdateUnsaved
      <4> QED BY <4>1
    <3> QED BY <1>3, <3>1, <3>2, <3>3, <3>4, <3>5, <3>6, <3>7 DEF Handle
  <2>2. PICK p, x : Step(p, x) BY <2>1
  <2>3. \A r \in Sender, g \in File :
          hand'[r][g] = IF r = s /\ g = f THEN [phase |-> p, copy |-> x] ELSE hand[r][g]
    BY <2>2, HandStep
  <2>4. \A r \in Sender, g \in File : InTimeThen(hand'[r][g].copy)
    BY <2>2, <2>3, <1>h
  <2> QED BY <2>2, <2>4, <1>d, <1>q
<1>4. ASSUME NEW c \in Decider, Ask(c) PROVE Goal
  <2>1. \A e \in Decider : decide'[e].phase = "read" => decide'[e] = decide[e]
    BY <1>4 DEF Ask, TypeOK
  <2> QED BY <1>4, <2>1, <1>h, <1>s, <1>d, <1>q DEF Ask
<1>5. ASSUME NEW c \in Decider, ReadSlot(c) PROVE Goal
  <2>1. decide[c] \in DeciderState
    BY <1>5 DEF ReadSlot, TypeOK
  <2>2. [decide[c] EXCEPT !.phase = "read", !.copy = slot].copy = slot
    BY <2>1 DEF DeciderState
  <2>3. \A e \in Decider : decide'[e].phase = "read" =>
          decide'[e] = decide[e] \/ decide'[e] = [decide[c] EXCEPT !.phase = "read", !.copy = slot]
    BY <1>5 DEF ReadSlot, TypeOK
  <2>4. \A e \in Decider : decide'[e].phase = "read" => InTimeThen(decide'[e].copy)
    BY <2>2, <2>3, <1>s, <1>d
  <2> QED BY <1>5, <2>4, <1>h, <1>s, <1>q DEF ReadSlot
<1>6. ASSUME NEW c \in Decider, Decide(c) PROVE Goal
  <2> DEFINE d == decide[c]
  <2>1. d \in DeciderState /\ d.copy # NoTransfer /\ InTimeThen(d.copy)
    BY <1>6, <1>d DEF Decide, HaveRead
  <2>2. /\ slot'.token = d.copy.token
        /\ slot'.expires = IF d.op = "renew" THEN d.t0 + TransferTtl ELSE d.copy.expires
    BY <1>6, <2>1, DecidedType DEF Decide
  <2>3. slot' \in PendingTransfer
    BY <1>6, <2>1, DecidedType DEF Decide
  <2>4. d.t0 \in Nat /\ d.copy.token \in Sender /\ d.token \in Sender
    BY <2>1, <2>2, <2>3 DEF DeciderState, PendingTransfer
  <2>5. InTimeThen(slot')
    <3>1. CASE d.op # "renew"
      BY <2>1, <2>2, <3>1 DEF InTimeThen
    <3>2. CASE d.op = "renew"
      <4>1. d.copy.token = d.token
        BY <1>6 DEF Decide, HaveRead
      <4>2. renewed'[d.token] >= d.t0
        BY <1>6, <3>2, <2>4 DEF Decide, TypeOK
      <4>3. renewed'[d.token] \in Nat /\ requested'[d.token] \in Nat
        BY <2>4 DEF TypeOK
      <4>4. d.t0 + TransferTtl <= LatestThen(d.token) + TransferTtl
        BY <4>2, <4>3, <2>4 DEF LatestThen
      <4> QED BY <2>2, <3>2, <4>1, <4>4 DEF InTimeThen
    <3> QED BY <3>1, <3>2
  <2>6. \A e \in Decider : decide'[e].phase = "read" => decide'[e] = decide[e]
    <3>1. [d EXCEPT !.phase = "over"].phase = "over"
      BY <2>1 DEF DeciderState
    <3> QED BY <1>6, <3>1 DEF Decide, TypeOK
  <2> QED BY <1>6, <2>5, <2>6, <1>h, <1>d, <1>q DEF Decide
<1>9. ASSUME NEW c \in Decider, DecideUnsaved(c) PROVE Goal
  <2>1. decide[c] \in DeciderState
    BY <1>9, <1>d DEF DecideUnsaved
  <2>2. [decide[c] EXCEPT !.phase = "over"].phase = "over"
    BY <2>1 DEF DeciderState
  <2>3. \A e \in Decider : decide'[e].phase = "read" => decide'[e] = decide[e]
    BY <1>9, <2>2 DEF DecideUnsaved, TypeOK
  <2> QED BY <1>9, <2>3, <1>h, <1>s, <1>d, <1>q DEF DecideUnsaved
<1>7. CASE Restart
  <2>1. \A s \in Sender, f \in File :
          hand'[s][f] = [phase |-> "failed", copy |-> NoTransfer] \/ hand'[s][f] = hand[s][f]
    BY <1>7 DEF Restart, TypeOK
  <2>2. \A s \in Sender, f \in File : InTimeThen(hand'[s][f].copy)
    BY <2>1, <1>h, <1>n
  <2> QED BY <1>7, <2>2, <1>s, <1>d, <1>q DEF Restart
<1>8. CASE Tick
  <2>1. \A s \in Sender : requested'[s] <= now'
    BY <1>8 DEF Tick, TypeOK, CopiesInTime
  <2> QED BY <1>8, <2>1, <1>h, <1>s, <1>d DEF Tick
<1> QED
  BY <1>1, <1>2, <1>3, <1>4, <1>5, <1>6, <1>7, <1>8, <1>9
     DEF Next, vars, RequestArrives, RequestRefused, RequestDenied, GrantUnsaved, TimeOut, Abort, ReadAnswer, SetVisibility

----------------------------------------------------------------------------
(* Whose transfer is in the slot.                                          *)

\* Who was granted a transfer, or failed to get one, does not ask again.
LEMMA BegunStays ==
  ASSUME TypeOK, [Next]_vars
  PROVE  \A s \in Sender : Begun(s) => send'[s].phase \notin {"idle", "asking"}
<1> SUFFICES ASSUME NEW s \in Sender, Begun(s)
             PROVE  send'[s].phase \notin {"idle", "asking"}
  OBVIOUS
<1>1. ASSUME NEW r \in Sender, NEW p \in {"asking", "granted", "done", "failed"}, Phase(r, p),
             p = "asking" => send[r].phase = "idle"
      PROVE  send'[s].phase \notin {"idle", "asking"}
  <2>1. send'[s] = IF s = r THEN [phase |-> p, left |-> send[r].left] ELSE send[s]
    BY <1>1, SendStep
  <2> QED BY <1>1, <2>1 DEF Begun
<1>2. ASSUME NEW r \in Sender, NEW f \in File, Upload(r, f)
      PROVE  send'[s].phase \notin {"idle", "asking"}
  <2>1. send'[s] = IF s = r THEN [phase |-> "waiting", left |-> send[r].left \ {f}] ELSE send[s]
    BY <1>2 DEF Upload, TypeOK
  <2> QED BY <2>1 DEF Begun
<1>3. CASE Restart
  BY <1>3 DEF Restart, Begun
<1>4. CASE UNCHANGED send
  BY <1>4 DEF Begun
<1> QED
  BY <1>1, <1>2, <1>3, <1>4
     DEF Next, vars, RequestArrives, RequestRefused, RequestDenied, RequestGranted, GrantUnsaved,
         TimeOut, Abort, ReadAnswer, Handle, Refuse, LetIn, UploadFails, Store, UpdateSlot,
         UpdateUnsaved, Ask, ReadSlot, Decide, DecideUnsaved, SetVisibility, Tick

LEMMA StrangersStep ==
  ASSUME TypeOK, Strangers, [Next]_vars
  PROVE  Strangers'
<1> SUFFICES ASSUME NEW s \in Sender \ Confirmed
             PROVE  /\ send'[s].phase \in {"idle", "asking", "failed"}
                    /\ \A f \in File : hand'[s][f].phase = "none"
  BY DEF Strangers
<1>0. s \in Sender /\ send[s] \in SenderState /\ send[s].phase \in {"idle", "asking", "failed"}
      /\ \A f \in File : hand[s][f].phase = "none"
  BY DEF Strangers, TypeOK
<1> DEFINE Goal == /\ send'[s].phase \in {"idle", "asking", "failed"}
                   /\ \A f \in File : hand'[s][f].phase = "none"
<1>1. ASSUME NEW r \in Sender, NEW p, Phase(r, p), UNCHANGED hand,
             r = s => p \in {"asking", "failed"}
      PROVE  Goal
  <2>1. send'[s] = IF s = r THEN [phase |-> p, left |-> send[r].left] ELSE send[s]
    BY <1>1, SendStep
  <2> QED BY <1>0, <1>1, <2>1
<1>2. ASSUME NEW r \in Sender, NEW f \in File, Upload(r, f) PROVE Goal
  <2>1. r # s
    BY <1>0, <1>2 DEF Upload
  <2>2. send'[s] = send[s]
    BY <1>2, <2>1 DEF Upload, TypeOK
  <2>3. \A g \in File : hand'[s][g] = hand[s][g]
    <3>1. Handled(r, f, "arrived", NoTransfer)
      BY <1>2 DEF Upload
    <3>2. \A q \in Sender, g \in File :
            hand'[q][g] = IF q = r /\ g = f THEN [phase |-> "arrived", copy |-> NoTransfer] ELSE hand[q][g]
      BY <3>1, HandStep
    <3> QED BY <1>0, <2>1, <3>2
  <2> QED BY <1>0, <2>2, <2>3
<1>3. ASSUME NEW r \in Sender, NEW f \in File, Handle(r, f) PROVE Goal
  <2>1. hand[r][f].phase # "none" /\ UNCHANGED send /\ \E p, x : Handled(r, f, p, x)
    BY <1>3 DEF Handle, Refuse, LetIn, UploadFails, Store, UpdateSlot, UpdateUnsaved
  <2>2. r # s
    BY <1>0, <2>1
  <2>3. \A g \in File : hand'[s][g] = hand[s][g]
    <3>1. PICK p, x : Handled(r, f, p, x)
      BY <2>1
    <3>2. \A q \in Sender, g \in File :
            hand'[q][g] = IF q = r /\ g = f THEN [phase |-> p, copy |-> x] ELSE hand[q][g]
      BY <3>1, HandStep
    <3> QED BY <1>0, <2>2, <3>2
  <2> QED BY <1>0, <2>1, <2>3
<1>4. CASE Restart
  <2>1. \/ send'[s] = send[s]
        \/ send[s].phase = "asking" /\ send'[s] = [send[s] EXCEPT !.phase = "failed"]
    BY <1>4 DEF Restart
  <2>2. send'[s].phase \in {"idle", "asking", "failed"}
    BY <1>0, <2>1 DEF SenderState
  <2>3. \A f \in File : hand'[s][f] = hand[s][f]
    BY <1>0, <1>4 DEF Restart
  <2> QED BY <1>0, <2>2, <2>3
<1>5. CASE UNCHANGED <<send, hand>>
  BY <1>0, <1>5
<1> QED
  BY <1>0, <1>1, <1>2, <1>3, <1>4, <1>5
     DEF Next, vars, RequestArrives, RequestRefused, RequestDenied, RequestGranted, GrantUnsaved,
         TimeOut, Abort, ReadAnswer, Ask, ReadSlot, Decide, DecideUnsaved, SetVisibility, Tick

\* Owned, seen after the step.
OwnedThen(x) ==
  x # NoTransfer => x.token \in Confirmed /\ send'[x.token].phase \notin {"idle", "asking"}

LEMMA FromRequestsStep ==
  ASSUME TypeOK, HaveRead, FromRequests, [Next]_vars
  PROVE  FromRequests'
<1> USE TransferAssumption
<1>0. \A x \in Slots : Owned(x) => OwnedThen(x)
  BY BegunStays, TransferAssumption DEF Owned, OwnedThen, Begun
<1>n. OwnedThen(NoTransfer)
  BY DEF OwnedThen
<1>h. \A s \in Sender, f \in File :
        /\ hand[s][f] \in HandlerState
        /\ hand[s][f].copy \in Slots /\ OwnedThen(hand[s][f].copy)
  <2>1. \A s \in Sender, f \in File : hand[s][f] \in HandlerState
    BY DEF TypeOK
  <2> QED BY <1>0, <2>1 DEF FromRequests, HandlerState
<1>s. OwnedThen(slot)
  BY <1>0 DEF TypeOK, FromRequests
<1>d. \A c \in Decider : decide[c].phase = "read" =>
        decide[c] \in DeciderState /\ decide[c].copy \in Slots /\ OwnedThen(decide[c].copy)
  <2>1. \A c \in Decider : decide[c].phase = "read" => decide[c] \in DeciderState
    BY DEF TypeOK
  <2> QED BY <1>0, <2>1 DEF FromRequests, DeciderState
<1> DEFINE Goal == /\ OwnedThen(slot')
                   /\ \A s \in Sender, f \in File : OwnedThen(hand'[s][f].copy)
                   /\ \A c \in Decider : decide'[c].phase = "read" => OwnedThen(decide'[c].copy)
<1> SUFFICES Goal
  BY DEF FromRequests, Owned, OwnedThen, Begun
<1>1. CASE UNCHANGED <<slot, hand, decide>>
  BY <1>1, <1>h, <1>s, <1>d
<1>2. ASSUME NEW s \in Sender, RequestGranted(s) PROVE Goal
  <2>1. send'[s].phase = "granted"
    <3>1. Phase(s, "granted")
      BY <1>2 DEF RequestGranted
    <3>2. send'[s] = [phase |-> "granted", left |-> send[s].left]
      BY <3>1, SendStep
    <3> QED BY <3>2
  <2>2. slot'.token = s /\ s \in Confirmed
    BY <1>2 DEF RequestGranted
  <2>3. OwnedThen(slot')
    BY <2>1, <2>2 DEF OwnedThen
  <2> QED BY <1>2, <2>3, <1>h, <1>d DEF RequestGranted
<1>3. ASSUME NEW s \in Sender, NEW f \in File, Upload(s, f) \/ Handle(s, f) PROVE Goal
  <2> DEFINE Step(p, x) == Handled(s, f, p, x) /\ OwnedThen(x) /\ OwnedThen(slot')
                           /\ UNCHANGED decide
  <2>1. \E p, x : Step(p, x)
    <3>1. CASE Upload(s, f)
      <4>1. Step("arrived", NoTransfer) BY <3>1, <1>n, <1>s DEF Upload
      <4> QED BY <4>1
    <3>2. CASE Refuse(s, f)
      <4>1. Step("refused", NoTransfer) BY <3>2, <1>n, <1>s DEF Refuse
      <4> QED BY <4>1
    <3>3. CASE LetIn(s, f)
      <4>1. Step("receiving", slot) BY <3>3, <1>s DEF LetIn
      <4> QED BY <4>1
    <3>4. CASE UploadFails(s, f)
      <4>1. Step("failed", NoTransfer) BY <3>4, <1>n, <1>s DEF UploadFails
      <4> QED BY <4>1
    <3>5. CASE Store(s, f)
      <4>1. Step("stored", hand[s][f].copy) BY <3>5, <1>h, <1>s DEF Store
      <4> QED BY <4>1
    <3>6. CASE UpdateSlot(s, f)
      <4>1. hand[s][f].copy # NoTransfer
        BY <3>6 DEF UpdateSlot, HaveRead
      <4>2. OwnedThen(slot')
        BY <3>6, <4>1, <1>h, <1>n, WrittenBackType DEF UpdateSlot, OwnedThen
      <4>3. Step("ok", NoTransfer) BY <3>6, <4>2, <1>n DEF UpdateSlot
      <4> QED BY <4>3
    <3>7. CASE UpdateUnsaved(s, f)
      <4>1. Step("ok", NoTransfer) BY <3>7, <1>n, <1>s DEF UpdateUnsaved
      <4> QED BY <4>1
    <3> QED BY <1>3, <3>1, <3>2, <3>3, <3>4, <3>5, <3>6, <3>7 DEF Handle
  <2>2. PICK p, x : Step(p, x) BY <2>1
  <2>3. \A r \in Sender, g \in File :
          hand'[r][g] = IF r = s /\ g = f THEN [phase |-> p, copy |-> x] ELSE hand[r][g]
    BY <2>2, HandStep
  <2>4. \A r \in Sender, g \in File : OwnedThen(hand'[r][g].copy)
    BY <2>2, <2>3, <1>h
  <2> QED BY <2>2, <2>4, <1>d
<1>4. ASSUME NEW c \in Decider, Ask(c) PROVE Goal
  <2>1. \A e \in Decider : decide'[e].phase = "read" => decide'[e] = decide[e]
    BY <1>4 DEF Ask, TypeOK
  <2> QED BY <1>4, <2>1, <1>h, <1>s, <1>d DEF Ask
<1>5. ASSUME NEW c \in Decider, ReadSlot(c) PROVE Goal
  <2>1. decide[c] \in DeciderState
    BY <1>5 DEF ReadSlot, TypeOK
  <2>2. [decide[c] EXCEPT !.phase = "read", !.copy = slot].copy = slot
    BY <2>1 DEF DeciderState
  <2>3. \A e \in Decider : decide'[e].phase = "read" =>
          decide'[e] = decide[e] \/ decide'[e] = [decide[c] EXCEPT !.phase = "read", !.copy = slot]
    BY <1>5 DEF ReadSlot, TypeOK
  <2>4. \A e \in Decider : decide'[e].phase = "read" => OwnedThen(decide'[e].copy)
    BY <2>2, <2>3, <1>s, <1>d
  <2> QED BY <1>5, <2>4, <1>h, <1>s DEF ReadSlot
<1>6. ASSUME NEW c \in Decider, Decide(c) PROVE Goal
  <2> DEFINE d == decide[c]
  <2>1. d \in DeciderState /\ d.copy # NoTransfer /\ OwnedThen(d.copy)
    BY <1>6, <1>d DEF Decide, HaveRead
  <2>2. slot'.token = d.copy.token
    BY <1>6, <2>1, DecidedType DEF Decide
  <2>5. OwnedThen(slot')
    BY <2>1, <2>2 DEF OwnedThen
  <2>6. \A e \in Decider : decide'[e].phase = "read" => decide'[e] = decide[e]
    <3>1. [d EXCEPT !.phase = "over"].phase = "over"
      BY <2>1 DEF DeciderState
    <3> QED BY <1>6, <3>1 DEF Decide, TypeOK
  <2> QED BY <1>6, <2>5, <2>6, <1>h, <1>d DEF Decide
<1>8. ASSUME NEW c \in Decider, DecideUnsaved(c) PROVE Goal
  <2>1. decide[c] \in DeciderState
    BY <1>8, <1>d DEF DecideUnsaved
  <2>2. [decide[c] EXCEPT !.phase = "over"].phase = "over"
    BY <2>1 DEF DeciderState
  <2>3. \A e \in Decider : decide'[e].phase = "read" => decide'[e] = decide[e]
    BY <1>8, <2>2 DEF DecideUnsaved, TypeOK
  <2> QED BY <1>8, <2>3, <1>h, <1>s, <1>d DEF DecideUnsaved
<1>7. CASE Restart
  <2>1. \A s \in Sender, f \in File :
          hand'[s][f] = [phase |-> "failed", copy |-> NoTransfer] \/ hand'[s][f] = hand[s][f]
    BY <1>7 DEF Restart, TypeOK
  <2>2. \A s \in Sender, f \in File : OwnedThen(hand'[s][f].copy)
    BY <2>1, <1>h, <1>n
  <2> QED BY <1>7, <2>2, <1>s, <1>d DEF Restart
<1> QED
  BY <1>1, <1>2, <1>3, <1>4, <1>5, <1>6, <1>7, <1>8
     DEF Next, vars, RequestArrives, RequestRefused, RequestDenied, GrantUnsaved, TimeOut, Abort, ReadAnswer, SetVisibility, Tick

----------------------------------------------------------------------------
(* Files that are not sent have no handler.                                *)

LEMMA UntouchedStep ==
  ASSUME TypeOK, Untouched, [Next]_vars
  PROVE  Untouched'
<1>s. \A s \in Sender : send[s] \in SenderState
  BY DEF TypeOK
<1>1. ASSUME NEW r \in Sender, NEW p \in {"asking", "granted", "done", "failed"}, Phase(r, p),
             UNCHANGED hand,
             p = "asking" => send[r].phase = "idle"
      PROVE  Untouched'
  <2>1. \A s \in Sender : send'[s] = IF s = r THEN [phase |-> p, left |-> send[r].left] ELSE send[s]
    BY <1>1, SendStep
  <2>2. \A s \in Sender : send'[s].left = send[s].left
    BY <2>1
  <2>3. \A s \in Sender : send'[s].phase \in {"idle", "asking"} => send[s].phase \in {"idle", "asking"}
    BY <1>1, <2>1
  <2> QED BY <1>1, <2>2, <2>3 DEF Untouched
<1>2. ASSUME NEW r \in Sender, NEW f \in File, Upload(r, f) PROVE Untouched'
  <2>1. \A s \in Sender :
          send'[s] = IF s = r THEN [phase |-> "waiting", left |-> send[r].left \ {f}] ELSE send[s]
    BY <1>2 DEF Upload, TypeOK
  <2>2. \A s \in Sender, g \in File :
          hand'[s][g] = IF s = r /\ g = f THEN [phase |-> "arrived", copy |-> NoTransfer] ELSE hand[s][g]
    BY <1>2, HandStep DEF Upload
  <2> QED BY <2>1, <2>2 DEF Untouched
<1>3. ASSUME NEW r \in Sender, NEW f \in File, Handle(r, f) PROVE Untouched'
  <2>1. hand[r][f].phase # "none" /\ UNCHANGED send /\ \E p, x : Handled(r, f, p, x)
    BY <1>3 DEF Handle, Refuse, LetIn, UploadFails, Store, UpdateSlot, UpdateUnsaved
  <2>2. PICK p, x : Handled(r, f, p, x)
    BY <2>1
  <2>3. \A s \in Sender, g \in File :
          hand'[s][g] = IF s = r /\ g = f THEN [phase |-> p, copy |-> x] ELSE hand[s][g]
    BY <2>2, HandStep
  <2> QED BY <2>1, <2>3 DEF Untouched
<1>4. CASE UNCHANGED <<send, hand>>
  BY <1>4 DEF Untouched
<1>5. CASE Restart
  <2>1. \A s \in Sender :
          \/ send'[s] = send[s]
          \/ send[s].phase = "asking" /\ send'[s] = [send[s] EXCEPT !.phase = "failed"]
    BY <1>5 DEF Restart
  <2>2. \A s \in Sender, f \in File : hand[s][f].phase = "none" => hand'[s][f] = hand[s][f]
    BY <1>5 DEF Restart
  <2>3. \A s \in Sender : send'[s].phase \in {"idle", "asking"} => send'[s] = send[s]
    BY <2>1, <1>s DEF SenderState
  <2>4. \A s \in Sender : send'[s].left = send[s].left
    BY <2>1, <1>s DEF SenderState
  <2> QED BY <2>2, <2>3, <2>4 DEF Untouched
<1> QED
  BY <1>1, <1>2, <1>3, <1>4, <1>5
     DEF Next, vars, RequestArrives, RequestRefused, RequestDenied, RequestGranted, GrantUnsaved,
         TimeOut, Abort, ReadAnswer, Ask, ReadSlot, Decide, DecideUnsaved, SetVisibility, Tick

----------------------------------------------------------------------------
(* What an undisturbed sender may rely on.                                 *)

\* Approval of the files to come survives a step that keeps the request's
\* time and adds no file to them.
LEMMA CoversLess ==
  ASSUME NEW x, NEW s, NEW p, NEW t, NEW q, Covers(x, s, p, t), q \subseteq p
  PROVE  Covers(x, s, q, t)
  BY DEF Covers

\* A handler's step, seen by its own sender.
LEMMA OwnHandlerCovered ==
  ASSUME TypeOK, HaveRead, NEW s \in Sender, Undisturbed(s), CoveredFor(s),
         NEW f \in File, Handle(s, f)
  PROVE  CoveredFor(s)'
<1> DEFINE P == Pending(s)
           Q == Pending(s)'
           t == requested[s]
<1>0. requested'[s] = t /\ decide' = decide
  BY DEF Handle, Refuse, LetIn, UploadFails, Store, UpdateSlot, UpdateUnsaved
<1>h. hand[s][f] \in HandlerState
  BY DEF TypeOK
\* It is enough to look at the slot and at the handler of f.
<1>g. ASSUME NEW p, NEW x, Handled(s, f, p, x), p \notin {"none", "arrived", "refused"},
             Covers(slot', s, P \ {f}, t) \/ (slot' = NoTransfer /\ P \ {f} = {}),
             p \in {"receiving", "stored"} => Covers(x, s, P, t)
      PROVE  CoveredFor(s)'
  <2>1. \A g \in File : hand'[s][g] = IF g = f THEN [phase |-> p, copy |-> x] ELSE hand[s][g]
    BY <1>g, HandStep
  <2>2. Q = P \ {f}
    BY <2>1, <1>g DEF Pending
  <2>3. Covers(slot', s, Q, t) \/ (slot' = NoTransfer /\ Q = {})
    BY <1>g, <2>2
  <2>4. ASSUME NEW g \in File
        PROVE  /\ hand'[s][g].phase # "refused"
               /\ hand'[s][g].phase \in {"receiving", "stored"} => Covers(hand'[s][g].copy, s, Q, t)
    <3>1. CASE g = f
      BY <3>1, <2>1, <2>2, <1>g, CoversLess
    <3>2. CASE g # f
      BY <3>2, <2>1, <2>2, CoversLess DEF CoveredFor
    <3> QED BY <3>1, <3>2
  <2>5. ASSUME NEW c \in Decider, decide[c].phase = "read", decide[c].op = "accept"
        PROVE  Covers(decide[c].copy, s, Q, t)
    BY <2>2, <2>5, CoversLess DEF CoveredFor
  <2> QED BY <2>3, <2>4, <2>5, <1>0 DEF CoveredFor, Covers
<1>k. UNCHANGED slot => Covers(slot', s, P \ {f}, t) \/ (slot' = NoTransfer /\ P \ {f} = {})
  BY CoversLess DEF CoveredFor
\* The file is awaited, so the slot approves it.
<1>1. hand[s][f].phase = "arrived" => Approves(slot, s, f) /\ Covers(slot, s, P, t)
  <2> SUFFICES ASSUME hand[s][f].phase = "arrived"
               PROVE  Approves(slot, s, f) /\ Covers(slot, s, P, t)
    OBVIOUS
  <2>1. f \in P
    BY DEF Pending
  <2>2. Covers(slot, s, P, t)
    BY <2>1 DEF CoveredFor
  <2>3. slot # NoTransfer
    BY <2>2 DEF Covers, PendingTransfer, NoTransfer
  <2>4. now <= slot.expires
    BY <2>2 DEF Covers, Undisturbed
  <2> QED BY <2>1, <2>2, <2>3, <2>4 DEF Approves, Live, Covers
<1>2. CASE Refuse(s, f)
  BY <1>2, <1>1 DEF Refuse
<1>3. CASE LetIn(s, f)
  BY <1>3, <1>1, <1>k, <1>g DEF LetIn
<1>4. CASE UploadFails(s, f)
  BY <1>4, <1>k, <1>g DEF UploadFails
<1>5. CASE Store(s, f)
  <2>1. Covers(hand[s][f].copy, s, P, t) /\ UNCHANGED slot
    BY <1>5 DEF Store, CoveredFor
  <2>2. Handled(s, f, "stored", hand[s][f].copy)
    BY <1>5 DEF Store
  <2> QED BY <2>1, <2>2, <1>k, <1>g
<1>6. CASE UpdateSlot(s, f)
  <2> DEFINE x == hand[s][f].copy
  <2>1. Covers(x, s, P, t) /\ x \in Slots /\ x # NoTransfer
    BY <1>6, <1>h DEF UpdateSlot, CoveredFor, HaveRead, HandlerState
  <2>2. slot' = WrittenBack(x, f)
    BY <1>6 DEF UpdateSlot
  <2>3. slot' \in Slots
    BY <2>1, <2>2, WrittenBackType
  <2>4. Covers(slot', s, P \ {f}, t) \/ (slot' = NoTransfer /\ P \ {f} = {})
    <3>1. CASE slot' = NoTransfer
      BY <3>1, <2>1, <2>2, WrittenBackType DEF Covers
    <3>2. CASE slot' # NoTransfer
      BY <3>2, <2>1, <2>2, <2>3, WrittenBackType DEF Covers, Slots
    <3> QED BY <3>1, <3>2
  <2> QED BY <1>6, <2>4, <1>g DEF UpdateSlot
<1>7. CASE UpdateUnsaved(s, f)
  BY <1>7, <1>k, <1>g DEF UpdateUnsaved
<1> QED BY <1>2, <1>3, <1>4, <1>5, <1>6, <1>7 DEF Handle

LEMMA CoveredStep ==
  ASSUME TypeOK, HaveRead, Untouched, Strangers, FromRequests, Covered, [Next]_vars,
         NEW s \in Sender, Undisturbed(s)'
  PROVE  CoveredFor(s)'
<1>s. \A r \in Sender : send[r] \in SenderState
  BY DEF TypeOK
\* Nothing the sender relies on moves.
<1>k. ASSUME Undisturbed(s), slot' = slot, requested'[s] = requested[s],
             \A f \in File : hand'[s][f] = hand[s][f],
             \A c \in Decider : decide'[c].phase = "read" => decide'[c] = decide[c]
      PROVE  CoveredFor(s)'
  <2>1. Pending(s)' = Pending(s)
    BY <1>k DEF Pending
  <2> QED BY <1>k, <2>1 DEF Covered, CoveredFor, Covers
<1>1. ASSUME NEW r \in Sender, NEW p \in {"asking", "done", "granted", "failed"}, Phase(r, p),
             UNCHANGED <<now, slot, hand, decide, requested, lost>>,
             p = "asking" => send[r].phase = "idle",
             p \in {"granted", "done"} => send[r].phase = "waiting"
      PROVE  CoveredFor(s)'
  <2>1. \A q \in Sender : send'[q] = IF q = r THEN [phase |-> p, left |-> send[r].left] ELSE send[q]
    BY <1>1, SendStep
  <2>2. CASE p \in {"asking", "failed"}
    <3>1. r # s /\ send'[s] = send[s]
      BY <2>1, <2>2 DEF Undisturbed
    <3>2. ASSUME NEW q \in Confirmed \ {s}
          PROVE  send[q].phase \in {"idle", "asking"}
      <4>1. q \in Sender /\ send'[q].phase \in {"idle", "asking"}
        BY TransferAssumption DEF Undisturbed
      <4> QED BY <1>1, <2>1, <4>1
    <3>3. Undisturbed(s)
      BY <1>1, <3>1, <3>2 DEF Undisturbed
    <3> QED BY <1>1, <3>3, <1>k
  <2>3. CASE p \in {"granted", "done"}
    <3>1. r = s
      BY <1>1, <2>1, <2>3 DEF Undisturbed, Strangers
    <3>2. \A q \in Confirmed \ {s} : send'[q] = send[q]
      BY <2>1, <3>1, TransferAssumption
    <3>3. send[s].phase = "waiting"
      BY <1>1, <2>3, <3>1
    <3>4. Undisturbed(s)
      BY <1>1, <3>2, <3>3 DEF Undisturbed
    <3> QED BY <1>1, <3>4, <1>k
  <2> QED BY <1>1, <2>2, <2>3
<1>2. ASSUME NEW r \in Sender, RequestGranted(r) PROVE CoveredFor(s)'
  <2>1. \A q \in Sender : send'[q] = IF q = r THEN [phase |-> "granted", left |-> send[r].left] ELSE send[q]
    BY <1>2, SendStep DEF RequestGranted
  <2>2. r = s
    BY <1>2, <2>1 DEF Undisturbed, RequestGranted
  <2>3. \A f \in File : hand'[s][f].phase = "none"
    BY <1>2, <2>2 DEF RequestGranted, Untouched
  <2>4. requested'[s] = now
    BY <1>2, <2>2 DEF RequestGranted, TypeOK
  <2>5. slot' = [token |-> s, files |-> File, status |-> "ACCEPTED", expires |-> now + TransferTtl]
    BY <1>2, <2>2 DEF RequestGranted
  <2>6. Covers(slot', s, Pending(s)', requested'[s])
    BY <2>4, <2>5, TransferAssumption DEF Covers, PendingTransfer, Pending, TypeOK
  <2>7. ASSUME NEW c \in Decider
        PROVE  decide'[c].phase # "read"
    <3>1. SUFFICES ASSUME decide[c].phase = "read" PROVE FALSE
      BY <1>2 DEF RequestGranted
    <3>2. decide[c].copy.token \in Confirmed /\ Begun(decide[c].copy.token)
      BY <3>1 DEF HaveRead, FromRequests, Owned
    <3>3. decide[c].copy.token # s
      BY <1>2, <2>2, <3>2 DEF RequestGranted, Begun
    <3> QED BY <2>1, <2>2, <3>2, <3>3, TransferAssumption DEF Undisturbed, Begun
  <2> QED BY <2>3, <2>6, <2>7 DEF CoveredFor
<1>3. ASSUME NEW r \in Sender, NEW f \in File, Upload(r, f) PROVE CoveredFor(s)'
  <2>1. \A q \in Sender :
          send'[q] = IF q = r THEN [phase |-> "waiting", left |-> send[r].left \ {f}] ELSE send[q]
    BY <1>3 DEF Upload, TypeOK
  <2>2. r = s
    BY <1>3, <2>1 DEF Undisturbed, Strangers, Upload
  <2>3. Undisturbed(s)
    BY <1>3, <2>1, <2>2 DEF Undisturbed, Upload
  <2>4. \A g \in File :
          hand'[s][g] = IF g = f THEN [phase |-> "arrived", copy |-> NoTransfer] ELSE hand[s][g]
    BY <1>3, <2>2, HandStep DEF Upload
  <2>5. hand[s][f].phase = "none"
    BY <1>3, <2>2 DEF Upload, Untouched
  <2>6. Pending(s)' = Pending(s)
    BY <2>4, <2>5 DEF Pending
  <2>7. slot' = slot /\ requested' = requested /\ decide' = decide
    BY <1>3 DEF Upload
  <2> QED BY <2>3, <2>4, <2>6, <2>7 DEF Covered, CoveredFor, Covers
<1>4. ASSUME NEW r \in Sender, NEW f \in File, Handle(r, f) PROVE CoveredFor(s)'
  <2>1. hand[r][f].phase # "none" /\ UNCHANGED <<now, send, decide, requested, lost>>
    BY <1>4 DEF Handle, Refuse, LetIn, UploadFails, Store, UpdateSlot, UpdateUnsaved
  <2>2. Undisturbed(s)
    BY <2>1 DEF Undisturbed
  <2>3. r = s
    BY <2>1, <2>2 DEF Undisturbed, Untouched, Strangers
  <2> QED BY <1>4, <2>2, <2>3, OwnHandlerCovered DEF Covered
<1>5. ASSUME NEW c \in Decider, Ask(c) \/ ReadSlot(c) PROVE CoveredFor(s)'
  <2>1. decide[c].phase # "over"
        /\ \A e \in Decider \ {c} : decide'[e] = decide[e]
    BY <1>5 DEF Ask, ReadSlot, TypeOK
  <2>2. Undisturbed(s)
    BY <1>5, <2>1 DEF Undisturbed, Ask, ReadSlot
  <2>3. CASE Ask(c)
    <3>1. decide'[c].phase = "asked"
      BY <2>3 DEF Ask, TypeOK
    <3> QED BY <2>1, <2>2, <2>3, <3>1, <1>k DEF Ask
  <2>4. CASE ReadSlot(c)
    <3>1. decide[c] \in DeciderState
      BY <2>4 DEF ReadSlot, TypeOK
    <3>2. CASE Live(slot)
      <4>1. slot # NoTransfer /\ Covers(slot, s, Pending(s), requested[s])
        BY <2>2, <3>2 DEF Live, Covered, CoveredFor
      <4>2. [decide[c] EXCEPT !.phase = "read", !.copy = slot].copy = slot
        BY <3>1 DEF DeciderState
      <4>3. decide'[c].phase = "read" => decide'[c].copy = slot
        BY <2>4, <4>2 DEF ReadSlot, TypeOK
      <4>4. Pending(s)' = Pending(s)
        BY <2>4 DEF ReadSlot, Pending
      <4>5. ASSUME NEW e \in Decider, decide'[e].phase = "read", decide'[e].op = "accept"
            PROVE  Covers(decide'[e].copy, s, Pending(s), requested[s])
        BY <2>1, <2>2, <4>1, <4>3, <4>5 DEF Covered, CoveredFor
      <4> QED BY <2>2, <2>4, <4>4, <4>5 DEF ReadSlot, Covered, CoveredFor, Covers
    <3>3. CASE ~Live(slot)
      <4>1. decide'[c] = [phase |-> "idle"]
        BY <2>4, <3>3 DEF ReadSlot, TypeOK
      <4>2. \A e \in Decider : decide'[e].phase = "read" => decide'[e] = decide[e]
        BY <2>1, <4>1
      <4> QED BY <2>2, <2>4, <4>2, <1>k DEF ReadSlot
    <3> QED BY <3>2, <3>3
  <2> QED BY <1>5, <2>3, <2>4
\* A decision that is over was to accept.
<1>a. ASSUME NEW c \in Decider, decide[c].phase = "read", UNCHANGED <<now, send, requested, lost>>,
             decide' = [decide EXCEPT ![c] = [decide[c] EXCEPT !.phase = "over"]]
      PROVE  /\ decide[c] \in DeciderState /\ decide[c].op = "accept"
             /\ Undisturbed(s)
             /\ \A e \in Decider : decide'[e].phase = "read" => decide'[e] = decide[e]
  <2>1. decide[c] \in DeciderState
    BY <1>a DEF TypeOK
  <2>2. /\ [decide[c] EXCEPT !.phase = "over"].phase = "over"
        /\ [decide[c] EXCEPT !.phase = "over"].op = decide[c].op
    BY <2>1 DEF DeciderState
  <2>3. /\ decide'[c].phase = "over" /\ decide'[c].op = decide[c].op
        /\ \A e \in Decider \ {c} : decide'[e] = decide[e]
    BY <1>a, <2>2 DEF TypeOK
  <2>4. decide[c].op = "accept"
    BY <2>3 DEF Undisturbed
  <2>5. Undisturbed(s)
    BY <1>a, <2>3 DEF Undisturbed
  <2> QED BY <2>1, <2>3, <2>4, <2>5
<1>6. ASSUME NEW c \in Decider, Decide(c) PROVE CoveredFor(s)'
  <2> DEFINE d == decide[c]
  <2>1. /\ d \in DeciderState /\ d.op = "accept" /\ Undisturbed(s) /\ d.phase = "read"
        /\ \A e \in Decider : decide'[e].phase = "read" => decide'[e] = decide[e]
    BY <1>6, <1>a DEF Decide
  <2>2. Covers(d.copy, s, Pending(s), requested[s])
    BY <2>1 DEF Covered, CoveredFor
  <2>3. slot' = [d.copy EXCEPT !.status = "ACCEPTED", !.expires = d.copy.expires]
    BY <1>6, <2>1, <2>2 DEF Decide, Decided, Covers, PendingTransfer
  <2>4. Covers(slot', s, Pending(s), requested[s])
    BY <2>2, <2>3 DEF Covers, PendingTransfer
  <2>5. hand' = hand /\ requested' = requested /\ Pending(s)' = Pending(s)
    BY <1>6 DEF Decide, Pending
  <2> QED BY <2>1, <2>4, <2>5 DEF Covered, CoveredFor, Covers
<1>10. ASSUME NEW c \in Decider, DecideUnsaved(c) PROVE CoveredFor(s)'
  BY <1>10, <1>a, <1>k DEF DecideUnsaved
<1>11. ASSUME NEW r \in Sender, GrantUnsaved(r) PROVE CoveredFor(s)'
  <2>0. \A q \in Sender : send'[q] = IF q = r THEN [phase |-> "granted", left |-> send[r].left] ELSE send[q]
    BY <1>11, SendStep DEF GrantUnsaved
  <2>1. send'[r].phase = "granted" /\ r \in Confirmed
    BY <1>11, <2>0 DEF GrantUnsaved
  <2>2. r \in lost'
    BY <1>11 DEF GrantUnsaved
  <2> QED BY <2>1, <2>2 DEF Undisturbed
<1>7. CASE SetVisibility \/ UNCHANGED vars
  <2>1. Undisturbed(s)
    BY <1>7 DEF SetVisibility, vars, Undisturbed
  <2> QED BY <1>7, <2>1, <1>k DEF SetVisibility, vars
<1>8. CASE Restart
  <2>1. \A r \in Sender :
          \/ send'[r] = send[r]
          \/ send[r].phase = "asking" /\ send'[r] = [send[r] EXCEPT !.phase = "failed"]
    BY <1>8 DEF Restart
  <2>2. \A r \in Sender : send'[r].phase # "failed" => send'[r] = send[r]
    BY <2>1, <1>s DEF SenderState
  <2>3. Undisturbed(s)
    <3>1. send'[s] = send[s]
      BY <2>2 DEF Undisturbed
    <3>2. \A r \in Confirmed \ {s} : send'[r] = send[r]
      BY <2>2, TransferAssumption DEF Undisturbed
    <3> QED BY <1>8, <3>1, <3>2 DEF Restart, Undisturbed
  <2>4. \A f \in File :
          hand'[s][f] = [phase |-> "failed", copy |-> NoTransfer] \/ hand'[s][f] = hand[s][f]
    BY <1>8 DEF Restart
  <2>5. Pending(s)' \subseteq Pending(s)
    BY <2>4 DEF Pending
  <2>6. slot' = slot /\ requested' = requested /\ decide' = decide
    BY <1>8 DEF Restart
  <2>7. Covers(slot', s, Pending(s)', requested'[s]) \/ (slot' = NoTransfer /\ Pending(s)' = {})
    BY <2>3, <2>5, <2>6, CoversLess DEF Covered, CoveredFor
  <2>8. ASSUME NEW f \in File
        PROVE  /\ hand'[s][f].phase # "refused"
               /\ hand'[s][f].phase \in {"receiving", "stored"} =>
                    Covers(hand'[s][f].copy, s, Pending(s)', requested'[s])
    <3>1. CASE hand'[s][f] = [phase |-> "failed", copy |-> NoTransfer]
      BY <3>1
    <3>2. CASE hand'[s][f] = hand[s][f]
      BY <3>2, <2>3, <2>5, <2>6, CoversLess DEF Covered, CoveredFor
    <3> QED BY <2>4, <3>1, <3>2
  <2>9. ASSUME NEW c \in Decider, decide[c].phase = "read", decide[c].op = "accept"
        PROVE  Covers(decide[c].copy, s, Pending(s)', requested[s])
    BY <2>3, <2>5, <2>9, CoversLess DEF Covered, CoveredFor
  <2> QED BY <2>6, <2>7, <2>8, <2>9 DEF CoveredFor
<1>9. CASE Tick
  <2>1. Undisturbed(s)
    BY <1>9, TransferAssumption DEF Tick, Undisturbed, TypeOK
  <2> QED BY <1>9, <2>1, <1>k DEF Tick
<1> QED
  BY <1>1, <1>2, <1>3, <1>4, <1>5, <1>6, <1>7, <1>8, <1>9, <1>10, <1>11
     DEF Next, RequestArrives, RequestRefused, RequestDenied, TimeOut, Abort, ReadAnswer

----------------------------------------------------------------------------
(* The theorems.                                                           *)

LEMMA InitInv == Init => IInv
<1> SUFFICES ASSUME Init PROVE IInv
  OBVIOUS
<1>1. TypeOK
  BY InitType
<1>2. HaveRead /\ CopiesInTime /\ Untouched
  BY TransferAssumption
     DEF Init, HaveRead, CopiesInTime, InTime, Untouched, NoHandler
<1>4. Strangers /\ FromRequests
  BY DEF Init, Strangers, FromRequests, Owned, NoHandler
<1>3. Covered
  BY DEF Init, Covered, Undisturbed
<1> QED BY <1>1, <1>2, <1>3, <1>4 DEF IInv

LEMMA Inductive == IInv /\ [Next]_vars => IInv'
<1> SUFFICES ASSUME IInv, [Next]_vars PROVE IInv'
  OBVIOUS
<1>1. TypeOK' /\ HaveRead'
  BY TypeStep DEF IInv
<1>2. CopiesInTime'
  BY <1>1, CopiesStep DEF IInv
<1>3. Untouched'
  BY UntouchedStep DEF IInv
<1>4. Covered'
  BY CoveredStep DEF IInv, Covered
<1>5. Strangers' /\ FromRequests'
  BY StrangersStep, FromRequestsStep DEF IInv
<1> QED BY <1>1, <1>2, <1>3, <1>4, <1>5 DEF IInv

LEMMA Invariance == Spec => []IInv
  BY InitInv, Inductive, PTL DEF Spec

\* pending_transfer.json, the senders and the handlers stay well formed.
THEOREM TypeCorrect == Spec => []TypeOK
<1>1. IInv => TypeOK
  BY DEF IInv
<1> QED BY <1>1, Invariance, PTL

\* A transfer never becomes usable for longer than TransferTtl after its
\* request or the last decision that accepted it, however many handlers and
\* commands write back the slot they read.
THEOREM UsableOnlyInTime == Spec => []UsableInTime
<1>1. IInv => UsableInTime
  BY DEF IInv, CopiesInTime, InTime, UsableInTime
<1> QED BY <1>1, Invariance, PTL

\* Unless another confirmed sender asks, the user declines or renews, or the
\* grant was not saved, no upload of a batch is refused before its time is
\* over, for any number of strangers, acceptances, files and handlers.
THEOREM UploadsAreUndisturbed == Spec => []UndisturbedUploads
<1>1. IInv => UndisturbedUploads
  BY DEF IInv, Covered, CoveredFor, UndisturbedUploads
<1> QED BY <1>1, Invariance, PTL
============================================================================
