-------------------------- MODULE ClipboardProofs --------------------------
(***************************************************************************)
(* The sentinel does not push the same clip again and again: PushBudget,   *)
(* for any clips, threads and limits, when the user's clips offer one      *)
(* format.  The staging directory stays within its limits: StagingBounded, *)
(* for any clips, images, limits, threads and commands.                    *)
(***************************************************************************)
EXTENDS Clipboard, FiniteSetTheorems, WellFoundedInduction, TLAPS

Held == Text \cup Image \cup {None}

Place == {"start", "began", "idle", "image", "newimage", "text", "compare",
          "newtext", "push", "thumb", "begin", "apply", "fetch", "write",
          "clean", "sweep"}

\* What of TypeOK the argument needs.
Shape ==
  /\ actor = [a \in Actor |-> actor[a]]
  /\ \A a \in Actor : actor[a] = [at |-> actor[a].at, value |-> actor[a].value,
                                  surplus |-> actor[a].surplus]
  /\ \A a \in Actor : actor[a].at \in Place
  /\ changes \in Nat /\ pushes \in Nat

\* A clipboard does not offer a PNG and a text at once.
SingleFormat(c) == ImageOf(c) = None \/ c.text = None

\* A push that is to come if the clip v is compared with w.
Due(v, w) == IF v # None /\ v # w THEN 1 ELSE 0

Comparing == {"image", "compare"}
Decided == {"newimage", "newtext"}
Pushing == {"write", "clean", "sweep", "thumb", "push"}

Elsewhere == Place \ (Comparing \cup Decided \cup Pushing \cup {"began"})

\* The pushes that were made and those that may come before anything else
\* changes have been paid for.
Paid ==
  LET s == actor["sentinel"]
      v == Value(clip)
  IN /\ s.at \in Comparing =>
          s.value # None /\ pushes + Due(s.value, last) + Due(v, s.value) <= changes + 1
     /\ s.at \in Decided => pushes + 1 + Due(v, s.value) <= changes + 1
     /\ s.at \in Pushing => pushes + 1 + Due(v, last) <= changes + 1
     /\ s.at = "began" => pushes + Due(v, s.value) <= changes + 1
     /\ s.at \in Elsewhere => pushes + Due(v, last) <= changes + 1

IInv == Shape /\ SingleFormat(clip) /\ Paid

\* What the user copies never offers both.
SingleFormats == \A c \in Copyable : SingleFormat(c)

----------------------------------------------------------------------------

\* Whatever is compared, at most one push is due.
LEMMA DueBound == \A v, w : Due(v, w) \in {0, 1}
BY DEF Due

\* What the sentinel has just read is not due again.
LEMMA DueSame == \A v : Due(v, v) = 0
BY DEF Due

\* Nothing was pushed at the start.
LEMMA InitInv == SingleFormats /\ Init => IInv
<1> SUFFICES ASSUME SingleFormats, Init PROVE IInv
  OBVIOUS
<1>1. Shape
  <2>1. \A a \in Actor : \E p \in Place :
          actor[a] = [at |-> p, value |-> None, surplus |-> {}]
    BY DEF Init, Place, Idle, In
  <2>2. actor = [a \in Actor |-> actor[a]]
    BY DEF Init
  <2>3. changes \in Nat /\ pushes \in Nat
    BY DEF Init
  <2> QED BY <2>1, <2>2, <2>3 DEF Shape
<1>2. SingleFormat(clip)
  BY DEF SingleFormats, Init, SingleFormat, Empty
<1>3. actor["sentinel"].at = "start"
  BY DEF Init, In, Actor
<1>4. Paid
  BY <1>3, DueBound DEF Init, Paid, Comparing, Decided, Pushing
<1> QED
  BY <1>1, <1>2, <1>4 DEF IInv

\* An actor that moves keeps the shape; only its own state changes.
LEMMA Moved ==
  ASSUME Shape, NEW a \in Actor, NEW p \in Place, NEW v, NEW z,
         actor' = [actor EXCEPT ![a] = [at |-> p, value |-> v, surplus |-> z]],
         changes' \in Nat, pushes' \in Nat
  PROVE  /\ Shape'
         /\ actor'[a].at = p /\ actor'[a].value = v
         /\ \A b \in Actor \ {a} : actor'[b] = actor[b]
<1>1. actor' = [b \in Actor |-> actor'[b]]
  BY DEF Shape
<1>2. actor'[a] = [at |-> p, value |-> v, surplus |-> z]
  BY DEF Shape
<1>3. \A b \in Actor \ {a} : actor'[b] = actor[b]
  BY DEF Shape
<1>4. \A b \in Actor : actor'[b].at \in Place
  BY <1>2, <1>3 DEF Shape
<1>5. \A b \in Actor : actor'[b] = [at |-> actor'[b].at, value |-> actor'[b].value,
                                     surplus |-> actor'[b].surplus]
  BY <1>2, <1>3 DEF Shape
<1> QED
  BY <1>1, <1>2, <1>3, <1>4, <1>5 DEF Shape

\* Actor a goes to p, holding v.
Goes(a, p, v, z) ==
  \/ Moves(a, p) /\ v = actor[a].value
  \/ Holds(a, p, v)
  \/ /\ actor' = [actor EXCEPT ![a] = [at |-> p, value |-> actor[a].value, surplus |-> z]]
     /\ v = actor[a].value
  \/ actor' = [actor EXCEPT ![a].surplus = z] /\ p = actor[a].at /\ v = actor[a].value
  \/ actor' = [actor EXCEPT ![a] = Idle] /\ p = "idle" /\ v = None

LEMMA Going ==
  ASSUME Shape, NEW a \in Actor, NEW p \in Place, NEW v, NEW z, Goes(a, p, v, z),
         changes' \in Nat, pushes' \in Nat
  PROVE  /\ Shape'
         /\ actor'[a].at = p /\ actor'[a].value = v
         /\ \A b \in Actor \ {a} : actor'[b] = actor[b]
<1>1. ASSUME NEW y, actor' = [actor EXCEPT ![a] = [at |-> p, value |-> v, surplus |-> y]]
      PROVE  /\ Shape'
             /\ actor'[a].at = p /\ actor'[a].value = v
             /\ \A b \in Actor \ {a} : actor'[b] = actor[b]
  BY <1>1, Moved
<1>2. actor[a] = [at |-> actor[a].at, value |-> actor[a].value, surplus |-> actor[a].surplus]
  BY DEF Shape
<1>3. CASE Moves(a, p) /\ v = actor[a].value
  <2>1. [actor[a] EXCEPT !.at = p] = [at |-> p, value |-> v, surplus |-> actor[a].surplus]
    BY <1>2, <1>3
  <2> QED BY <2>1, <1>1, <1>3 DEF Moves
<1>4. CASE Holds(a, p, v)
  BY <1>1, <1>4 DEF Holds, In
<1>5. CASE actor' = [actor EXCEPT ![a] = [at |-> p, value |-> actor[a].value, surplus |-> z]] /\ v = actor[a].value
  BY <1>1, <1>5
<1>6. CASE actor' = [actor EXCEPT ![a].surplus = z] /\ p = actor[a].at /\ v = actor[a].value
  <2>1. [actor[a] EXCEPT !.surplus = z] = [at |-> p, value |-> v, surplus |-> z]
    BY <1>2, <1>6
  <2> QED BY <2>1, <1>1, <1>6
<1>7. CASE actor' = [actor EXCEPT ![a] = Idle] /\ p = "idle" /\ v = None
  BY <1>1, <1>7 DEF Idle, In
<1> QED
  BY <1>3, <1>4, <1>5, <1>6, <1>7 DEF Goes

\* While the sentinel stands still, a new clip or a new hash is paid for.
LEMMA Disturbed ==
  ASSUME IInv, Shape', SingleFormat(clip)',
         actor'["sentinel"].at = actor["sentinel"].at,
         actor'["sentinel"].value = actor["sentinel"].value,
         pushes' = pushes,
         \/ clip' = clip /\ last' = last /\ changes' = changes
         \/ (clip' = clip \/ last' = last) /\ changes' = changes + 1
  PROVE  IInv'
<1> DEFINE s == actor["sentinel"]  v == Value(clip)  w == Value(clip')
<1>1. /\ Due(s.value, last) \in {0, 1} /\ Due(s.value, last') \in {0, 1}
      /\ Due(v, s.value) \in {0, 1} /\ Due(w, s.value) \in {0, 1}
      /\ Due(v, last) \in {0, 1} /\ Due(w, last') \in {0, 1}
  BY DueBound
<1>2. changes \in Nat /\ pushes \in Nat
  BY DEF IInv, Shape
<1>3. clip' = clip => w = v
  BY DEF Value, ImageOf, TextOf
<1> HIDE DEF v, w
<1>4. s.at \in Comparing =>
        s.value # None /\ pushes' + Due(s.value, last') + Due(w, s.value) <= changes' + 1
  BY <1>1, <1>2, <1>3 DEF IInv, Paid, v
<1>5. s.at \in Decided => pushes' + 1 + Due(w, s.value) <= changes' + 1
  BY <1>1, <1>2, <1>3 DEF IInv, Paid, v
<1>6. s.at \in Pushing => pushes' + 1 + Due(w, last') <= changes' + 1
  BY <1>1, <1>2, <1>3 DEF IInv, Paid, v
<1>7. s.at = "began" => pushes' + Due(w, s.value) <= changes' + 1
  BY <1>1, <1>2, <1>3 DEF IInv, Paid, v
<1>8. s.at \in Elsewhere => pushes' + Due(w, last') <= changes' + 1
  BY <1>1, <1>2, <1>3 DEF IInv, Paid, v
<1>9. Paid'
  BY <1>4, <1>5, <1>6, <1>7, <1>8 DEF Paid, w
<1> QED
  BY <1>9 DEF IInv

\* Whoever else moves leaves the sentinel where it is.
LEMMA ElsewhereMoves ==
  ASSUME IInv, NEW a \in Thread \cup Command, NEW p \in Place, NEW v, NEW z,
         Goes(a, p, v, z),
         SingleFormat(clip)', changes' \in Nat, pushes' = pushes,
         \/ clip' = clip /\ last' = last /\ changes' = changes
         \/ (clip' = clip \/ last' = last) /\ changes' = changes + 1
  PROVE  IInv'
<1>1. a \in Actor /\ a # "sentinel" /\ "sentinel" \in Actor
  BY ClipboardAssumption DEF Actor
<1>2. Shape /\ pushes' \in Nat
  BY DEF IInv, Shape
<1>3. Shape' /\ \A b \in Actor \ {a} : actor'[b] = actor[b]
  BY <1>1, <1>2, Going
<1> QED
  BY <1>1, <1>3, Disturbed

\* The sentinel moves on between places where it owes the same.
LEMMA SentinelMoves ==
  ASSUME IInv, NEW a \in {"sentinel"}, NEW p \in Place, NEW v, NEW z,
         Goes(a, p, v, z),
         clip' = clip, changes' = changes, pushes' \in Nat
  PROVE  /\ Shape' /\ SingleFormat(clip)'
         /\ actor'["sentinel"].at = p /\ actor'["sentinel"].value = v
         /\ Value(clip)' = Value(clip)
         /\ Paid' => IInv'
<1>1. a = "sentinel" /\ a \in Actor
  BY DEF Actor
<1>2. Shape /\ SingleFormat(clip) /\ changes' \in Nat
  BY DEF IInv, Shape
<1>3. Shape' /\ actor'["sentinel"].at = p /\ actor'["sentinel"].value = v
  BY <1>1, <1>2, Going
<1>4. SingleFormat(clip)' /\ Value(clip)' = Value(clip)
  BY <1>2 DEF SingleFormat, Value, ImageOf, TextOf
<1> QED
  BY <1>3, <1>4 DEF IInv

\* Staging and cleaning up is nobody's business but the stager's.
LEMMA StagingInductive ==
  ASSUME IInv, NEW a \in Actor, Staging(a)
  PROVE  IInv'
<1>t. changes \in Nat /\ pushes \in Nat /\ SingleFormat(clip) /\ actor[a].at \in Place
  BY DEF IInv, Shape
<1>p. Pushing \subseteq Place /\ "idle" \in Place /\ "apply" \in Place
  BY DEF Pushing, Place
<1>1. CASE a # "sentinel"
  <2>1. a \in Thread \cup Command
    BY <1>1 DEF Actor
  <2>2. CASE Stage(a) \/ StageFails(a) \/ Swept(a) \/ Thumbnail(a) \/ NoThumbnail(a)
    <3>1. PICK p \in Place : Moves(a, p)
      BY <2>2, <1>p DEF Stage, StageFails, Swept, Thumbnail, NoThumbnail, Onward, Pushing
    <3>2. clip' = clip /\ last' = last /\ changes' = changes /\ pushes' = pushes
      BY <2>2 DEF Stage, StageFails, Swept, Thumbnail, NoThumbnail
    <3>3. SingleFormat(clip)'
      BY <3>2, <1>t DEF SingleFormat
    <3>4. Goes(a, p, actor[a].value, {})
      BY <3>1 DEF Goes
    <3> QED BY <2>1, <3>2, <3>3, <3>4, <1>t, ElsewhereMoves
  <2>3. CASE ListStaging(a)
    <3>1. SingleFormat(clip)'
      BY <2>3, <1>t DEF SingleFormat, ListStaging
    <3>2. "sweep" \in Place
      BY DEF Place
    <3>3. Goes(a, "sweep", actor[a].value, Surplus(staging))
      BY <2>3 DEF Goes, ListStaging
    <3> QED BY <2>1, <2>3, <3>1, <3>2, <3>3, <1>t, ElsewhereMoves DEF ListStaging
  <2>4. CASE Sweep(a)
    <3>1. PICK z : actor' = [actor EXCEPT ![a].surplus = z]
      BY <2>4 DEF Sweep
    <3>2. SingleFormat(clip)'
      BY <2>4, <1>t DEF SingleFormat, Sweep
    <3>3. Goes(a, actor[a].at, actor[a].value, z)
      BY <3>1 DEF Goes
    <3> QED BY <2>1, <2>4, <3>2, <3>3, <1>t, ElsewhereMoves DEF Sweep
  <2>5. CASE Push(a)
    <3>1. SingleFormat(clip)'
      BY <2>5, <1>t DEF SingleFormat, Push
    <3>2. Goes(a, "idle", None, {})
      BY <2>5 DEF Goes, Push
    <3>3. pushes' = pushes
      BY <2>5, <1>1 DEF Push
    <3> QED BY <2>1, <2>5, <3>1, <3>2, <3>3, <1>p, <1>t, ElsewhereMoves DEF Push
  <2> QED
    BY <2>2, <2>3, <2>4, <2>5 DEF Staging
<1>2. CASE a = "sentinel"
  <2>n. a \notin Thread
    BY <1>2, ClipboardAssumption
  <2>b. \A v, w : Due(v, w) \in {0, 1}
    BY DueBound
  <2>1. CASE Stage(a) \/ StageFails(a) \/ Swept(a) \/ Thumbnail(a) \/ NoThumbnail(a)
    <3>1. PICK p \in Pushing : Moves(a, p)
      BY <2>1, <2>n DEF Stage, StageFails, Swept, Thumbnail, NoThumbnail, Onward, Pushing
    <3>2. clip' = clip /\ last' = last /\ changes' = changes /\ pushes' = pushes
      BY <2>1 DEF Stage, StageFails, Swept, Thumbnail, NoThumbnail
    <3>3. actor[a].at \in Pushing
      BY <2>1 DEF Stage, StageFails, Swept, Thumbnail, NoThumbnail, At, Pushing
    <3>4. /\ actor'["sentinel"].at = p /\ Value(clip)' = Value(clip)
          /\ Paid' => IInv'
      <4>1. Goes(a, p, actor[a].value, {})
        BY <3>1 DEF Goes
      <4> QED BY <1>2, <1>p, <1>t, <3>2, <4>1, SentinelMoves
    <3>5. Paid'
      BY <1>2, <3>2, <3>3, <3>4 DEF IInv, Paid, Comparing, Decided, Pushing, Elsewhere
    <3> QED BY <3>4, <3>5
  <2>2. CASE ListStaging(a)
    <3>1. /\ actor'["sentinel"].at = "sweep" /\ Value(clip)' = Value(clip)
          /\ Paid' => IInv'
      <4>1. Goes(a, "sweep", actor[a].value, Surplus(staging))
        BY <2>2 DEF Goes, ListStaging
      <4> QED BY <1>2, <1>p, <1>t, <2>2, <4>1, SentinelMoves DEF ListStaging, Pushing
    <3>2. Paid'
      BY <1>2, <2>2, <3>1 DEF ListStaging, At, IInv, Paid, Comparing, Decided, Pushing, Elsewhere
    <3> QED BY <3>1, <3>2
  <2>3. CASE Sweep(a)
    <3>1. PICK z : actor' = [actor EXCEPT ![a].surplus = z]
      BY <2>3 DEF Sweep
    <3>2. /\ actor'["sentinel"].at = "sweep" /\ Value(clip)' = Value(clip)
          /\ Paid' => IInv'
      <4>1. Goes(a, "sweep", actor[a].value, z)
        BY <2>3, <3>1 DEF Goes, Sweep, At
      <4> QED BY <1>2, <1>p, <1>t, <2>3, <4>1, SentinelMoves DEF Sweep, Pushing
    <3>3. Paid'
      BY <1>2, <2>3, <3>2 DEF Sweep, At, IInv, Paid, Comparing, Decided, Pushing, Elsewhere
    <3> QED BY <3>2, <3>3
  <2>4. CASE Push(a)
    <3>1. /\ actor' = [actor EXCEPT ![a] = Idle] /\ pushes' = pushes + 1
          /\ clip' = clip /\ last' = last /\ changes' = changes
      BY <1>2, <2>4 DEF Push
    <3>2. /\ actor'["sentinel"].at = "idle" /\ Value(clip)' = Value(clip)
          /\ Paid' => IInv'
      <4>1. Goes(a, "idle", None, {})
        BY <3>1 DEF Goes
      <4>2. pushes' \in Nat
        BY <3>1, <1>t
      <4> QED BY <1>2, <1>p, <3>1, <4>1, <4>2, SentinelMoves
    <3>3. Paid'
      BY <1>2, <1>t, <2>4, <2>b, <3>1, <3>2 DEF Push, At, IInv, Paid, Comparing, Decided, Pushing, Elsewhere
    <3> QED BY <3>2, <3>3
  <2> QED
    BY <2>1, <2>2, <2>3, <2>4 DEF Staging
<1> QED
  BY <1>1, <1>2

\* A round of the sentinel owes at most the push it has decided on.
LEMMA RoundInductive ==
  ASSUME IInv, Sentinel, ~Staging("sentinel")
  PROVE  IInv'
<1> DEFINE a == "sentinel"  s == actor["sentinel"]
<1>t. changes \in Nat /\ pushes \in Nat /\ SingleFormat(clip)
  BY DEF IInv, Shape
<1>b. \A v, w : Due(v, w) \in {0, 1}
  BY DueBound
<1>u. clip' = clip /\ changes' = changes /\ pushes' = pushes
  BY DEF Sentinel, Begin, ReadImage, NoImage, ReadText, NoText, ReadsImage, ReadsText,
         ReadsNothing, CompareImage, CompareText, Compare, MarkInitial, MarkImage, MarkText, Mark
<1>1. ASSUME NEW from \in Elsewhere, NEW to \in Comparing \cup {"began"},
             ReadsImage(from, to) \/ ReadsText(from, to)
      PROVE  IInv'
  <2>1. PICK v : Holds(a, to, v) /\ v = Value(clip) /\ v # None /\ last' = last /\ s.at = from
    BY <1>1, <1>t DEF ReadsImage, ReadsText, SingleFormat, Value, ImageOf, TextOf, At
  <2>2. to \in Place
    BY <1>1 DEF Comparing, Place
  <2>3. /\ actor'["sentinel"].at = to /\ actor'["sentinel"].value = v /\ Value(clip)' = v
        /\ Paid' => IInv'
    <3>1. Goes(a, to, v, {})
      BY <2>1 DEF Goes
    <3> QED BY <2>1, <2>2, <3>1, <1>t, <1>u, SentinelMoves
  <2>4. pushes + Due(v, last) <= changes + 1
    BY <2>1, <1>1 DEF IInv, Paid
  <2>5. Due(v, v) = 0
    BY DueSame
  <2>6. Paid'
    BY <1>1, <1>b, <1>t, <1>u, <2>1, <2>3, <2>4, <2>5
       DEF Paid, Comparing, Decided, Pushing, Elsewhere
  <2> QED BY <2>3, <2>6
<1>2. ASSUME NEW from \in Elsewhere, NEW to \in Elsewhere, ReadsNothing(from, to)
      PROVE  IInv'
  <2>1. Holds(a, to, None) /\ last' = last /\ s.at = from
    BY <1>2 DEF ReadsNothing, At
  <2>2. /\ actor'["sentinel"].at = to /\ Value(clip)' = Value(clip)
        /\ Paid' => IInv'
    <3>1. Goes(a, to, None, {})
      BY <2>1 DEF Goes
    <3> QED BY <3>1, <1>t, <1>u, <1>2, SentinelMoves DEF Elsewhere
  <2>3. Paid'
    BY <1>2, <1>u, <2>1, <2>2 DEF IInv, Paid, Comparing, Decided, Pushing, Elsewhere
  <2> QED BY <2>2, <2>3
<1>3. ASSUME NEW from \in Comparing, NEW old \in Elsewhere, NEW new \in Decided,
             Compare(from, old, new)
      PROVE  IInv'
  <2>1. PICK p \in {old, new} :
          /\ Moves(a, p) /\ last' = last /\ s.at = from
          /\ p = old <=> s.value = last
    BY <1>3 DEF Compare, At, Decided, Elsewhere
  <2>2. p \in Place
    BY <1>3 DEF Elsewhere, Decided, Place
  <2>3. /\ actor'["sentinel"].at = p /\ actor'["sentinel"].value = s.value
        /\ Value(clip)' = Value(clip) /\ Paid' => IInv'
    <3>1. Goes(a, p, s.value, {})
      BY <2>1 DEF Goes
    <3> QED BY <2>2, <3>1, <1>t, <1>u, SentinelMoves
  <2>4. s.value # None /\ pushes + Due(s.value, last) + Due(Value(clip), s.value) <= changes + 1
    BY <2>1, <1>3 DEF IInv, Paid
  <2>5. CASE s.value = last
    BY <1>3, <1>b, <1>t, <1>u, <2>1, <2>3, <2>4, <2>5
       DEF Paid, Comparing, Decided, Pushing, Elsewhere
  <2>6. CASE s.value # last
    <3>1. Due(s.value, last) = 1
      BY <2>4, <2>6 DEF Due
    <3> QED
      BY <3>1, <1>3, <1>b, <1>t, <1>u, <2>1, <2>3, <2>4, <2>6
         DEF Paid, Comparing, Decided, Pushing, Elsewhere
  <2> QED BY <2>3, <2>5, <2>6
<1>4. ASSUME NEW from \in Decided \cup {"began"},
             NEW to \in IF from = "began" THEN Elsewhere ELSE Elsewhere \cup Pushing,
             Mark(from, to)
      PROVE  IInv'
  <2>1. Moves(a, to) /\ last' = s.value /\ s.at = from
    BY <1>4 DEF Mark, At
  <2>2. to \in Place
    BY <1>4 DEF Elsewhere, Pushing, Place
  <2>3. /\ actor'["sentinel"].at = to /\ actor'["sentinel"].value = s.value
        /\ Value(clip)' = Value(clip) /\ Paid' => IInv'
    <3>1. Goes(a, to, s.value, {})
      BY <2>1 DEF Goes
    <3> QED BY <2>2, <3>1, <1>t, <1>u, SentinelMoves
  <2>4. CASE from = "began"
    <3>1. pushes + Due(Value(clip), s.value) <= changes + 1
      BY <2>1, <2>4 DEF IInv, Paid
    <3>2. to \in Elsewhere
      BY <1>4, <2>4
    <3> QED
      BY <1>u, <2>1, <2>3, <3>1, <3>2 DEF Paid, Comparing, Decided, Pushing, Elsewhere
  <2>5. CASE from \in Decided
    <3>1. pushes + 1 + Due(Value(clip), s.value) <= changes + 1
      BY <2>1, <2>5 DEF IInv, Paid
    <3>2. to \in Elsewhere \cup Pushing
      BY <1>4
    <3> QED
      BY <1>b, <1>t, <1>u, <2>1, <2>3, <3>1, <3>2
         DEF Paid, Comparing, Decided, Pushing, Elsewhere
  <2> QED BY <1>4, <2>3, <2>4, <2>5
<1>p. /\ {"start", "begin", "idle", "text"} \subseteq Elsewhere
      /\ {"image", "compare"} \subseteq Comparing
      /\ {"newimage", "newtext"} \subseteq Decided
      /\ {"write", "push"} \subseteq Pushing
  BY DEF Elsewhere, Comparing, Decided, Pushing, Place
<1>5. CASE Begin
  BY <1>5, <1>p, <1>1, <1>2 DEF Begin
<1>6. CASE ReadImage \/ NoImage \/ ReadText \/ NoText
  BY <1>6, <1>p, <1>1, <1>2 DEF ReadImage, NoImage, ReadText, NoText
<1>7. CASE CompareImage \/ CompareText
  BY <1>7, <1>p, <1>3 DEF CompareImage, CompareText
<1>8. CASE MarkInitial
  BY <1>8, <1>p, <1>4 DEF MarkInitial
<1>9. CASE MarkImage
  BY <1>9, <1>p, <1>4 DEF MarkImage, Decided
<1>10. CASE MarkText
  <2>1. PICK to \in {"idle", "push"} : Mark("newtext", to)
    BY <1>10 DEF MarkText
  <2> QED BY <2>1, <1>p, <1>4
<1> QED
  BY <1>5, <1>6, <1>7, <1>8, <1>9, <1>10 DEF Sentinel

\* What the threads receive, and apply.
LEMMA HandlerInductive ==
  ASSUME IInv, NEW a \in Thread, Handler(a)
  PROVE  IInv'
<1>t. changes \in Nat /\ pushes \in Nat /\ SingleFormat(clip) /\ a \in Thread \cup Command
  BY DEF IInv, Shape
<1>p. {"idle", "apply", "fetch", "write"} \subseteq Place
  BY DEF Place
<1>1. ASSUME NEW v, NEW place \in {"idle", "apply", "fetch", "write"}, Receive(a, v, place)
      PROVE  IInv'
  <2>1. clip' = clip /\ pushes' = pushes /\ changes' = changes + 1 /\ SingleFormat(clip)'
    BY <1>1, <1>t DEF Receive, SingleFormat
  <2>2. CASE place = "idle"
    <3>1. actor' = actor
      BY <1>1, <2>2 DEF Receive
    <3>2. Shape'
      BY <2>1, <3>1, <1>t DEF IInv, Shape
    <3> QED BY <2>1, <3>1, <3>2, Disturbed
  <2>3. CASE place # "idle"
    <3>1. Goes(a, place, v, {})
      BY <1>1, <2>3 DEF Receive, Goes
    <3> QED BY <1>1, <1>p, <1>t, <2>1, <3>1, ElsewhereMoves
  <2> QED BY <2>2, <2>3
<1>2. CASE \E t \in Inbound \cap Text : ReceiveText(a, t)
  BY <1>1, <1>2 DEF ReceiveText
<1>3. CASE \E i \in Inbound \cap Image : ReceiveImage(a, i)
  BY <1>1, <1>3 DEF ReceiveImage
<1>4. CASE \E t \in Posted : ReceivePosted(a, t)
  BY <1>1, <1>4 DEF ReceivePosted
<1>5. CASE Fetched(a)
  <2>1. Goes(a, "write", actor[a].value, {})
    BY <1>5 DEF Fetched, Goes
  <2>2. SingleFormat(clip)'
    BY <1>5, <1>t DEF Fetched, SingleFormat
  <2> QED BY <1>5, <1>p, <1>t, <2>1, <2>2, ElsewhereMoves DEF Fetched
<1>6. CASE GivesUp(a)
  <2>1. Goes(a, "idle", None, {})
    BY <1>6 DEF GivesUp, Goes
  <2>2. SingleFormat(clip)'
    BY <1>6, <1>t DEF GivesUp, SingleFormat
  <2> QED BY <1>6, <1>p, <1>t, <2>1, <2>2, ElsewhereMoves DEF GivesUp
<1>7. CASE Apply(a)
  <2>1. Goes(a, "idle", None, {})
    BY <1>7 DEF Apply, Goes
  <2>2. SingleFormat(clip)'
    BY <1>7 DEF Apply, SingleFormat, ImageOf, Only
  <2> QED BY <1>7, <1>p, <1>t, <2>1, <2>2, ElsewhereMoves DEF Apply
<1>8. CASE Staging(a)
  BY <1>8, StagingInductive DEF Actor
<1> QED
  BY <1>2, <1>3, <1>4, <1>5, <1>6, <1>7, <1>8 DEF Handler

LEMMA Inductive == SingleFormats /\ IInv /\ [Next]_vars => IInv'
<1> SUFFICES ASSUME SingleFormats, IInv, [Next]_vars PROVE IInv'
  OBVIOUS
<1>t. changes \in Nat /\ pushes \in Nat /\ SingleFormat(clip)
  BY DEF IInv, Shape
<1>1. ASSUME NEW c \in Copyable, Copy(c) PROVE IInv'
  <2>1. /\ actor' = actor /\ pushes' = pushes /\ last' = last
        /\ clip' = c /\ changes' = changes + 1
    BY <1>1 DEF Copy
  <2>2. Shape'
    BY <2>1, <1>t DEF IInv, Shape
  <2>3. SingleFormat(clip)'
    BY <2>1, <1>1 DEF SingleFormats, SingleFormat
  <2> QED BY <2>1, <2>2, <2>3, Disturbed
<1>2. CASE Sentinel
  <2>1. CASE Staging("sentinel")
    BY <2>1, StagingInductive DEF Actor
  <2> QED BY <1>2, <2>1, RoundInductive
<1>3. ASSUME NEW a \in Thread, Handler(a) PROVE IInv'
  BY <1>3, HandlerInductive
<1>4. ASSUME NEW a \in Command, SyncImage(a) PROVE IInv'
  <2>1. Goes(a, "write", ImageOf(clip), {})
    BY <1>4 DEF SyncImage, Goes
  <2>2. SingleFormat(clip)'
    BY <1>4, <1>t DEF SyncImage, SingleFormat, ImageOf
  <2>3. "write" \in Place
    BY DEF Place
  <2> QED BY <1>4, <1>t, <2>1, <2>2, <2>3, ElsewhereMoves DEF SyncImage
<1>5. ASSUME NEW a \in Command, Staging(a) PROVE IInv'
  BY <1>5, StagingInductive DEF Actor
<1>6. CASE UNCHANGED vars
  <2>1. /\ actor' = actor /\ pushes' = pushes /\ last' = last
        /\ clip' = clip /\ changes' = changes
    BY <1>6 DEF vars
  <2>2. Shape' /\ SingleFormat(clip)'
    BY <2>1, <1>t DEF IInv, Shape, SingleFormat
  <2> QED BY <2>1, <2>2, Disturbed
<1> QED
  BY <1>1, <1>2, <1>3, <1>4, <1>5, <1>6 DEF Next

\* The sentinel never pushes more often than it has a reason to, for any
\* clips that offer one format, any threads, commands and limits, and
\* however its steps interleave with theirs (main.rs:1714-1781).
THEOREM NoEndlessPushing ==
  ASSUME SingleFormats
  PROVE  Spec => []PushBudget
<1>1. IInv => PushBudget
  <2> SUFFICES ASSUME IInv PROVE PushBudget
    OBVIOUS
  <2>1. /\ changes \in Nat /\ pushes \in Nat /\ actor["sentinel"].at \in Place
        /\ \A v, w : Due(v, w) \in {0, 1}
    BY DueBound DEF IInv, Shape, Actor
  <2> QED
    BY <2>1 DEF IInv, Paid, PushBudget, Elsewhere
<1> QED
  BY InitInv, Inductive, <1>1, PTL DEF Spec

----------------------------------------------------------------------------
(* Folds over finite sets.  The library's induction theorems have an       *)
(* operator as a parameter; a set of the good subsets takes its place.     *)

\* A subset is good if those without one of its elements are.
Hereditary(S, Good) ==
  \A s \in SUBSET S : (\A x \in s : s \ {x} \in Good) => s \in Good

LEMMA SubsetInduction ==
  ASSUME NEW S, IsFiniteSet(S), NEW Good, Hereditary(S, Good)
  PROVE  \A s \in SUBSET S : s \in Good
<1> DEFINE Bad == {s \in SUBSET S : s \notin Good}
<1> SUFFICES ASSUME Bad # {} PROVE FALSE
  OBVIOUS
<1>1. Bad \subseteq FiniteSubsetsOf(S)
  BY FS_FiniteSubsetsOfFinite
<1>2. IsWellFoundedOn(StrictSubsetOrdering(S), FiniteSubsetsOf(S))
  BY FS_StrictSubsetOrderingWellFounded
<1>3. PICK s \in Bad : \A t \in Bad : ~ (<<t, s>> \in StrictSubsetOrdering(S))
  <2> HIDE DEF Bad
  <2> QED BY <1>1, <1>2, WFMin
<1>4. PICK x \in s : s \ {x} \notin Good
  BY DEF Hereditary
<1>5. s \ {x} \in Bad
  BY <1>4
<1>6. <<s \ {x}, s>> \in StrictSubsetOrdering(S)
  BY <1>4, <1>5 DEF StrictSubsetOrdering
<1> QED BY <1>3, <1>5, <1>6

LEMMA SubsetSmaller ==
  ASSUME NEW S, IsFiniteSet(S), NEW s \in SUBSET S
  PROVE  /\ IsFiniteSet(s) /\ Cardinality(s) \in Nat
         /\ (Cardinality(s) = 0) <=> (s = {})
         /\ Cardinality(s) <= Cardinality(S)
         /\ \A x \in s : s \ {x} \in SUBSET S /\ Cardinality(s \ {x}) = Cardinality(s) - 1
  BY FS_Subset, FS_CardinalityType, FS_EmptySet, FS_RemoveElement

\* Whichever element c takes of a set.
Chooses(S, c) == \A s \in SUBSET S : s # {} => c[s] \in s

\* One round of a fold: h is the fold over smaller sets.
Round(base, c, st, h, s) ==
  IF s = {} THEN base ELSE st[<<c[s], h[s \ {c[s]}]>>]

LEMMA RoundType ==
  ASSUME NEW S, IsFiniteSet(S), NEW A, NEW base \in A, NEW c, Chooses(S, c),
         NEW st \in [S \X A -> A], NEW h \in [SUBSET S -> A], NEW s \in SUBSET S
  PROVE  Round(base, c, st, h, s) \in A
<1>1. CASE s = {}
  BY <1>1 DEF Round
<1>2. CASE s # {}
  <2>1. c[s] \in S /\ h[s \ {c[s]}] \in A
    BY <1>2 DEF Chooses
  <2>2. st[<<c[s], h[s \ {c[s]}]>>] \in A
    BY <2>1
  <2> QED BY <1>2, <2>2 DEF Round
<1> QED BY <1>1, <1>2

\* h is the function that the recursion of a fold defines.
FoldOf(S, A, base, c, st, h) ==
  /\ h \in [SUBSET S -> A]
  /\ \A s \in SUBSET S : h[s] = Round(base, c, st, h, s)

LEMMA FoldExists ==
  ASSUME NEW S, IsFiniteSet(S), NEW A, NEW base \in A, NEW c, Chooses(S, c),
         NEW st \in [S \X A -> A]
  PROVE  \E h : FoldOf(S, A, base, c, st, h)
<1> DEFINE Right(h, n) == \A s \in SUBSET S : Cardinality(s) <= n => h[s] = Round(base, c, st, h, s)
           Good == {T \in SUBSET S : \E h \in [SUBSET S -> A] : Right(h, Cardinality(T))}
<1>1. {} \in Good
  <2> DEFINE h == [s \in SUBSET S |-> base]
  <2>1. ASSUME NEW s \in SUBSET S, Cardinality(s) <= Cardinality({})
        PROVE  h[s] = Round(base, c, st, h, s)
    <3>1. s = {}
      BY <2>1, SubsetSmaller, FS_EmptySet
    <3> QED BY <3>1 DEF Round
  <2>2. h \in [SUBSET S -> A]
    OBVIOUS
  <2> HIDE DEF h
  <2>3. Right(h, Cardinality({}))
    BY <2>1
  <2> QED BY <2>2, <2>3
<1>2. ASSUME NEW T \in SUBSET S, T # {}, \A x \in T : T \ {x} \in Good
      PROVE  T \in Good
  <2>1. PICK x \in T : TRUE
    BY <1>2
  <2>2. /\ Cardinality(T \ {x}) = Cardinality(T) - 1
        /\ Cardinality(T) \in Nat
    BY <2>1, SubsetSmaller
  <2>3. PICK h \in [SUBSET S -> A] : Right(h, Cardinality(T) - 1)
    BY <1>2, <2>1, <2>2
  <2> DEFINE k == [s \in SUBSET S |-> Round(base, c, st, h, s)]
  <2>4. k \in [SUBSET S -> A]
    BY RoundType
  <2>5. ASSUME NEW s \in SUBSET S, Cardinality(s) <= Cardinality(T)
        PROVE  k[s] = Round(base, c, st, k, s)
    <3>1. CASE s = {}
      BY <3>1 DEF Round
    <3>2. CASE s # {}
      <4> DEFINE u == s \ {c[s]}
      <4>1. u \in SUBSET S /\ Cardinality(u) = Cardinality(s) - 1 /\ Cardinality(s) \in Nat
        BY <3>2, SubsetSmaller DEF Chooses
      <4>2. h[u] = Round(base, c, st, h, u)
        BY <2>2, <2>3, <2>5, <4>1
      <4>3. h[u] = k[u]
        BY <4>1, <4>2
      <4> QED BY <3>2, <4>3 DEF Round
    <3> QED BY <3>1, <3>2
  <2> HIDE DEF k
  <2>6. Right(k, Cardinality(T))
    BY <2>5
  <2> QED BY <2>4, <2>6
<1>3. Hereditary(S, Good)
  <2> HIDE DEF Good
  <2> QED BY <1>1, <1>2 DEF Hereditary
<1>4. S \in Good
  <2> HIDE DEF Good
  <2> QED BY <1>3, SubsetInduction
<1>5. PICK h \in [SUBSET S -> A] : Right(h, Cardinality(S))
  BY <1>4
<1>6. \A s \in SUBSET S : Cardinality(s) <= Cardinality(S)
  BY SubsetSmaller
<1> QED BY <1>5, <1>6 DEF FoldOf

\* A function that satisfies the recursion stays in A.
LEMMA FoldType ==
  ASSUME NEW S, IsFiniteSet(S), NEW A, NEW c, Chooses(S, c), NEW h,
         \A s \in SUBSET S : s = {} \/ h[s \ {c[s]}] \in A => h[s] \in A
  PROVE  \A s \in SUBSET S : h[s] \in A
<1> DEFINE Good == {s \in SUBSET S : h[s] \in A}
<1>1. ASSUME NEW s \in SUBSET S, \A x \in s : s \ {x} \in Good
      PROVE  s \in Good
  BY <1>1 DEF Chooses
<1>2. Hereditary(S, Good)
  <2> HIDE DEF Good
  <2> QED BY <1>1 DEF Hereditary
<1>3. \A s \in SUBSET S : s \in Good
  <2> HIDE DEF Good
  <2> QED BY <1>2, SubsetInduction
<1> QED BY <1>3

\* Finite sets of numbers have a greatest element.
LEMMA MaxIn ==
  ASSUME NEW S \in SUBSET Nat, IsFiniteSet(S), S # {}
  PROVE  Max(S) \in S
<1> DEFINE Good == {s \in SUBSET S : s # {} => \E x \in s : \A y \in s : x >= y}
<1>1. ASSUME NEW s \in SUBSET S, \A x \in s : s \ {x} \in Good
      PROVE  s \in Good
  <2>1. CASE s = {}
    BY <2>1
  <2>2. CASE s # {}
    <3>1. PICK x \in s : TRUE
      BY <2>2
    <3>2. CASE s \ {x} = {}
      <4>1. \A y \in s : x >= y
        BY <3>1, <3>2
      <4> QED BY <4>1
    <3>3. CASE s \ {x} # {}
      <4>1. PICK m \in s \ {x} : \A y \in s \ {x} : m >= y
        BY <1>1, <3>1, <3>3
      <4>2. x \in Nat /\ m \in Nat
        BY <4>1
      <4>3. (x >= m /\ \A y \in s : x >= y) \/ \A y \in s : m >= y
        BY <4>1, <4>2
      <4> QED BY <4>1, <4>3
    <3> QED BY <3>2, <3>3
  <2> QED BY <2>1, <2>2
<1>2. S \in Good
  <2> HIDE DEF Good
  <2>1. Hereditary(S, Good)
    BY <1>1 DEF Hereditary
  <2> QED BY <2>1, SubsetInduction
<1>3. \E x \in S : \A y \in S : x >= y
  BY <1>2
<1> QED BY <1>3 DEF Max

----------------------------------------------------------------------------
(* The bytes of a set of files.                                            *)

First(s) == CHOOSE x \in s : TRUE

\* h is the sum for the subsets of S.
Sums(S, h) ==
  /\ h \in [SUBSET S -> Nat]
  /\ \A s \in SUBSET S : h[s] = IF s = {} THEN 0 ELSE Length(First(s)) + h[s \ {First(s)}]

LEMMA LengthType == \A f \in File : Length(f) \in Nat
BY ClipStagingAssumption DEF File, Length

LEMMA FirstChooses ==
  ASSUME NEW S, IsFiniteSet(S)
  PROVE  Chooses(S, [s \in SUBSET S |-> First(s)])
BY DEF Chooses, First

LEMMA BytesSum ==
  ASSUME NEW S \in SUBSET File, IsFiniteSet(S)
  PROVE  \E h : Sums(S, h) /\ Bytes(S) = h[S]
<1> DEFINE P(h) == h = [s \in SUBSET S |->
                          IF s = {} THEN 0 ELSE Length(First(s)) + h[s \ {First(s)}]]
           it == CHOOSE h : P(h)
           c == [s \in SUBSET S |-> First(s)]
           st == [p \in S \X Nat |-> Length(p[1]) + p[2]]
<1>1. Bytes(S) = it[S]
  BY DEF Bytes, MapThenSumSet, MapThenFoldSet, First
<1>2. Chooses(S, c)
  BY FirstChooses
<1>3. st \in [S \X Nat -> Nat]
  BY LengthType
<1>4. PICK h : FoldOf(S, Nat, 0, c, st, h)
  <2> HIDE DEF c, st
  <2>1. 0 \in Nat
    OBVIOUS
  <2> QED BY <1>2, <1>3, <2>1, FoldExists
<1>5. P(h)
  <2>1. ASSUME NEW s \in SUBSET S
        PROVE  h[s] = IF s = {} THEN 0 ELSE Length(First(s)) + h[s \ {First(s)}]
    <3>1. CASE s = {}
      BY <1>4, <3>1 DEF FoldOf, Round
    <3>2. CASE s # {}
      <4>1. c[s] = First(s) /\ First(s) \in S /\ h[s \ {First(s)}] \in Nat
        BY <1>2, <1>4, <3>2 DEF Chooses, FoldOf
      <4>2. h[s] = st[<<First(s), h[s \ {First(s)}]>>]
        BY <1>4, <3>2, <4>1 DEF FoldOf, Round
      <4> QED BY <3>2, <4>1, <4>2
    <3> QED BY <3>1, <3>2
  <2> QED BY <1>4, <2>1 DEF FoldOf
<1>6. P(it)
  <2> HIDE DEF P
  <2> QED BY <1>5
<1> HIDE DEF it
<1>7. \A s \in SUBSET S : it[s] = IF s = {} THEN 0 ELSE Length(First(s)) + it[s \ {First(s)}]
  BY <1>6
<1>8. ASSUME NEW s \in SUBSET S, s = {} \/ it[s \ {c[s]}] \in Nat
      PROVE  it[s] \in Nat
  <2>1. CASE s = {}
    <3>1. it[s] = 0
      BY <1>7, <2>1
    <3> QED BY <3>1
  <2>2. CASE s # {}
    <3>1. c[s] = First(s) /\ First(s) \in S
      BY <1>2, <2>2 DEF Chooses
    <3>2. it[s] = Length(First(s)) + it[s \ {First(s)}]
      BY <1>7, <2>2
    <3>3. Length(First(s)) \in Nat
      BY <3>1, LengthType
    <3> QED BY <1>8, <2>2, <3>1, <3>2, <3>3
  <2> QED BY <2>1, <2>2
<1>9. \A s \in SUBSET S : it[s] \in Nat
  <2> HIDE DEF c
  <2> QED BY <1>2, <1>8, FoldType
<1>10. it \in [SUBSET S -> Nat]
  BY <1>6, <1>9
<1> QED BY <1>1, <1>7, <1>10 DEF Sums

\* The sums of two sets agree on what they share.
LEMMA SumsAgree ==
  ASSUME NEW S \in SUBSET File, IsFiniteSet(S), NEW T \in SUBSET S,
         NEW h, Sums(S, h), NEW k, Sums(T, k)
  PROVE  h[T] = k[T]
<1> DEFINE Good == {s \in SUBSET T : h[s] = k[s]}
<1>1. ASSUME NEW s \in SUBSET T, \A x \in s : s \ {x} \in Good
      PROVE  s \in Good
  <2>1. /\ h[s] = IF s = {} THEN 0 ELSE Length(First(s)) + h[s \ {First(s)}]
        /\ k[s] = IF s = {} THEN 0 ELSE Length(First(s)) + k[s \ {First(s)}]
    BY DEF Sums
  <2>2. s # {} => First(s) \in s
    BY DEF First
  <2> QED BY <1>1, <2>1, <2>2
<1>2. Hereditary(T, Good)
  <2> HIDE DEF Good
  <2> QED BY <1>1 DEF Hereditary
<1>3. T \in Good
  <2> HIDE DEF Good
  <2> QED BY <1>2, SubsetInduction, FS_Subset
<1> QED BY <1>3

LEMMA BytesFirst ==
  ASSUME NEW S \in SUBSET File, IsFiniteSet(S)
  PROVE  /\ Bytes(S) \in Nat
         /\ S = {} => Bytes(S) = 0
         /\ S # {} => Bytes(S) = Length(First(S)) + Bytes(S \ {First(S)})
<1>1. PICK h : Sums(S, h) /\ Bytes(S) = h[S]
  BY BytesSum
<1> DEFINE U == S \ {First(S)}
<1>2. PICK k : Sums(U, k) /\ Bytes(U) = k[U]
  <2>1. U \in SUBSET File /\ IsFiniteSet(U)
    BY FS_Subset
  <2> HIDE DEF U
  <2> QED BY <2>1, BytesSum
<1>3. h[U] = k[U]
  BY <1>1, <1>2, SumsAgree
<1>4. h[S] \in Nat /\ h[S] = IF S = {} THEN 0 ELSE Length(First(S)) + h[U]
  BY <1>1 DEF Sums
<1> QED BY <1>1, <1>2, <1>3, <1>4

\* A file counts as much as it is long, whichever is counted first.
LEMMA BytesRemove ==
  ASSUME NEW S \in SUBSET File, IsFiniteSet(S), NEW x \in S
  PROVE  Bytes(S) = Length(x) + Bytes(S \ {x})
<1> DEFINE Good == {s \in SUBSET S : \A z \in s : Bytes(s) = Length(z) + Bytes(s \ {z})}
<1>1. ASSUME NEW s \in SUBSET S, \A z \in s : s \ {z} \in Good
      PROVE  s \in Good
  <2> SUFFICES ASSUME NEW z \in s PROVE Bytes(s) = Length(z) + Bytes(s \ {z})
    OBVIOUS
  <2> DEFINE y == First(s)  u == s \ {y}  w == s \ {z}  b == (s \ {y}) \ {z}
  <2>1. y \in s
    BY DEF First
  <2> HIDE DEF y
  <2>2. IsFiniteSet(s) /\ IsFiniteSet(u) /\ IsFiniteSet(w) /\ IsFiniteSet(b)
    BY FS_Subset
  <2>3. s \in SUBSET File /\ u \in SUBSET File /\ w \in SUBSET File /\ b \in SUBSET File
    OBVIOUS
  <2>4. Bytes(s) = Length(y) + Bytes(u)
    BY <2>1, <2>2, <2>3, BytesFirst DEF y
  <2>5. CASE y = z
    BY <2>4, <2>5
  <2>6. CASE y # z
    <3>1. Bytes(u) = Length(z) + Bytes(b)
      BY <1>1, <2>1, <2>6
    <3>2. Bytes(w) = Length(y) + Bytes(b)
      <4>1. Bytes(w) = Length(y) + Bytes(w \ {y})
        BY <1>1, <2>1, <2>6
      <4>2. w \ {y} = b
        OBVIOUS
      <4> QED BY <4>1, <4>2
    <3>3. Length(y) \in Nat /\ Length(z) \in Nat
      BY <2>1, <2>3, LengthType
    <3>4. Bytes(b) \in Nat /\ Bytes(u) \in Nat /\ Bytes(w) \in Nat
      <4> HIDE DEF u, w, b
      <4> QED BY <2>2, <2>3, BytesFirst
    <3>5. Bytes(s) = Length(z) + Bytes(w)
      <4> HIDE DEF u, w, b
      <4> QED BY <2>4, <3>1, <3>2, <3>3, <3>4
    <3> QED BY <3>5
  <2> QED BY <2>5, <2>6
<1>2. Hereditary(S, Good)
  <2> HIDE DEF Good
  <2> QED BY <1>1 DEF Hereditary
<1>3. S \in Good
  <2> HIDE DEF Good
  <2> QED BY <1>2, SubsetInduction
<1> QED BY <1>3

\* Fewer files have no more bytes.
LEMMA BytesMonotone ==
  ASSUME NEW S \in SUBSET File, IsFiniteSet(S), NEW T \in SUBSET S
  PROVE  Bytes(T) <= Bytes(S)
<1> DEFINE Good == {s \in SUBSET S : \A t \in SUBSET s : Bytes(t) <= Bytes(s)}
<1>1. ASSUME NEW s \in SUBSET S, \A z \in s : s \ {z} \in Good
      PROVE  s \in Good
  <2> SUFFICES ASSUME NEW t \in SUBSET s PROVE Bytes(t) <= Bytes(s)
    OBVIOUS
  <2>1. /\ s \in SUBSET File /\ IsFiniteSet(s) /\ Bytes(s) \in Nat
        /\ t \in SUBSET File /\ IsFiniteSet(t) /\ Bytes(t) \in Nat
    <3>1. s \in SUBSET File /\ IsFiniteSet(s) /\ t \in SUBSET File /\ IsFiniteSet(t)
      BY FS_Subset
    <3> QED BY <3>1, BytesFirst
  <2>2. CASE t = s
    BY <2>1, <2>2
  <2>3. CASE t # s
    <3>1. PICK z \in s : t \in SUBSET (s \ {z})
      BY <2>3
    <3>2. Bytes(t) <= Bytes(s \ {z})
      BY <1>1, <3>1
    <3>3. Bytes(s) = Length(z) + Bytes(s \ {z}) /\ Length(z) \in Nat
      BY <2>1, <3>1, BytesRemove, LengthType
    <3>4. Bytes(s \ {z}) \in Nat
      <4>1. s \ {z} \in SUBSET File /\ IsFiniteSet(s \ {z})
        BY <2>1, FS_Subset
      <4> QED BY <4>1, BytesFirst
    <3> QED BY <2>1, <3>2, <3>3, <3>4
  <2> QED BY <2>2, <2>3
<1>2. Hereditary(S, Good)
  <2> HIDE DEF Good
  <2> QED BY <1>1 DEF Hereditary
<1>3. S \in Good
  <2> HIDE DEF Good
  <2> QED BY <1>2, SubsetInduction
<1> QED BY <1>3

----------------------------------------------------------------------------
(* The operators of the staging directory.                                 *)

LEMMA IndexesChoose ==
  ASSUME NEW dir \in Seq(File)
  PROVE  /\ IsFiniteSet(DOMAIN dir)
         /\ Chooses(DOMAIN dir, [s \in SUBSET DOMAIN dir |-> Max(s)])
<1>1. DOMAIN dir = 1 .. Len(dir) /\ Len(dir) \in Nat
  OBVIOUS
<1>2. IsFiniteSet(DOMAIN dir) /\ DOMAIN dir \in SUBSET Nat
  BY <1>1, FS_Interval
<1>3. \A s \in SUBSET DOMAIN dir : s # {} => Max(s) \in s
  BY <1>2, MaxIn, FS_Subset
<1> QED BY <1>2, <1>3 DEF Chooses

LEMMA FilesFinite ==
  ASSUME NEW dir \in Seq(File)
  PROVE  ToSet(dir) \in SUBSET File /\ IsFiniteSet(ToSet(dir))
<1>1. IsFiniteSet(DOMAIN dir)
  BY IndexesChoose
<1>2. dir \in Surjection(DOMAIN dir, ToSet(dir)) /\ ToSet(dir) \in SUBSET File
  BY DEF ToSet, Surjection
<1> QED BY <1>1, <1>2, FS_Surjection

LEMMA AppendSet ==
  ASSUME NEW dir \in Seq(File), NEW f \in File
  PROVE  Append(dir, f) \in Seq(File) /\ ToSet(Append(dir, f)) = ToSet(dir) \cup {f}
<1> DEFINE new == Append(dir, f)
<1>1. /\ new \in Seq(File) /\ Len(dir) \in Nat
      /\ DOMAIN dir = 1 .. Len(dir) /\ DOMAIN new = 1 .. Len(dir) + 1
      /\ \A i \in 1 .. Len(dir) : new[i] = dir[i]
      /\ new[Len(dir) + 1] = f
  OBVIOUS
<1> HIDE DEF new
<1>2. \A i \in DOMAIN new : i \in DOMAIN dir \/ i = Len(dir) + 1
  BY <1>1
<1>3. DOMAIN dir \subseteq DOMAIN new /\ Len(dir) + 1 \in DOMAIN new
  BY <1>1
<1>4. ASSUME NEW x \in ToSet(new) PROVE x \in ToSet(dir) \cup {f}
  BY <1>1, <1>2 DEF ToSet
<1>5. ASSUME NEW x \in ToSet(dir) \cup {f} PROVE x \in ToSet(new)
  BY <1>1, <1>3 DEF ToSet
<1> QED BY <1>1, <1>4, <1>5 DEF new

\* What is left of a directory was there, and is not gone.
LEMMA WithoutType ==
  ASSUME NEW dir \in Seq(File), NEW gone
  PROVE  /\ Without(dir, gone) \in Seq(File)
         /\ ToSet(Without(dir, gone)) \subseteq ToSet(dir) \ gone
<1> DEFINE D == DOMAIN dir
           Rest(l, i) == IF dir[i] \in gone THEN l ELSE Append(l, dir[i])
           P(h) == h = [s \in SUBSET D |-> IF s = {} THEN <<>> ELSE Rest(h[s \ {Max(s)}], Max(s))]
           it == CHOOSE h : P(h)
           A == {l \in Seq(File) : ToSet(l) \subseteq ToSet(dir) \ gone}
           c == [s \in SUBSET D |-> Max(s)]
           st == [p \in D \X A |-> Rest(p[2], p[1])]
<1>1. Without(dir, gone) = it[D]
  BY DEF Without, FoldLeft, MapThenFoldSet
<1>2. IsFiniteSet(D) /\ Chooses(D, c)
  BY IndexesChoose
<1>3. \A l \in A, i \in D : Rest(l, i) \in A
  <2> SUFFICES ASSUME NEW l \in A, NEW i \in D PROVE Rest(l, i) \in A
    OBVIOUS
  <2>1. dir[i] \in File /\ dir[i] \in ToSet(dir)
    BY DEF ToSet
  <2>2. /\ Append(l, dir[i]) \in Seq(File)
        /\ ToSet(Append(l, dir[i])) = ToSet(l) \cup {dir[i]}
    BY <2>1, AppendSet
  <2> QED BY <2>1, <2>2
<1>4. <<>> \in A
  BY DEF ToSet
<1>5. PICK h : FoldOf(D, A, <<>>, c, st, h)
  <2>1. st \in [D \X A -> A]
    BY <1>3
  <2> HIDE DEF D, A, c, st
  <2> QED BY <1>2, <1>4, <2>1, FoldExists
<1> HIDE DEF A
<1>6. P(h)
  <2>1. ASSUME NEW s \in SUBSET D
        PROVE  h[s] = IF s = {} THEN <<>> ELSE Rest(h[s \ {Max(s)}], Max(s))
    <3>1. CASE s = {}
      BY <1>5, <3>1 DEF FoldOf, Round
    <3>2. CASE s # {}
      <4>1. c[s] = Max(s) /\ Max(s) \in D /\ h[s \ {Max(s)}] \in A
        BY <1>2, <1>5, <3>2 DEF Chooses, FoldOf
      <4>2. h[s] = st[<<Max(s), h[s \ {Max(s)}]>>]
        BY <1>5, <3>2, <4>1 DEF FoldOf, Round
      <4> QED BY <3>2, <4>1, <4>2
    <3> QED BY <3>1, <3>2
  <2> HIDE DEF Rest
  <2> QED BY <1>5, <2>1 DEF FoldOf
<1>7. P(it)
  <2> HIDE DEF P
  <2> QED BY <1>6
<1> HIDE DEF it
<1>8. \A s \in SUBSET D : it[s] = IF s = {} THEN <<>> ELSE Rest(it[s \ {Max(s)}], Max(s))
  BY <1>7
<1> HIDE DEF Rest
<1>9. ASSUME NEW s \in SUBSET D, s = {} \/ it[s \ {c[s]}] \in A
      PROVE  it[s] \in A
  <2>1. s # {} => c[s] = Max(s) /\ Max(s) \in D
    BY <1>2 DEF Chooses
  <2> QED BY <1>3, <1>4, <1>8, <1>9, <2>1
<1>10. it[D] \in A
  <2> HIDE DEF c, D
  <2> QED BY <1>2, <1>9, FoldType
<1> QED BY <1>1, <1>10 DEF A

\* What the cleanup has kept so far is within the limits.
KeptInv(acc) ==
  /\ acc \in [kept : SUBSET File, bytes : Nat]
  /\ IsFiniteSet(acc.kept)
  /\ Cardinality(acc.kept) <= MaxClipStagingFiles
  /\ Bytes(acc.kept) <= acc.bytes
  /\ acc.bytes <= MaxClipStagingBytes

LEMMA VisitKeeps ==
  ASSUME NEW acc, KeptInv(acc), NEW f \in File
  PROVE  KeptInv(Visit(acc, f))
<1>1. CASE Visit(acc, f) = acc
  BY <1>1
<1>2. CASE Visit(acc, f) # acc
  <2> DEFINE k == acc.kept \cup {f}
  <2>1. /\ Visit(acc, f) = [kept |-> k, bytes |-> acc.bytes + Length(f)]
        /\ Room(acc, f)
    BY <1>2 DEF Visit
  <2>2. k \in SUBSET File /\ IsFiniteSet(k) /\ Length(f) \in Nat
    BY FS_AddElement, LengthType DEF KeptInv
  <2>3. /\ Cardinality(acc.kept) \in Nat /\ MaxClipStagingFiles \in Nat /\ MaxClipStagingBytes \in Nat
        /\ Cardinality(k) <= Cardinality(acc.kept) + 1 /\ Cardinality(k) \in Nat
    <3>1. IsFiniteSet(acc.kept)
      BY DEF KeptInv
    <3>2. Cardinality(acc.kept) \in Nat /\ Cardinality(k) \in Nat
      BY <2>2, <3>1, FS_CardinalityType
    <3>3. Cardinality(k) = IF f \in acc.kept THEN Cardinality(acc.kept) ELSE Cardinality(acc.kept) + 1
      BY <3>1, FS_AddElement
    <3>. QED
      BY <3>2, <3>3, ClipStagingAssumption
  <2>4. Cardinality(k) <= MaxClipStagingFiles
    BY <2>1, <2>3 DEF Room
  <2>5. Bytes(acc.kept) \in Nat /\ Bytes(k) <= Bytes(acc.kept) + Length(f) /\ Bytes(k) \in Nat
    <3>1. Bytes(acc.kept) \in Nat /\ Bytes(k) \in Nat
      BY <2>2, BytesFirst DEF KeptInv
    <3>2. Bytes(k) = Length(f) + Bytes(k \ {f})
      BY <2>2, BytesRemove
    <3>3. Bytes(k \ {f}) <= Bytes(acc.kept)
      BY BytesMonotone DEF KeptInv
    <3>4. Bytes(k \ {f}) \in Nat
      <4>1. k \ {f} \in SUBSET File /\ IsFiniteSet(k \ {f})
        BY <2>2, FS_Subset
      <4> QED BY <4>1, BytesFirst
    <3> HIDE DEF k
    <3> QED BY <2>2, <3>1, <3>2, <3>3, <3>4
  <2> HIDE DEF k
  <2> QED BY <2>1, <2>2, <2>4, <2>5 DEF KeptInv, Room
<1> QED BY <1>1, <1>2

\* What the cleanup keeps is within the limits.
LEMMA KeptWithin ==
  ASSUME NEW dir \in Seq(File)
  PROVE  /\ Kept(dir) \in SUBSET File /\ IsFiniteSet(Kept(dir))
         /\ Cardinality(Kept(dir)) <= MaxClipStagingFiles
         /\ Bytes(Kept(dir)) <= MaxClipStagingBytes
<1> DEFINE D == DOMAIN dir
           none == [kept |-> {}, bytes |-> 0]
           P(h) == h = [s \in SUBSET D |-> IF s = {} THEN none ELSE Visit(h[s \ {Max(s)}], dir[Max(s)])]
           it == CHOOSE h : P(h)
           A == {acc \in [kept : SUBSET File, bytes : Nat] : KeptInv(acc)}
           c == [s \in SUBSET D |-> Max(s)]
           st == [p \in D \X A |-> Visit(p[2], dir[p[1]])]
<1>1. Kept(dir) = it[D].kept
  BY DEF Kept, FoldLeft, MapThenFoldSet
<1>2. IsFiniteSet(D) /\ Chooses(D, c)
  BY IndexesChoose
<1>3. \A acc \in A, i \in D : Visit(acc, dir[i]) \in A
  <2> SUFFICES ASSUME NEW acc \in A, NEW i \in D PROVE Visit(acc, dir[i]) \in A
    OBVIOUS
  <2>1. KeptInv(Visit(acc, dir[i]))
    BY VisitKeeps
  <2> QED BY <2>1 DEF KeptInv
<1>4. none \in A
  <2>1. IsFiniteSet({}) /\ Cardinality({}) = 0
    BY FS_EmptySet
  <2>2. Bytes({}) = 0
    BY <2>1, BytesFirst
  <2>3. none \in [kept : SUBSET File, bytes : Nat] /\ none.kept = {} /\ none.bytes = 0
    OBVIOUS
  <2> HIDE DEF none
  <2>4. KeptInv(none)
    BY <2>1, <2>2, <2>3, ClipStagingAssumption DEF KeptInv
  <2> QED BY <2>3, <2>4
<1>5. PICK h : FoldOf(D, A, none, c, st, h)
  <2>1. st \in [D \X A -> A]
    BY <1>3
  <2> HIDE DEF D, A, c, st, none
  <2> QED BY <1>2, <1>4, <2>1, FoldExists
<1> HIDE DEF A, none
<1>6. P(h)
  <2>1. ASSUME NEW s \in SUBSET D
        PROVE  h[s] = IF s = {} THEN none ELSE Visit(h[s \ {Max(s)}], dir[Max(s)])
    <3>1. CASE s = {}
      BY <1>5, <3>1 DEF FoldOf, Round
    <3>2. CASE s # {}
      <4>1. c[s] = Max(s) /\ Max(s) \in D /\ h[s \ {Max(s)}] \in A
        BY <1>2, <1>5, <3>2 DEF Chooses, FoldOf
      <4>2. h[s] = st[<<Max(s), h[s \ {Max(s)}]>>]
        BY <1>5, <3>2, <4>1 DEF FoldOf, Round
      <4> QED BY <3>2, <4>1, <4>2
    <3> QED BY <3>1, <3>2
  <2> QED BY <1>5, <2>1 DEF FoldOf
<1>7. P(it)
  <2> HIDE DEF P
  <2> QED BY <1>6
<1> HIDE DEF it
<1>8. \A s \in SUBSET D : it[s] = IF s = {} THEN none ELSE Visit(it[s \ {Max(s)}], dir[Max(s)])
  BY <1>7
<1>9. ASSUME NEW s \in SUBSET D, s = {} \/ it[s \ {c[s]}] \in A
      PROVE  it[s] \in A
  <2>1. s # {} => c[s] = Max(s) /\ Max(s) \in D
    BY <1>2 DEF Chooses
  <2> QED BY <1>3, <1>4, <1>8, <1>9, <2>1
<1>10. it[D] \in A
  <2> HIDE DEF c, D
  <2> QED BY <1>2, <1>9, FoldType
<1>11. it[D].kept \in SUBSET File /\ Bytes(it[D].kept) \in Nat
  BY <1>10, BytesFirst DEF A, KeptInv
<1> QED BY <1>1, <1>10, <1>11, ClipStagingAssumption DEF A, KeptInv

----------------------------------------------------------------------------
(* The limits of the staging directory.                                    *)

Within(files) ==
  /\ Cardinality(files) <= MaxClipStagingFiles
  /\ Bytes(files) <= MaxClipStagingBytes

ImagePlace == {"image", "newimage", "fetch", "write", "clean", "sweep", "thumb"}

\* What is staged is an image.
Stocked ==
  /\ clip.image \in Image \cup {None}
  /\ staging \in Seq(File)
  /\ \A a \in Actor : actor[a].at \in ImagePlace => actor[a].value \in Image

\* The images that nobody is about to remove.
Staying == {f \in Images(staging) : \A a \in Actor : At(a, "sweep") => f \notin actor[a].surplus}

\* Unless somebody has still to list the directory, it is within its limits
\* once all who have listed it are done.
Settled == (\A a \in Actor : ~At(a, "clean")) => Within(Staying)

SInv == Shape /\ Stocked /\ Settled

LEMMA ImagesFinite ==
  ASSUME NEW dir \in Seq(File)
  PROVE  Images(dir) \in SUBSET File /\ IsFiniteSet(Images(dir))
<1>1. Images(dir) \subseteq ToSet(dir)
  BY DEF Images
<1> QED BY <1>1, FilesFinite, FS_Subset

LEMMA WithinSmaller ==
  ASSUME NEW S \in SUBSET File, IsFiniteSet(S), Within(S), NEW T \in SUBSET S
  PROVE  Within(T)
<1>1. Bytes(T) <= Bytes(S) /\ Bytes(T) \in Nat /\ Bytes(S) \in Nat
  <2>1. T \in SUBSET File /\ IsFiniteSet(T)
    BY FS_Subset
  <2> QED BY <2>1, BytesMonotone, BytesFirst
<1>2. Cardinality(T) <= Cardinality(S) /\ Cardinality(T) \in Nat /\ Cardinality(S) \in Nat
  BY FS_Subset, FS_CardinalityType
<1> QED BY <1>1, <1>2, ClipStagingAssumption DEF Within

\* Nobody less has the directory to list, and nothing more stays in it.
LEMMA SettledKept ==
  ASSUME Stocked, Settled,
         (\A a \in Actor : ~At(a, "clean"))' => \A a \in Actor : ~At(a, "clean"),
         Staying' \subseteq Staying
  PROVE  Settled'
<1> SUFFICES ASSUME (\A a \in Actor : ~At(a, "clean"))' PROVE Within(Staying')
  BY DEF Settled
<1>1. Within(Staying)
  BY DEF Settled
<1>2. Staying \in SUBSET File /\ IsFiniteSet(Staying)
  <2>1. Images(staging) \in SUBSET File /\ IsFiniteSet(Images(staging))
    BY ImagesFinite DEF Stocked
  <2>2. Staying \subseteq Images(staging)
    BY DEF Staying
  <2> QED BY <2>1, <2>2, FS_Subset
<1> QED BY <1>1, <1>2, WithinSmaller

\* Nobody is in the directory, or has another image, when an actor moves
\* elsewhere.
LEMMA CalmMove ==
  ASSUME SInv, NEW a \in Actor, NEW p \in Place, NEW v, NEW z,
         Goes(a, p, v, z), changes' \in Nat, pushes' \in Nat,
         actor[a].at \notin {"clean", "sweep"}, p \notin {"clean", "sweep"},
         p \in ImagePlace => v \in Image,
         clip'.image \in Image \cup {None}, staging' = staging
  PROVE  SInv'
<1>1. /\ Shape' /\ actor'[a].at = p /\ actor'[a].value = v
      /\ \A b \in Actor \ {a} : actor'[b] = actor[b]
  BY Going DEF SInv
<1>2. Stocked'
  BY <1>1 DEF SInv, Stocked
<1>3. Images(staging') = Images(staging)
  OBVIOUS
<1>4. \A b \in Actor : actor'[b].at \in {"clean", "sweep"} \/ actor[b].at \in {"clean", "sweep"}
                          => actor'[b] = actor[b]
  BY <1>1
<1>5. Staying' \subseteq Staying
  BY <1>3, <1>4 DEF Staying, At
<1>6. Settled'
  BY <1>4, <1>5, SettledKept DEF SInv, At
<1> QED BY <1>1, <1>2, <1>6 DEF SInv

LEMMA CalmStay ==
  ASSUME SInv, actor' = actor, staging' = staging,
         changes' \in Nat, pushes' \in Nat, clip'.image \in Image \cup {None}
  PROVE  SInv'
<1>1. Shape' /\ Stocked'
  BY DEF SInv, Shape, Stocked
<1>2. Settled'
  BY DEF SInv, Settled, Staying, At
<1> QED BY <1>1, <1>2 DEF SInv

LEMMA WrittenType ==
  ASSUME NEW dir \in Seq(File), NEW f \in File
  PROVE  /\ WrittenTo(dir, f) \in Seq(File)
         /\ ToSet(WrittenTo(dir, f)) \subseteq ToSet(dir) \cup {f}
<1> DEFINE l == Without(dir, {f})
           w == <<f>> \o l
<1>1. l \in Seq(File) /\ ToSet(l) \subseteq ToSet(dir)
  BY WithoutType
<1> HIDE DEF l
<1>2. w \in Seq(File) /\ \A i \in DOMAIN w : w[i] = f \/ (i - 1 \in DOMAIN l /\ w[i] = l[i - 1])
  BY <1>1
<1> HIDE DEF w
<1>3. ToSet(w) \subseteq ToSet(l) \cup {f}
  BY <1>2 DEF ToSet
<1> QED BY <1>1, <1>2, <1>3 DEF WrittenTo, w, l

LEMMA InitStaging == Init => SInv
<1> SUFFICES ASSUME Init PROVE SInv
  OBVIOUS
<1>1. \A a \in Actor : \E p \in {"start", "idle"} :
        actor[a] = [at |-> p, value |-> None, surplus |-> {}]
  BY DEF Init, Idle, In
<1>2. Shape
  BY <1>1 DEF Init, Shape, Place
<1>3. Stocked
  BY <1>1, ClipboardAssumption DEF Init, Stocked, ImagePlace, Empty
<1>4. Images(staging) = {}
  BY DEF Init, Images, ToSet
<1>5. Within({})
  <2>1. IsFiniteSet({}) /\ Cardinality({}) = 0
    BY FS_EmptySet
  <2>2. Bytes({}) = 0
    BY <2>1, BytesFirst
  <2> QED BY <2>1, <2>2, ClipStagingAssumption DEF Within
<1>6. Staying = {}
  BY <1>4 DEF Staying
<1> QED BY <1>2, <1>3, <1>5, <1>6 DEF SInv, Settled

\* Whoever stages has listed the directory after the last image was
\* written, and removes what he found too much, or has still to list it.
LEMMA StagingSettles ==
  ASSUME SInv, NEW a \in Actor, Staging(a)
  PROVE  SInv'
<1>t. /\ changes \in Nat /\ pushes \in Nat /\ actor[a].at \in Place
      /\ Shape /\ Stocked /\ Settled /\ staging \in Seq(File)
      /\ clip.image \in Image \cup {None}
      /\ actor[a].at \in ImagePlace => actor[a].value \in Image
  BY DEF SInv, Shape, Stocked
<1>p. /\ Onward(a) \in Place \ {"clean", "sweep"}
      /\ {"clean", "sweep", "push", "idle"} \subseteq Place
      /\ {"clean", "sweep", "write", "thumb"} \subseteq ImagePlace
      /\ "push" \notin ImagePlace /\ "idle" \notin ImagePlace
  BY DEF Onward, Place, ImagePlace
<1>1. CASE StageFails(a)
  <2>1. Goes(a, Onward(a), actor[a].value, {})
    BY <1>1 DEF StageFails, Goes
  <2> QED BY <1>1, <1>t, <1>p, <2>1, CalmMove DEF StageFails, At
<1>2. CASE NoThumbnail(a)
  <2>1. Goes(a, "push", actor[a].value, {})
    BY <1>2 DEF NoThumbnail, Goes
  <2> QED BY <1>2, <1>t, <1>p, <2>1, CalmMove DEF NoThumbnail, At
<1>3. CASE Push(a)
  <2>1. Goes(a, "idle", None, {})
    BY <1>3 DEF Push, Goes
  <2>2. pushes' \in Nat
    BY <1>3, <1>t DEF Push
  <2> QED BY <1>3, <1>t, <1>p, <2>1, <2>2, CalmMove DEF Push, At
<1>4. CASE Stage(a)
  <2>1. Goes(a, "clean", actor[a].value, {})
    BY <1>4 DEF Stage, Goes
  <2>2. /\ Shape' /\ actor'[a].at = "clean" /\ actor'[a].value = actor[a].value
        /\ \A b \in Actor \ {a} : actor'[b] = actor[b]
    BY <1>4, <1>t, <1>p, <2>1, Going DEF Stage
  <2>3. actor[a].value \in Image
    BY <1>4, <1>t, <1>p DEF Stage, At
  <2>4. staging' \in Seq(File)
    <3>1. ImageFile(actor[a].value) \in File
      BY <2>3 DEF ImageFile, File
    <3> QED BY <1>4, <1>t, <3>1, WrittenType DEF Stage
  <2>5. Stocked'
    BY <1>4, <1>t, <2>2, <2>3, <2>4 DEF Stage, Stocked
  <2>6. Settled'
    BY <2>2 DEF Settled, At
  <2> QED BY <2>2, <2>5, <2>6 DEF SInv
<1>5. CASE ListStaging(a)
  <2>1. Goes(a, "sweep", actor[a].value, Surplus(staging))
    BY <1>5 DEF ListStaging, Goes
  <2>2. /\ Shape' /\ actor'[a].at = "sweep" /\ actor'[a].value = actor[a].value
        /\ \A b \in Actor \ {a} : actor'[b] = actor[b]
    BY <1>5, <1>t, <1>p, <2>1, Going DEF ListStaging
  <2>3. actor'[a].surplus = Surplus(staging) /\ staging' = staging
    BY <1>5, <1>t DEF ListStaging, Shape
  <2>4. Stocked'
    BY <1>5, <1>t, <1>p, <2>2 DEF ListStaging, Stocked, At
  <2>5. Staying' \subseteq Kept(staging)
    BY <2>2, <2>3 DEF Staying, At, Surplus, Images
  <2>6. Within(Kept(staging)) /\ Kept(staging) \in SUBSET File /\ IsFiniteSet(Kept(staging))
    BY <1>t, KeptWithin DEF Within
  <2>7. Within(Staying')
    BY <2>5, <2>6, WithinSmaller
  <2>8. Settled'
    BY <2>7 DEF Settled
  <2> QED BY <2>2, <2>4, <2>8 DEF SInv
<1>6. CASE Sweep(a)
  <2>1. PICK f \in actor[a].surplus :
          /\ staging' = RemovedFrom(staging, f)
          /\ actor' = [actor EXCEPT ![a].surplus = @ \ {f}]
    BY <1>6 DEF Sweep
  <2>2. Goes(a, "sweep", actor[a].value, actor[a].surplus \ {f})
    BY <1>6, <2>1 DEF Goes, Sweep, At
  <2>3. /\ Shape' /\ actor'[a].at = "sweep" /\ actor'[a].value = actor[a].value
        /\ \A b \in Actor \ {a} : actor'[b] = actor[b]
    BY <1>6, <1>t, <1>p, <2>2, Going DEF Sweep
  <2>4. actor'[a].surplus = actor[a].surplus \ {f} /\ actor[a].at = "sweep"
    BY <1>6, <1>t, <2>1 DEF Shape, Sweep, At
  <2>5. staging' \in Seq(File) /\ ToSet(staging') \subseteq ToSet(staging) \ {f}
    <3> DEFINE gone == IF f.thumb THEN {f} ELSE {f, ThumbFile(f.image)}
    <3>1. staging' = Without(staging, gone) /\ f \in gone
      BY <2>1 DEF RemovedFrom
    <3> HIDE DEF gone
    <3> QED BY <1>t, <3>1, WithoutType
  <2>6. Stocked'
    BY <1>6, <1>t, <1>p, <2>3, <2>4, <2>5 DEF Sweep, Stocked, At
  <2>7. Staying' \subseteq Staying
    <3> SUFFICES ASSUME NEW g \in Staying' PROVE g \in Staying
      OBVIOUS
    <3>1. g \in ToSet(staging') /\ ~g.thumb /\ \A b \in Actor : actor'[b].at = "sweep" => g \notin actor'[b].surplus
      BY DEF Staying, Images, At
    <3>2. g \in Images(staging) /\ g # f
      BY <2>5, <3>1 DEF Images
    <3>3. \A b \in Actor : actor[b].at = "sweep" => g \notin actor[b].surplus
      BY <2>3, <2>4, <3>1, <3>2
    <3> QED BY <3>2, <3>3 DEF Staying, At
  <2>8. \A b \in Actor : actor'[b].at = actor[b].at
    BY <2>3, <2>4
  <2>9. Settled'
    BY <1>t, <2>7, <2>8, SettledKept DEF At
  <2> QED BY <2>3, <2>6, <2>9 DEF SInv
<1>7. CASE Swept(a)
  <2>1. Goes(a, Onward(a), actor[a].value, {})
    BY <1>7 DEF Swept, Goes
  <2>2. /\ Shape' /\ actor'[a].at = Onward(a) /\ actor'[a].value = actor[a].value
        /\ \A b \in Actor \ {a} : actor'[b] = actor[b]
    BY <1>7, <1>t, <1>p, <2>1, Going DEF Swept
  <2>3. actor[a].at = "sweep" /\ actor[a].surplus = {} /\ staging' = staging
    BY <1>7 DEF Swept, At
  <2>4. Stocked'
    BY <1>7, <1>t, <1>p, <2>2, <2>3 DEF Swept, Stocked
  <2>5. Staying' \subseteq Staying
    BY <2>2, <2>3 DEF Staying, Images, At
  <2>6. Settled'
    BY <1>t, <2>2, <2>3, <2>5, SettledKept DEF At
  <2> QED BY <2>2, <2>4, <2>6 DEF SInv
<1>8. CASE Thumbnail(a)
  <2>1. Goes(a, "push", actor[a].value, {})
    BY <1>8 DEF Thumbnail, Goes
  <2>2. /\ Shape' /\ actor'[a].at = "push"
        /\ \A b \in Actor \ {a} : actor'[b] = actor[b]
    BY <1>8, <1>t, <1>p, <2>1, Going DEF Thumbnail
  <2>3. actor[a].at = "thumb" /\ actor[a].value \in Image
    BY <1>8, <1>t, <1>p DEF Thumbnail, At
  <2> DEFINE f == ThumbFile(actor[a].value)
  <2>4. f \in File /\ f.thumb
    BY <2>3 DEF ThumbFile, File
  <2>5. staging' \in Seq(File) /\ ToSet(staging') \subseteq ToSet(staging) \cup {f}
    <3>1. staging' = WrittenTo(staging, f)
      BY <1>8 DEF Thumbnail
    <3> HIDE DEF f
    <3> QED BY <1>t, <2>4, <3>1, WrittenType
  <2> HIDE DEF f
  <2>6. Images(staging') \subseteq Images(staging)
    BY <2>4, <2>5 DEF Images
  <2>7. Stocked'
    BY <1>8, <1>t, <1>p, <2>2, <2>5 DEF Thumbnail, Stocked
  <2>8. \A b \in Actor : actor'[b].at \in {"clean", "sweep"} \/ actor[b].at \in {"clean", "sweep"}
                            => actor'[b] = actor[b]
    BY <2>2, <2>3
  <2>9. Staying' \subseteq Staying
    BY <2>6, <2>8 DEF Staying, At
  <2>10. Settled'
    BY <1>t, <2>8, <2>9, SettledKept DEF At
  <2> QED BY <2>2, <2>7, <2>10 DEF SInv
<1> QED
  BY <1>1, <1>2, <1>3, <1>4, <1>5, <1>6, <1>7, <1>8 DEF Staging

\* The sentinel's readings and comparisons leave the directory alone.
LEMMA RoundSettles ==
  ASSUME SInv, Sentinel, ~Staging("sentinel")
  PROVE  SInv'
<1>t. /\ changes \in Nat /\ pushes \in Nat /\ "sentinel" \in Actor
      /\ clip.image \in Image \cup {None}
      /\ actor["sentinel"].at \in ImagePlace => actor["sentinel"].value \in Image
  BY DEF SInv, Shape, Stocked, Actor
<1>u. clip' = clip /\ changes' = changes /\ pushes' = pushes /\ staging' = staging
  BY DEF Sentinel, Begin, ReadImage, NoImage, ReadText, NoText, ReadsImage, ReadsText,
         ReadsNothing, CompareImage, CompareText, Compare, MarkInitial, MarkImage, MarkText, Mark
<1>1. ASSUME NEW p \in Place, NEW v, Goes("sentinel", p, v, {}),
             actor["sentinel"].at \notin {"clean", "sweep"}, p \notin {"clean", "sweep"},
             p \in ImagePlace => v \in Image
      PROVE  SInv'
  BY <1>1, <1>t, <1>u, CalmMove
<1>2. ASSUME NEW from \in {"begin", "idle"}, NEW to \in {"began", "image"}, ReadsImage(from, to)
      PROVE  SInv'
  <2>1. Goes("sentinel", to, ImageOf(clip), {}) /\ ImageOf(clip) \in Image
    BY <1>2, <1>t DEF ReadsImage, Goes, ImageOf
  <2> QED BY <1>1, <1>2, <2>1 DEF ReadsImage, At, Place
<1>3. ASSUME NEW from \in {"start", "text"}, NEW to \in {"began", "compare"}, ReadsText(from, to)
      PROVE  SInv'
  <2>1. Goes("sentinel", to, TextOf(clip), {})
    BY <1>3 DEF ReadsText, Goes
  <2> QED BY <1>1, <1>3, <2>1 DEF ReadsText, At, Place, ImagePlace
<1>4. ASSUME NEW from \in {"start", "begin", "idle", "text"}, NEW to \in {"begin", "idle", "text"},
             ReadsNothing(from, to)
      PROVE  SInv'
  <2>1. Goes("sentinel", to, None, {})
    BY <1>4 DEF ReadsNothing, Goes
  <2> QED BY <1>1, <1>4, <2>1 DEF ReadsNothing, At, Place, ImagePlace
<1>5. ASSUME NEW p \in Place \ {"clean", "sweep"}, Moves("sentinel", p),
             actor["sentinel"].at \notin {"clean", "sweep"},
             p \in ImagePlace => actor["sentinel"].at \in ImagePlace
      PROVE  SInv'
  <2>1. Goes("sentinel", p, actor["sentinel"].value, {})
    BY <1>5 DEF Goes
  <2> QED BY <1>1, <1>5, <1>t, <2>1
<1>6. CASE Begin
  BY <1>2, <1>3, <1>4, <1>6 DEF Begin
<1>7. CASE ReadImage \/ NoImage \/ ReadText \/ NoText
  BY <1>2, <1>3, <1>4, <1>7 DEF ReadImage, NoImage, ReadText, NoText
<1>8. CASE CompareImage
  <2>1. actor["sentinel"].at = "image" /\ \E p \in {"text", "newimage"} : Moves("sentinel", p)
    BY <1>8 DEF CompareImage, Compare, At
  <2> QED BY <1>5, <2>1 DEF Place, ImagePlace
<1>9. CASE CompareText
  <2>1. actor["sentinel"].at = "compare" /\ \E p \in {"idle", "newtext"} : Moves("sentinel", p)
    BY <1>9 DEF CompareText, Compare, At
  <2> QED BY <1>5, <2>1 DEF Place, ImagePlace
<1>10. CASE MarkInitial
  <2>1. actor["sentinel"].at = "began" /\ Moves("sentinel", "idle")
    BY <1>10 DEF MarkInitial, Mark, At
  <2> QED BY <1>5, <2>1 DEF Place, ImagePlace
<1>11. CASE MarkImage
  <2>1. actor["sentinel"].at = "newimage" /\ Moves("sentinel", "write")
    BY <1>11 DEF MarkImage, Mark, At
  <2> QED BY <1>5, <2>1 DEF Place, ImagePlace
<1>12. CASE MarkText
  <2>1. actor["sentinel"].at = "newtext" /\ \E p \in {"idle", "push"} : Moves("sentinel", p)
    BY <1>12 DEF MarkText, Mark, At
  <2> QED BY <1>5, <2>1 DEF Place, ImagePlace
<1> QED
  BY <1>6, <1>7, <1>8, <1>9, <1>10, <1>11, <1>12 DEF Sentinel

\* So do the threads of the server until they stage what they received.
LEMMA HandlerSettles ==
  ASSUME SInv, NEW a \in Thread, Handler(a)
  PROVE  SInv'
<1>t. /\ changes \in Nat /\ pushes \in Nat /\ a \in Actor
      /\ clip.image \in Image \cup {None}
      /\ actor[a].at \in ImagePlace => actor[a].value \in Image
  BY DEF SInv, Shape, Stocked, Actor
<1>1. ASSUME NEW v, NEW place \in {"idle", "apply", "fetch", "write"},
             place \in {"fetch", "write"} => v \in Image, Receive(a, v, place)
      PROVE  SInv'
  <2>1. /\ changes' \in Nat /\ pushes' \in Nat /\ clip' = clip /\ staging' = staging
        /\ actor[a].at = "idle"
    BY <1>1, <1>t DEF Receive, At
  <2>2. CASE place = "idle"
    <3>1. actor' = actor
      BY <1>1, <2>2 DEF Receive
    <3> QED BY <1>t, <2>1, <3>1, CalmStay
  <2>3. CASE place # "idle"
    <3>1. Goes(a, place, v, {})
      BY <1>1, <2>3 DEF Receive, Goes
    <3>2. place \in Place /\ place \notin {"clean", "sweep"} /\ (place \in ImagePlace => v \in Image)
      BY <1>1, <2>3 DEF Place, ImagePlace
    <3> QED BY <1>t, <2>1, <3>1, <3>2, CalmMove
  <2> QED BY <2>2, <2>3
<1>2. ASSUME NEW t \in Inbound \cap Text, ReceiveText(a, t)
      PROVE  SInv'
  BY <1>1, <1>2 DEF ReceiveText
<1>3. ASSUME NEW i \in Inbound \cap Image, ReceiveImage(a, i)
      PROVE  SInv'
  BY <1>1, <1>3 DEF ReceiveImage
<1>4. ASSUME NEW t \in Posted, ReceivePosted(a, t)
      PROVE  SInv'
  BY <1>1, <1>4 DEF ReceivePosted
<1>5. CASE Fetched(a)
  <2>1. Goes(a, "write", actor[a].value, {}) /\ actor[a].at = "fetch"
    BY <1>5 DEF Fetched, Goes, At
  <2>2. actor[a].value \in Image /\ "write" \in Place
    BY <1>t, <2>1 DEF ImagePlace, Place
  <2> QED BY <1>5, <1>t, <2>1, <2>2, CalmMove DEF Fetched
<1>6. CASE GivesUp(a) \/ Apply(a)
  <2>1. Goes(a, "idle", None, {}) /\ actor[a].at \in {"fetch", "apply"}
    BY <1>6 DEF GivesUp, Apply, Goes, At
  <2>2. /\ changes' \in Nat /\ pushes' \in Nat /\ staging' = staging
        /\ clip'.image \in Image \cup {None}
    BY <1>6, <1>t DEF GivesUp, Apply, Only
  <2>3. "idle" \in Place /\ "idle" \notin ImagePlace
    BY DEF Place, ImagePlace
  <2> QED BY <1>t, <2>1, <2>2, <2>3, CalmMove
<1>7. CASE Staging(a)
  BY <1>7, <1>t, StagingSettles
<1> QED
  BY <1>2, <1>3, <1>4, <1>5, <1>6, <1>7 DEF Handler

LEMMA NextSettles == SInv /\ [Next]_vars => SInv'
<1> SUFFICES ASSUME SInv, [Next]_vars PROVE SInv'
  OBVIOUS
<1>t. changes \in Nat /\ pushes \in Nat /\ clip.image \in Image \cup {None}
  BY DEF SInv, Shape, Stocked
<1>1. ASSUME NEW c \in Copyable, Copy(c) PROVE SInv'
  <2>1. c.image \in Image \cup {None}
    BY ClipboardAssumption
  <2> QED BY <1>1, <1>t, <2>1, CalmStay DEF Copy
<1>2. CASE Sentinel
  <2>1. CASE Staging("sentinel")
    BY <2>1, StagingSettles DEF Actor
  <2> QED BY <1>2, <2>1, RoundSettles
<1>3. ASSUME NEW a \in Thread, Handler(a) PROVE SInv'
  BY <1>3, HandlerSettles
<1>4. ASSUME NEW a \in Command, SyncImage(a) PROVE SInv'
  <2>1. Goes(a, "write", ImageOf(clip), {}) /\ a \in Actor /\ ImageOf(clip) \in Image
    BY <1>4, <1>t DEF SyncImage, Goes, Actor, ImageOf
  <2>2. "write" \in Place
    BY DEF Place
  <2> QED BY <1>4, <1>t, <2>1, <2>2, CalmMove DEF SyncImage, At
<1>5. ASSUME NEW a \in Command, Staging(a) PROVE SInv'
  BY <1>5, StagingSettles DEF Actor
<1>6. CASE UNCHANGED vars
  BY <1>6, <1>t, CalmStay DEF vars
<1> QED
  BY <1>1, <1>2, <1>3, <1>4, <1>5, <1>6 DEF Next

\* Whenever nobody is at work in the staging directory, its images are within
\* both limits, for any images, limits, threads and commands that stage and
\* clean up at once without a lock (main.rs:1265-1279, 1398-1465).
THEOREM StagingIsBounded == Spec => []StagingBounded
<1>1. SInv => StagingBounded
  <2> SUFFICES ASSUME SInv, \A a \in Actor : actor[a].at \notin {"clean", "sweep"}
               PROVE  Within(Images(staging))
    BY DEF StagingBounded, Within
  <2>1. Staying = Images(staging)
    BY DEF Staying, At
  <2> QED BY <2>1 DEF SInv, Settled, At
<1> QED
  BY InitStaging, NextSettles, <1>1, PTL DEF Spec
=============================================================================
