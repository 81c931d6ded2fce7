----------------------------- MODULE Clipboard -----------------------------
(***************************************************************************)
(* The clipboard of one device: what its users, its peers and its portal   *)
(* put there, and what its sentinel pushes to the confirmed peers.         *)
(*                                                                         *)
(* LAST_SYNCED_CLIPBOARD_HASH is what the sentinel compares the clipboard  *)
(* with; whoever writes the clipboard for a peer sets it first.  The       *)
(* clipboard and the hash are two things, read and written by the sentinel *)
(* and by the threads of the HTTP server without a lock that covers both.  *)
(* A hash is modelled by what it is the hash of.  Requests that are        *)
(* refused before the hash is set change nothing and are left out, and so  *)
(* are restarts of the daemon and temporary files in the staging directory.*)
(***************************************************************************)
EXTENDS ClipStaging, Integers

CONSTANTS
  Text,
  Trim,        \* Trim[t]: t without the white space around it
  Secret,      \* texts the sensitive clipboard shield refuses
  Png,         \* images that are PNG
  Large,       \* images above INLINE_IMAGE_CLIP_MAX_SIZE
  None,
  Copyable,    \* what the user copies
  Inbound,     \* what peers push
  Posted,      \* what the portal posts
  Thread,      \* threads of the HTTP server
  Command,     \* --sync-clipboard commands
  MaxChanges   \* bound on copies and inbound clips

ASSUME ClipboardAssumption ==
  /\ None \notin Text \cup Image
  /\ Text \cap Image = {}
  /\ Trim \in [Text -> Text]
  /\ Secret \subseteq Text /\ Png \subseteq Image /\ Large \subseteq Image
  /\ Copyable \subseteq [image : Image \cup {None}, text : Text \cup {None}]
  /\ Inbound \subseteq Text \cup Image /\ Posted \subseteq Text
  /\ "sentinel" \notin Thread \cup Command
  /\ Thread \cap Command = {}
  /\ MaxChanges \in Nat

VARIABLES
  clip,     \* the desktop's clipboard
  last,     \* LAST_SYNCED_CLIPBOARD_HASH
  actor,    \* the sentinel, the threads and the commands
  staging,  \* the staging directory
  changes,  \* history: copies, and settings of the hash or of the clipboard
            \* for a peer
  pushes    \* history: pushes of the sentinel

vars == <<clip, last, actor, staging, changes, pushes>>

Actor == {"sentinel"} \cup Thread \cup Command
Clip == [image : Image \cup {None}, text : Text \cup {None}]

Empty == [image |-> None, text |-> None]

\* wl-copy offers one type.
Only(v) == IF v \in Image THEN [image |-> v, text |-> None] ELSE [image |-> None, text |-> v]

\* What get_pc_clipboard returns of a clipboard; None when there is no text.
TextOf(c) == IF c.text = None THEN None ELSE Trim[c.text]

\* What get_pc_image_clipboard returns of it: it asks for image/png only.
ImageOf(c) == IF c.image \in Png THEN c.image ELSE None

\* An actor at a place, with what it has read or received.
In(place, v) == [at |-> place, value |-> v, surplus |-> {}]

Idle == In("idle", None)

TypeOK ==
  /\ clip \in Clip
  /\ last \in Text \cup Image \cup {None}
  /\ actor \in [Actor -> [at : {"start", "began", "idle", "image", "newimage",
                                "text", "compare", "newtext", "push", "thumb",
                                "begin", "apply", "fetch", "write", "clean",
                                "sweep"},
                          value : Text \cup Image \cup {None},
                          surplus : SUBSET File]]
  /\ staging \in Seq(File)
  /\ changes \in Nat /\ pushes \in Nat

Init ==
  /\ clip \in Copyable \cup {Empty}
  /\ last = None
  /\ actor = [a \in Actor |-> IF a = "sentinel" THEN In("start", None) ELSE Idle]
  /\ staging = <<>>
  /\ changes = 0 /\ pushes = 0

Moves(a, place) == actor' = [actor EXCEPT ![a].at = place]
Holds(a, place, v) == actor' = [actor EXCEPT ![a] = In(place, v)]
At(a, place) == actor[a].at = place

\* What the sentinel takes a clipboard for, unless it offers a PNG and a text.
Value(c) == IF ImageOf(c) # None THEN ImageOf(c) ELSE TextOf(c)

----------------------------------------------------------------------------
(* The user, and who sends to this device.                                 *)

Copy(c) ==
  /\ changes < MaxChanges
  /\ clip' = c
  /\ changes' = changes + 1
  /\ UNCHANGED <<last, actor, staging, pushes>>

\* A thread sets the hash of what it has received, and goes on.
Receive(a, v, place) ==
  /\ At(a, "idle")
  /\ changes < MaxChanges
  /\ last' = v
  /\ changes' = changes + 1
  /\ IF place = "idle" THEN UNCHANGED actor ELSE Holds(a, place, v)
  /\ UNCHANGED <<clip, staging, pushes>>

\* A text of a confirmed peer; the shield may refuse it.
ReceiveText(a, t) == Receive(a, t, IF t \in Secret THEN "idle" ELSE "apply")

\* POST /api/clipboard and /api/clipboard-encrypted have no shield.
ReceivePosted(a, t) == Receive(a, t, "apply")

\* An image, inline or by its hash.
ReceiveImage(a, i) == Receive(a, i, IF i \in Large THEN "fetch" ELSE "write")

\* The image was fetched from its sender and its hash verified.
Fetched(a) ==
  /\ At(a, "fetch")
  /\ Moves(a, "write")
  /\ UNCHANGED <<clip, last, staging, changes, pushes>>

\* It was not; or wl-copy and xclip fail.
GivesUp(a) ==
  /\ actor[a].at \in {"fetch", "apply"}
  /\ actor' = [actor EXCEPT ![a] = Idle]
  /\ UNCHANGED <<clip, last, staging, changes, pushes>>

\* set_pc_clipboard, set_pc_image_clipboard
Apply(a) ==
  /\ At(a, "apply")
  /\ clip' = Only(actor[a].value)
  /\ changes' = changes + 1
  /\ actor' = [actor EXCEPT ![a] = Idle]
  /\ UNCHANGED <<last, staging, pushes>>

\* --sync-clipboard with an image stages it.
SyncImage(a) ==
  /\ At(a, "idle")
  /\ ImageOf(clip) # None
  /\ Holds(a, "write", ImageOf(clip))
  /\ UNCHANGED <<clip, last, staging, changes, pushes>>

----------------------------------------------------------------------------
(* stage_clipboard_image, by any actor.                                    *)

\* Where an actor that has staged its image goes on.
Onward(a) == IF a \in Thread THEN "apply" ELSE "thumb"

Stage(a) ==
  /\ At(a, "write")
  /\ staging' = WrittenTo(staging, ImageFile(actor[a].value))
  /\ Moves(a, "clean")
  /\ UNCHANGED <<clip, last, changes, pushes>>

\* The image cannot be written: there is no cleanup either.
StageFails(a) ==
  /\ At(a, "write")
  /\ Moves(a, Onward(a))
  /\ UNCHANGED <<clip, last, staging, changes, pushes>>

\* cleanup_clip_staging reads the directory and decides ...
ListStaging(a) ==
  /\ At(a, "clean")
  /\ actor' = [actor EXCEPT ![a] = [at |-> "sweep", value |-> actor[a].value,
                                     surplus |-> Surplus(staging)]]
  /\ UNCHANGED <<clip, last, staging, changes, pushes>>

\* ... and removes one file after the other, whatever became of it meanwhile.
Sweep(a) ==
  /\ At(a, "sweep")
  /\ \E f \in actor[a].surplus :
       /\ staging' = RemovedFrom(staging, f)
       /\ actor' = [actor EXCEPT ![a].surplus = @ \ {f}]
  /\ UNCHANGED <<clip, last, changes, pushes>>

Swept(a) ==
  /\ At(a, "sweep")
  /\ actor[a].surplus = {}
  /\ Moves(a, Onward(a))
  /\ UNCHANGED <<clip, last, staging, changes, pushes>>

----------------------------------------------------------------------------
(* A push, by the sentinel or by a --sync-clipboard command.               *)

\* A thumbnail is made of an image that is staged, unless there is one.
Thumbnail(a) ==
  /\ At(a, "thumb")
  /\ Contains(staging, ImageFile(actor[a].value))
  /\ ~Contains(staging, ThumbFile(actor[a].value))
  /\ staging' = WrittenTo(staging, ThumbFile(actor[a].value))
  /\ Moves(a, "push")
  /\ UNCHANGED <<clip, last, changes, pushes>>

\* There is one, the image is not there, or no tool makes one in time.
NoThumbnail(a) ==
  /\ At(a, "thumb")
  /\ Moves(a, "push")
  /\ UNCHANGED <<clip, last, staging, changes, pushes>>

Push(a) ==
  /\ At(a, "push")
  /\ pushes' = IF a = "sentinel" THEN pushes + 1 ELSE pushes
  /\ actor' = [actor EXCEPT ![a] = Idle]
  /\ UNCHANGED <<clip, last, staging, changes>>

----------------------------------------------------------------------------
(* The sentinel.  A reading of the clipboard may fail at any time: the     *)
(* tools that read it have a deadline.                                     *)

ReadsImage(from, to) ==
  /\ At("sentinel", from)
  /\ ImageOf(clip) # None
  /\ Holds("sentinel", to, ImageOf(clip))
  /\ UNCHANGED <<clip, last, staging, changes, pushes>>

ReadsText(from, to) ==
  /\ At("sentinel", from)
  /\ TextOf(clip) # None
  /\ Holds("sentinel", to, TextOf(clip))
  /\ UNCHANGED <<clip, last, staging, changes, pushes>>

ReadsNothing(from, to) ==
  /\ At("sentinel", from)
  /\ Holds("sentinel", to, None)
  /\ UNCHANGED <<clip, last, staging, changes, pushes>>

\* What is there at the start is not pushed: a text, or else an image.
Begin ==
  \/ ReadsText("start", "began")
  \/ ReadsNothing("start", "begin")
  \/ ReadsImage("begin", "began")
  \/ ReadsNothing("begin", "idle")

\* Each round reads the image and, when there is none or no new one, the text.
ReadImage == ReadsImage("idle", "image")

\* Mutant of NoImage: without an image there is no text either.
NoImageNoText == ReadsNothing("idle", "idle")

NoImage == ReadsNothing("idle", "text")
ReadText == ReadsText("text", "compare")
NoText == ReadsNothing("text", "idle")

\* The hash is read ...
Compare(from, old, new) ==
  /\ At("sentinel", from)
  /\ Moves("sentinel", IF actor["sentinel"].value = last THEN old ELSE new)
  /\ UNCHANGED <<clip, last, staging, changes, pushes>>

CompareImage == Compare("image", "text", "newimage")
CompareText == Compare("compare", "idle", "newtext")

\* Mutant of Mark: the hash of what is pushed is not set.
MarkForgotten(from, to) ==
  /\ At("sentinel", from)
  /\ Moves("sentinel", to)
  /\ UNCHANGED <<clip, last, staging, changes, pushes>>

\* ... and set in a step of its own.
Mark(from, to) ==
  /\ At("sentinel", from)
  /\ last' = actor["sentinel"].value
  /\ Moves("sentinel", to)
  /\ UNCHANGED <<clip, staging, changes, pushes>>

MarkInitial == Mark("began", "idle")
MarkImage == Mark("newimage", "write")

\* The shield keeps a secret from the peers.
MarkText == Mark("newtext", IF actor["sentinel"].value \in Secret THEN "idle" ELSE "push")

----------------------------------------------------------------------------

Staging(a) ==
  \/ Stage(a) \/ StageFails(a)
  \/ ListStaging(a) \/ Sweep(a) \/ Swept(a)
  \/ Thumbnail(a) \/ NoThumbnail(a)
  \/ Push(a)

Sentinel ==
  \/ Begin
  \/ ReadImage \/ NoImage \/ ReadText \/ NoText
  \/ CompareImage \/ CompareText
  \/ MarkInitial \/ MarkImage \/ MarkText
  \/ Staging("sentinel")

Handler(a) ==
  \/ \E t \in Inbound \cap Text : ReceiveText(a, t)
  \/ \E i \in Inbound \cap Image : ReceiveImage(a, i)
  \/ \E t \in Posted : ReceivePosted(a, t)
  \/ Fetched(a) \/ GivesUp(a) \/ Apply(a)
  \/ Staging(a)

Next ==
  \/ \E c \in Copyable : Copy(c)
  \/ Sentinel
  \/ \E a \in Thread : Handler(a)
  \/ \E a \in Command : SyncImage(a) \/ Staging(a)

\* The sentinel is a thread that never ends; of the readings it repeats,
\* some succeed.
Fairness ==
  /\ WF_vars(Sentinel)
  /\ SF_vars(ReadImage)
  /\ SF_vars(ReadText)

Spec == Init /\ [][Next]_vars /\ Fairness

----------------------------------------------------------------------------
(* Properties                                                              *)

\* The sentinel pushes what it has a reason to: the clipboard at hand when
\* it started, and once for each time the user, a peer or the portal
\* changed the clipboard or the hash.  However readings, comparisons and
\* settings of the hash interleave, it never pushes the same clip again and
\* again (main.rs:1714-1781).  This is said of clipboards that do not offer
\* a PNG and a text at once: those two replace each other's hash for ever.
PushBudget == pushes <= changes + 1

\* Whenever nobody is at work in the staging directory, its images are
\* within both limits, though several threads and processes stage and clean
\* up at once without a lock (main.rs:1265-1279, 1398-1465).
StagingBounded ==
  (\A a \in Actor : actor[a].at \notin {"clean", "sweep"}) =>
    /\ Cardinality(Images(staging)) <= MaxClipStagingFiles
    /\ Bytes(Images(staging)) <= MaxClipStagingBytes

\* When the clips stop coming, a PNG or a text on the clipboard is noticed by
\* the sentinel: it is what the next clip is compared with, though any reading
\* may fail and inbound clips set the hash in between (main.rs:1725-1768).
\* MaxChanges makes them stop.
Noticed == []<>(Value(clip) \in {None, last})
=============================================================================
