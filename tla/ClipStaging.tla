---------------------------- MODULE ClipStaging ----------------------------
(***************************************************************************)
(* The staging directory of clipboard images (clip_staging/).              *)
(*                                                                         *)
(* An image is staged under its hash, so that a peer can fetch it, and may *)
(* have a thumbnail.  The directory is a sequence of files, the one        *)
(* modified last first.                                                    *)
(***************************************************************************)
EXTENDS Naturals, Sequences, FiniteSets, SequencesExt

CONSTANTS
  Image,
  Size,                \* Size[i]: length of image i
  ThumbSize,           \* length of a thumbnail
  MaxClipStagingFiles, \* 20
  MaxClipStagingBytes  \* 50 MiB

ASSUME ClipStagingAssumption ==
  /\ Size \in [Image -> Nat]
  /\ ThumbSize \in Nat
  /\ MaxClipStagingFiles \in Nat
  /\ MaxClipStagingBytes \in Nat

File == [image : Image, thumb : BOOLEAN]

ImageFile(i) == [image |-> i, thumb |-> FALSE]
ThumbFile(i) == [image |-> i, thumb |-> TRUE]

Length(f) == IF f.thumb THEN ThumbSize ELSE Size[f.image]

\* The files that are left without those in gone, in their order.  A fold,
\* because the provers have no definition of SelectSeq.
Without(dir, gone) ==
  FoldLeft(LAMBDA left, f : IF f \in gone THEN left ELSE Append(left, f), <<>>, dir)

\* A file is written: write_secure_bytes replaces one of the same name.
WrittenTo(dir, f) == <<f>> \o Without(dir, {f})

\* A file is removed; an image takes its thumbnail with it.
RemovedFrom(dir, f) == Without(dir, IF f.thumb THEN {f} ELSE {f, ThumbFile(f.image)})

\* Mutant of Room: the length of the file itself is not counted.
RoomBefore(acc, f) ==
  /\ Cardinality(acc.kept) < MaxClipStagingFiles
  /\ acc.bytes <= MaxClipStagingBytes

\* There is room for f besides the files that are kept.
Room(acc, f) ==
  /\ Cardinality(acc.kept) < MaxClipStagingFiles
  /\ acc.bytes + Length(f) <= MaxClipStagingBytes

\* From the newest to the oldest, what fits is kept; a thumbnail only after
\* its image.
Visit(acc, f) ==
  IF Room(acc, f) /\ (f.thumb => ImageFile(f.image) \in acc.kept)
  THEN [kept |-> acc.kept \cup {f}, bytes |-> acc.bytes + Length(f)]
  ELSE acc

Kept(dir) == FoldLeft(Visit, [kept |-> {}, bytes |-> 0], dir).kept

\* The files cleanup_clip_staging decides to remove.
Surplus(dir) == ToSet(dir) \ Kept(dir)

Images(dir) == {f \in ToSet(dir) : ~f.thumb}

Bytes(files) == MapThenSumSet(Length, files)
=============================================================================
