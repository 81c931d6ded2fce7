---------------------------- MODULE MCClipboard ----------------------------
(***************************************************************************)
(* An instance of Clipboard for TLC: a text, the same with white space     *)
(* around it, a password and three images, one of them too large to be     *)
(* sent inline and one not a PNG; there is room for two images.            *)
(***************************************************************************)
EXTENDS Clipboard

CONSTANTS word, padded, password, small, medium, large

MCTrim == [t \in Text |-> IF t = padded THEN word ELSE t]
MCSize == [i \in Image |-> CASE i = small -> 1 [] i = medium -> 2 [] i = large -> 3]

\* What the user copies offers one format.
MCCopyable == {Only(v) : v \in {padded, small}} \cup {Empty}
=============================================================================
