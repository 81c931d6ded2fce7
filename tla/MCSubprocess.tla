---------------------------- MODULE MCSubprocess ----------------------------
(***************************************************************************)
(* An instance of Subprocess for TLC: a command with two helpers that      *)
(* writes more than the limit, or is fed more than the pipe holds.         *)
(***************************************************************************)
EXTENDS Subprocess

CONSTANTS h1, h2
=============================================================================
