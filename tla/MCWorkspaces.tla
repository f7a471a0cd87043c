---------------------------- MODULE MCWorkspaces ----------------------------
(***************************************************************************)
(* Instances of WorkspacesProperties for TLC.                              *)
(***************************************************************************)
EXTENDS WorkspacesProperties, TLC

CONSTANTS w1, s1, s2, d1, d2

AnyOptions == [force : BOOLEAN, delete_branch : BOOLEAN]

\* Slots are alike.
Interchangeable == Permutations(Sessions) \cup Permutations(Deletes)
=============================================================================
