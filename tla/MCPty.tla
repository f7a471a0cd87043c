------------------------------- MODULE MCPty -------------------------------
(***************************************************************************)
(* Instances of PtyProperties for TLC.                                     *)
(***************************************************************************)
EXTENDS PtyProperties, TLC

CONSTANTS p1, p2, d1, d2, s1, s2, claude, codex

\* Sessions, requests and agents are interchangeable; used by runs without
\* liveness properties only.
MCSymmetry ==
    Permutations(Ptys) \cup Permutations(Deleters) \cup Permutations(Starters)
        \cup Permutations(Agents)
=============================================================================
