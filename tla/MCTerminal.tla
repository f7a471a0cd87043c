----------------------------- MODULE MCTerminal -----------------------------
(***************************************************************************)
(* Instances of TerminalProperties for TLC.                                *)
(***************************************************************************)
EXTENDS TerminalProperties

CONSTANTS c1, c2
=============================================================================
