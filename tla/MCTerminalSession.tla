--------------------------- MODULE MCTerminalSession ---------------------------
(***************************************************************************)
(* TerminalSession for TLC: a cycle with a headless phase before and after *)
(* the interactive one.                                                    *)
(***************************************************************************)
EXTENDS TerminalSession

MCCycle == <<"triage", "work", "analyse-work">>
================================================================================
