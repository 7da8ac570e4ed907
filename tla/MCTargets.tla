------------------------------- MODULE MCTargets -------------------------------
(***************************************************************************)
(* Targets for TLC: two components in one repository, one of which is      *)
(* built from a third in another.                                          *)
(***************************************************************************)
EXTENDS Targets

MCRepoOf == [c \in Components |-> IF c = "c" THEN "s" ELSE "r"]
MCDeps == [c \in Components |-> IF c = "a" THEN {"c"} ELSE {}]
================================================================================
