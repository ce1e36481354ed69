------------------------------ MODULE MCParser ------------------------------
(* A file of a few syntax nodes, every tree the grammar allows; or a file  *)
(* two directories deep, whose import can climb out of either one, and out *)
(* of the repository.                                                      *)
EXTENDS Parser, TLC

CONSTANTS src, lib

NameSymmetry == Permutations(Name)

MCDir == <<src, lib>>
=============================================================================
