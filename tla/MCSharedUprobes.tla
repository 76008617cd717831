--------------------------- MODULE MCSharedUprobes ---------------------------
(***************************************************************************)
(* Two sessions, one of which sets and deletes probes, and one or two      *)
(* functions to trace.                                                     *)
(***************************************************************************)
EXTENDS SharedUprobes, TLC

\* The functions are interchangeable.
SymbolSymmetry == Permutations(Symbols)
=============================================================================
