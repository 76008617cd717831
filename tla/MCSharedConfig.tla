---------------------------- MODULE MCSharedConfig ----------------------------
(***************************************************************************)
(* Two sessions that change the config and, when one is idle, a reader;    *)
(* two functions, so that a rewrite can lose an entry it is not about.     *)
(***************************************************************************)
EXTENDS SharedConfig

=============================================================================
