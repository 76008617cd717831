--------------------------- MODULE MCMessageBuffer ---------------------------
(***************************************************************************)
(* Two backends and the collector around a buffer of eight bytes.          *)
(*                                                                         *)
(* A one-byte symbol and messages of one and two bytes make every case of  *)
(* the size arithmetic happen: an array that fits, one that is cut in the  *)
(* middle, a buffer whose free space is below, at and above the head-room. *)
(***************************************************************************)
EXTENDS MessageBuffer, TLC

CONSTANTS b1, b2

MCArrays ==
    { << [size |-> 1, at |-> 0] >>,
      << [size |-> 2, at |-> 0], [size |-> 2, at |-> 2] >> }
\* The backends are interchangeable.
Backends == Permutations(Producers)
=============================================================================
