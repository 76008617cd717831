---------------------------- MODULE MCSessionTrace ----------------------------
(***************************************************************************)
(* Sessions combine what may matter together; all of it at once would be   *)
(* too much.  Two queries: one inside the other, or the two a session      *)
(* executes in turn.  Four frames: a query, a node or expression of it, a  *)
(* query called there, and a node of that.                                 *)
(***************************************************************************)
EXTENDS SessionTrace

QuerySymmetry == Permutations(Queries)

MCSessions == { {"restart", "signal", "error", "fetch"},
                {"restart", "badstart", "error", "fetch"},
                {"restart", "exit", "error", "finish"},
                {"restart", "waits", "error"},
                {"limit", "error"},
                {"plan", "error", "fetch", "finish", "rewind"} }
=============================================================================
