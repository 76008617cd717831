------------------------------- MODULE ConfigMap -------------------------------
(***************************************************************************)
(* What the config file of shared probes promises: it is a map from        *)
(* functions to types of probes which set_uprobe and delete_uprobe change  *)
(* one entry at a time.  The promise ends with the first trouble, two      *)
(* changes at once or a write that fails or is cut off.  Then entries may  *)
(* be lost or come back, but none appears that nobody asked for.           *)
(***************************************************************************)
CONSTANTS Symbols, Types, NoEntry

VARIABLES entries, asked, trouble

Init ==
    /\ entries = [f \in Symbols |-> NoEntry]
    /\ asked = {}
    /\ trouble = FALSE

Set(f, t) ==
    /\ entries' = [entries EXCEPT ![f] = t]
    /\ asked' = asked \cup {<<f, t>>}
    /\ UNCHANGED trouble

Delete(f) ==
    /\ entries' = [entries EXCEPT ![f] = NoEntry]
    /\ UNCHANGED <<asked, trouble>>

Disturb ==
    /\ trouble'
    /\ asked \subseteq asked'
    /\ entries' \in [Symbols -> Types \cup {NoEntry}]
    /\ \A f \in Symbols : entries'[f] = NoEntry \/ <<f, entries'[f]>> \in asked'

Next ==
    \/ \E f \in Symbols, t \in Types : Set(f, t)
    \/ \E f \in Symbols : Delete(f)
    \/ Disturb

Spec == Init /\ [][Next]_<<entries, asked, trouble>>
=============================================================================
