----------------------------- MODULE TraceDocument -----------------------------
(***************************************************************************)
(* The trace file in JSON format, as a reader of it sees it: which objects *)
(* and arrays are open and whether the last thing was a bracket, a value   *)
(* or a comma.  Keys, values and layout are left out.                      *)
(***************************************************************************)
EXTENDS SequencesExt

\* stack: the open brackets; "file" and "query" are objects, "queries" and
\* "events" arrays.  stray: "queries" began with a comma.  full: the size limit of the
\* file is reached.
Document ==
    [stack : Seq({"file", "queries", "query", "events"}),
     last  : {"open", "value", "comma"},
     ok    : BOOLEAN,
     stray : BOOLEAN,
     full  : BOOLEAN]

NoDocument ==
    [stack |-> <<>>, last |-> "open", ok |-> TRUE, stray |-> FALSE, full |-> FALSE]

Inner(d) == IF d.stack = <<>> THEN "none" ELSE Last(d.stack)

Open(d, bracket)  == [d EXCEPT !.stack = Append(@, bracket), !.last = "open"]
Close(d)          == [d EXCEPT !.stack = Front(@), !.last = "value"]
Value(d)          == [d EXCEPT !.last = "value"]

\* The document after one more token.  "member" is a whole member of a query's object,
\* "event" a whole element of executionEvents, "[" the key executionEvents
\* with its bracket, "file" the head of the file up to the bracket of queries.  A
\* document that is out of order stays so.
Read(d, token) ==
    LET inside(S) == Inner(d) \in S
        item      == d.last # "value"
        end       == d.last # "comma"
    IN  IF ~d.ok THEN d ELSE
        CASE token = "file" /\ d = NoDocument       -> Open(Open(d, "file"), "queries")
          [] token = "{" /\ inside({"queries", "events"}) /\ item -> Open(d, "query")
          [] token = "[" /\ inside({"query"}) /\ item             -> Open(d, "events")
          [] token = "member" /\ inside({"query"}) /\ item        -> Value(d)
          [] token = "event" /\ inside({"events"}) /\ item        -> Value(d)
          [] token = "," /\ d.stack # <<>> /\ ~item     -> [d EXCEPT !.last = "comma"]
          [] token = "," /\ inside({"queries"}) /\ d.last = "open"
                                          -> [d EXCEPT !.last = "comma", !.stray = TRUE]
          [] token = "]" /\ inside({"queries", "events"}) /\ end  -> Close(d)
          [] token = "}" /\ inside({"file", "query"}) /\ end      -> Close(d)
          [] OTHER                                          -> [d EXCEPT !.ok = FALSE]

Write(d, tokens) == FoldLeft(Read, d, tokens)

\* TracePrintf looks at the size before each piece and prints nothing beyond the limit,
\* so the document may end after any of them.
CutAt(d, tokens, k) == [Write(d, SubSeq(tokens, 1, k)) EXCEPT !.full = TRUE]
Printed(d, tokens, limited) ==
    IF d.full THEN {d}
    ELSE {Write(d, tokens)}
            \cup {CutAt(d, tokens, k) : k \in IF limited THEN 1 .. Len(tokens) ELSE {}}

\* Every bracket is closed and nothing was out of place.
Complete(d) == d.ok /\ d.stack = <<>> /\ d.last = "value"
=============================================================================
