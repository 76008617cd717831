------------------------------ MODULE SharedConfig ------------------------------
(***************************************************************************)
(* The config file of shared probes (uprobe_shared_config.c).  It is read  *)
(* by every session when it connects; set_uprobe and delete_uprobe read    *)
(* it, change one entry and write it anew: fopen truncates the file, the   *)
(* content is there after fclose.  Nothing keeps two sessions apart.       *)
(*                                                                         *)
(* The config is small enough for one buffer of stdio, so that a reader    *)
(* sees a whole content or none.                                           *)
(***************************************************************************)
EXTENDS Naturals, FiniteSets

CONSTANTS
    Sessions, Symbols, Types,
    NoEntry,        \* no probe
    Blank,          \* the file is missing or empty
    MaxOps          \* bound: calls of set_uprobe and delete_uprobe

ASSUME SharedConfigAssumption ==
    /\ NoEntry \notin Types
    /\ Blank \notin [Symbols -> Types \cup {NoEntry}]
    /\ MaxOps \in Nat

Configs == [Symbols -> Types \cup {NoEntry}]
Empty   == [f \in Symbols |-> NoEntry]

VARIABLES
    file,           \* a config, or Blank
    probes,         \* the shared ones of pguprobeList, by session
    pc,             \* where a session is, see below
    op,             \* what it is at: the symbol, and the type or NoEntry for a delete
    config,         \* what it will write
    entries,        \* history: what the last fopen for writing meant the config to be
    asked,          \* history: the entries ever written
    trouble,        \* history: two changes at once, or a write that failed
    ops

session == <<probes, pc, op, config>>
history == <<entries, asked, trouble>>
vars == <<file, session, history, ops>>

\* "away": not connected; "idle"; "opening": the config was read and changed;
\* "writing": between fopen and fclose; "adding": set_uprobe enters the probe in its
\* list; "undoing": that failed.
States == {"away", "idle", "opening", "writing", "adding", "undoing"}

TypeOK ==
    /\ file \in Configs \cup {Blank}
    /\ probes \in [Sessions -> Configs]
    /\ pc \in [Sessions -> States]
    /\ op \in [Sessions -> [symbol : Symbols, type : Types \cup {NoEntry}]]
    /\ config \in [Sessions -> Configs]
    /\ entries \in Configs
    /\ asked \subseteq Symbols \X Types
    /\ trouble \in BOOLEAN
    /\ ops \in 0 .. MaxOps

Init ==
    /\ file = Blank
    /\ probes = [s \in Sessions |-> Empty]
    /\ pc = [s \in Sessions |-> "away"]
    /\ op \in [Sessions -> [symbol : Symbols, type : {NoEntry}]]
    /\ \A s, r \in Sessions : op[s] = op[r]
    /\ config = [s \in Sessions |-> Empty]
    /\ entries = Empty
    /\ asked = {}
    /\ trouble = FALSE
    /\ ops = 0

\* Mutant: a missing file is not looked for.
ContentUnchecked == file

\* What is read: nothing of a missing or empty file.
Content == IF file = Blank THEN Empty ELSE file
Writing(s) == pc[s] \in {"opening", "writing"}
AtOnce(s)  == \E r \in Sessions \ {s} : Writing(r)
Goto(s, where) == pc' = [pc EXCEPT ![s] = where]

-----------------------------------------------------------------------------
\* Mutant: the config is not read but begun anew.
ReadAndChangeAfresh(s, request, read) ==
    /\ op' = [op EXCEPT ![s] = request]
    /\ config' = [config EXCEPT ![s] = [Empty EXCEPT ![request.symbol] = request.type]]
    /\ trouble' = (trouble \/ AtOnce(s))
    /\ Goto(s, "opening")

\* Reading and changing the config in memory.
ReadAndChange(s, request, read) ==
    /\ op' = [op EXCEPT ![s] = request]
    /\ config' = [config EXCEPT ![s] = [read EXCEPT ![request.symbol] = request.type]]
    /\ trouble' = (trouble \/ AtOnce(s))
    /\ Goto(s, "opening")

\* PGUprobeSaveInSharedConfig; a later pair replaces an earlier one of the same key.
\* Any error on reading is taken for a missing file.
PGUprobeSaveInSharedConfig(s, f, t) ==
    ReadAndChange(s, [symbol |-> f, type |-> t], Content)

SaveCannotRead(s, f, t) ==
    /\ op' = [op EXCEPT ![s] = [symbol |-> f, type |-> t]]
    /\ config' = [config EXCEPT ![s] = [Empty EXCEPT ![f] = t]]
    /\ trouble' = TRUE
    /\ Goto(s, "opening")

\* Mutant: the key is skipped, and its value goes to the keys that are left.
DeleteSkipsKey(s, f) ==
    IF file = Blank
    THEN /\ Goto(s, "idle")
         /\ trouble' = (trouble \/ AtOnce(s))
         /\ UNCHANGED <<op, config>>
    ELSE ReadAndChange(s, [symbol |-> f, type |-> NoEntry],
                       [g \in Symbols |-> IF Content[g] = NoEntry THEN NoEntry
                                                                 ELSE Content[f]])

\* PGUprobeDeleteFromSharedConfig: nothing is written if there is nothing to read.
PGUprobeDeleteFromSharedConfig(s, f) ==
    IF file = Blank
    THEN /\ Goto(s, "idle")
         /\ trouble' = (trouble \/ AtOnce(s))
         /\ UNCHANGED <<op, config>>
    ELSE ReadAndChange(s, [symbol |-> f, type |-> NoEntry], Content)

\* WriteJsonbToConfigFile, first half: fopen truncates the file.  If it fails,
\* set_uprobe deletes its probe; delete_uprobe has deleted it already.
OpenForWriting(s) ==
    /\ pc[s] = "opening"
    /\ file' = Blank
    /\ entries' = config[s]
    /\ asked' = IF op[s].type = NoEntry THEN asked
                ELSE asked \cup {<<op[s].symbol, op[s].type>>}
    /\ Goto(s, "writing")
    /\ UNCHANGED <<probes, op, config, trouble, ops>>

CannotOpen(s) ==
    /\ pc[s] = "opening"
    /\ Goto(s, "idle")
    /\ UNCHANGED <<file, probes, op, config, history, ops>>

\* WriteJsonbToConfigFile, second half.
AfterWriting(s) == IF op[s].type = NoEntry THEN "idle" ELSE "adding"

\* Mutant: without fclose what was written stays in the buffer.
CloseNothing(s) ==
    /\ pc[s] = "writing"
    /\ Goto(s, AfterWriting(s))
    /\ UNCHANGED <<file, probes, op, config, history, ops>>

CloseWritten(s) ==
    /\ pc[s] = "writing"
    /\ file' = config[s]
    /\ Goto(s, AfterWriting(s))
    /\ UNCHANGED <<probes, op, config, history, ops>>

\* The disk is full: fwrite tells, and an error is raised, or fclose does, and
\* nobody looks.  The file stays empty.
CannotWrite(s) ==
    /\ pc[s] = "writing"
    /\ Goto(s, "idle") \/ Goto(s, AfterWriting(s))
    /\ entries' = Content
    /\ trouble' = TRUE
    /\ UNCHANGED <<file, probes, op, config, asked, ops>>

-----------------------------------------------------------------------------
\* The callers.

\* SetUprobeDuringAuntification: what PGUprobeLoadFromSharedConfig reads is set.
Connect(s) ==
    /\ pc[s] = "away"
    /\ probes' = [probes EXCEPT ![s] = Content]
    /\ Goto(s, "idle")
    /\ UNCHANGED <<file, op, config, history, ops>>

Disconnect(s) ==
    /\ pc[s] = "idle"
    /\ probes' = [probes EXCEPT ![s] = Empty]
    /\ Goto(s, "away")
    /\ UNCHANGED <<file, op, config, history, ops>>

Called == ops < MaxOps /\ ops' = ops + 1

set_uprobe(s, f, t) ==
    /\ pc[s] = "idle"
    /\ probes[s][f] = NoEntry
    /\ Called
    /\ PGUprobeSaveInSharedConfig(s, f, t) \/ SaveCannotRead(s, f, t)
    /\ UNCHANGED <<file, probes, entries, asked>>

delete_uprobe(s, f) ==
    /\ pc[s] = "idle"
    /\ probes[s][f] # NoEntry
    /\ Called
    /\ probes' = [probes EXCEPT ![s][f] = NoEntry]
    /\ PGUprobeDeleteFromSharedConfig(s, f)
    /\ UNCHANGED <<file, entries, asked>>

AddToList(s) ==
    /\ pc[s] = "adding"
    /\ probes' = [probes EXCEPT ![s][op[s].symbol] = op[s].type]
    /\ Goto(s, "idle")
    /\ UNCHANGED <<file, op, config, history, ops>>

\* Out of memory: PG_CATCH of set_uprobe deletes the probe and the entry.
CannotAdd(s) ==
    /\ pc[s] = "adding"
    /\ Goto(s, "undoing")
    /\ UNCHANGED <<file, probes, op, config, history, ops>>

Undo(s) ==
    /\ pc[s] = "undoing"
    /\ PGUprobeDeleteFromSharedConfig(s, op[s].symbol)
    /\ UNCHANGED <<file, probes, entries, asked, ops>>

\* A backend crashes: the server ends all sessions; what was not written is lost.
Crash ==
    /\ \E s \in Sessions : pc[s] # "away"
    /\ pc' = [s \in Sessions |-> "away"]
    /\ probes' = [s \in Sessions |-> Empty]
    /\ IF \E s \in Sessions : pc[s] = "writing"
       THEN trouble' = TRUE /\ entries' = Content
       ELSE UNCHANGED <<trouble, entries>>
    /\ UNCHANGED <<file, op, config, asked, ops>>

Next ==
    \/ \E s \in Sessions :
          \/ Connect(s) \/ Disconnect(s)
          \/ OpenForWriting(s) \/ CannotOpen(s) \/ CloseWritten(s) \/ CannotWrite(s)
          \/ AddToList(s) \/ CannotAdd(s) \/ Undo(s)
          \/ \E f \in Symbols : delete_uprobe(s, f) \/ \E t \in Types : set_uprobe(s, f, t)
    \/ Crash

Spec == Init /\ [][Next]_vars

-----------------------------------------------------------------------------
\* The properties.

\* Without trouble the file holds, when nobody is writing, every completed change and
\* nothing else; and a session that has read it will write exactly that with
\* its own change.  Other sessions may connect, leave and fail meanwhile.
NothingLost ==
    ~trouble =>
        /\ \A s \in Sessions : AtOnce(s) => ~Writing(s)
        /\ (\A s \in Sessions : pc[s] # "writing") => Content = entries
        /\ \A s \in Sessions :
              /\ pc[s] = "opening" =>
                    config[s] = [entries EXCEPT ![op[s].symbol] = op[s].type]
              /\ pc[s] = "writing" => config[s] = entries

\* Two changes at once, failures and crashes may lose or bring back entries, but
\* whatever is in the file, or about to be, or attached in a session, was asked for
\* by a set_uprobe with this function and type.
Asked ==
    LET ok(c) == \A f \in Symbols : c[f] = NoEntry \/ <<f, c[f]>> \in asked
    IN  /\ ok(Content)
        /\ \A s \in Sessions : ok(probes[s]) /\ (pc[s] = "writing" => ok(config[s]))

\* The file is a map changed one entry at a time until there is trouble.
Map == INSTANCE ConfigMap
IsMap == Map!Spec
=============================================================================
