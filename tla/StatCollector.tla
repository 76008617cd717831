---------------------------- MODULE StatCollector ----------------------------
(***************************************************************************)
(* The collector process: a background worker that owns one storage per    *)
(* traced function and applies the messages of the backends to it, one     *)
(* after the other.                                                        *)
(*                                                                         *)
(* A storage is what the collector has summed up since the last time it    *)
(* was emptied; the number is kept per backend that sent it, which the     *)
(* code does not do, so that the properties can say whose data a report    *)
(* holds.  Writing a statistics file that is then emptied or abandoned     *)
(* moves the numbers to reported.                                          *)
(***************************************************************************)
EXTENDS Integers, Sequences, FiniteSets

CONSTANTS
    Backends,       \* server processes of the sessions
    Symbols,        \* functions that can be traced
    Types,          \* probe types with a storage: TIME, HIST, MEM
    NoStorage,      \* no storage for a symbol
    NoSymbol,       \* currentSymbol before the first message
    CanFail         \* queries are cancelled, files cannot be opened or written

VARIABLES
    storages,       \* the storage of each symbol (storageList)
    currentSymbol,  \* symbol of the last MESSAGE_SYMBOL
    currentStorage, \* pointer to its storage: "null", "live" or "freed"
    reported,       \* data that left a storage through a file
    missed          \* data dropped on its way, less data sent a second time

collector == <<storages, currentSymbol, currentStorage, reported, missed>>

Counts  == [Backends -> Nat]
Nothing == [b \in Backends |-> 0]
Plus(c, d) == [b \in Backends |-> c[b] + d[b]]

Storage == [type : Types, total : Counts]
NewStorage(t) == [type |-> t, total |-> Nothing]

CollectorTypeOK ==
    /\ storages \in [Symbols -> Storage \cup {NoStorage}]
    /\ currentSymbol \in Symbols \cup {NoSymbol}
    /\ currentStorage \in {"null", "live", "freed"}
    /\ reported \in [Symbols -> Counts]
    /\ missed \in [Symbols -> [Backends -> Int]]

\* StatCollectorMain creates a storage for each entry of the shared config.
StoragesFor(config) ==
    [s \in Symbols |-> IF config[s] \in Types THEN NewStorage(config[s]) ELSE NoStorage]

CollectorInit(config) ==
    /\ storages = StoragesFor(config)
    /\ currentSymbol = NoSymbol
    /\ currentStorage = "null"
    /\ reported = [s \in Symbols |-> Nothing]
    /\ missed = [s \in Symbols |-> Nothing]

Present(s) == storages[s] # NoStorage

\* Whether a statistics file can be opened; what goes wrong is only logged.
Opened == {TRUE, ~CanFail}

\* Mutant: the pointer of the symbol before stays.
ProcessSymbolKeepsPointer(m) ==
    /\ currentSymbol' = m.symbol
    /\ currentStorage' = IF Present(m.symbol) THEN "live" ELSE currentStorage
    /\ UNCHANGED <<storages, reported, missed>>

ProcessSymbol(m) ==
    /\ currentSymbol' = m.symbol
    /\ currentStorage' = IF Present(m.symbol) THEN "live" ELSE "null"
    /\ UNCHANGED <<storages, reported, missed>>

\* A second probe on the same symbol does not replace the storage.
ProcessNewSharedUprobe(m) ==
    /\ storages' = IF Present(currentSymbol) THEN storages
                   ELSE [storages EXCEPT ![currentSymbol] = NewStorage(m.kind)]
    /\ UNCHANGED <<currentSymbol, currentStorage, reported, missed>>

\* Mutant: the storage is emptied without a file.
ProcessWriteStatBlind(m, opened) ==
    /\ IF currentStorage = "live" /\ m.flag
       THEN /\ reported' = IF opened THEN [reported EXCEPT ![currentSymbol] =
                               Plus(@, storages[currentSymbol].total)] ELSE reported
            /\ storages' = [storages EXCEPT ![currentSymbol].total = Nothing]
       ELSE UNCHANGED <<reported, storages>>
    /\ UNCHANGED <<currentSymbol, currentStorage, missed>>

\* The file is rewritten; its content counts as reported once the storage
\* forgets it.
ProcessWriteStat(m, opened) ==
    /\ IF currentStorage = "live" /\ m.flag /\ opened
       THEN /\ reported' = [reported EXCEPT ![currentSymbol] =
                               Plus(@, storages[currentSymbol].total)]
            /\ storages' = [storages EXCEPT ![currentSymbol].total = Nothing]
       ELSE UNCHANGED <<reported, storages>>
    /\ UNCHANGED <<currentSymbol, currentStorage, missed>>

ProcessDeleteSharedUprobe(m, opened) ==
    /\ IF ~Present(currentSymbol)
       THEN UNCHANGED collector
       ELSE LET total == storages[currentSymbol].total
            IN  /\ storages' = [storages EXCEPT ![currentSymbol] = NoStorage]
                /\ IF m.flag /\ opened
                   THEN /\ reported' = [reported EXCEPT ![currentSymbol] = Plus(@, total)]
                        /\ UNCHANGED missed
                   ELSE /\ missed' = [missed EXCEPT ![currentSymbol] = Plus(@, total)]
                        /\ UNCHANGED reported
                /\ currentStorage' = IF currentStorage = "live" THEN "freed"
                                     ELSE currentStorage
                /\ UNCHANGED currentSymbol

Only(b, n) == [c \in Backends |-> IF c = b THEN n ELSE 0]

ProcessCustom(m) ==
    /\ IF currentStorage = "live"
       THEN /\ storages' = [storages EXCEPT ![currentSymbol].total =
                               Plus(@, Only(m.from, m.n))]
            /\ UNCHANGED missed
       ELSE /\ missed' = [missed EXCEPT ![currentSymbol] = Plus(@, Only(m.from, m.n))]
            /\ UNCHANGED storages
    /\ UNCHANGED <<currentSymbol, currentStorage, reported>>

ProcessOneMessage(m) ==
    \/ m.type = "SYMBOL" /\ ProcessSymbol(m)
    \/ m.type = "NEW"    /\ ProcessNewSharedUprobe(m)
    \/ m.type = "WRITE"  /\ \E o \in Opened : ProcessWriteStat(m, o)
    \/ m.type = "DELETE" /\ \E o \in Opened : ProcessDeleteSharedUprobe(m, o)
    \/ m.type = "CUSTOM" /\ ProcessCustom(m)

\* Mutant: only a storage that was found answers.
AnswersWhenFound(m) ==
    IF (m.type = "WRITE" \/ (m.type = "DELETE" /\ m.flag)) /\ Present(currentSymbol)
    THEN {m.from} ELSE {}

\* Whose latch is set when the message has been processed, storage or not.
Answers(m) ==
    IF m.type = "WRITE" \/ (m.type = "DELETE" /\ m.flag) THEN {m.from} ELSE {}

\* StatCollectorAtExitCallback writes every storage a last time, as far as its file can
\* be opened.  dropped are the data the collector took and did not come to.
WriteAllAtExit(dropped) ==
    LET total(s) == IF Present(s) THEN storages[s].total ELSE Nothing
    IN  /\ \E written \in {Symbols} \cup IF CanFail THEN SUBSET Symbols ELSE {} :
              /\ reported' = [s \in Symbols |->
                    IF s \in written THEN Plus(reported[s], total(s)) ELSE reported[s]]
              /\ missed' = [s \in Symbols |-> Plus(missed[s], Plus(dropped[s],
                    IF s \in written THEN Nothing ELSE total(s)))]
        /\ storages' = [s \in Symbols |-> NoStorage]
        /\ currentSymbol' = NoSymbol
        /\ currentStorage' = "null"
=============================================================================
