---------------------------- MODULE SharedUprobes ----------------------------
(***************************************************************************)
(* Shared probes: the SQL functions set_uprobe, dump_uprobe_stat and       *)
(* delete_uprobe in several sessions, the probes of each session, the      *)
(* queue to the collector and the collector.                               *)
(*                                                                         *)
(* The queue is the one BatchQueue describes: a put appends the symbol and *)
(* a prefix of the messages in one step, and MessageBuffer is checked to   *)
(* implement that.  What remains visible of the buffer is its condition    *)
(* variable: a backend is in its wait queue for the whole of the wait loop *)
(* of a put, and whoever completes an operation on the buffer meanwhile    *)
(* sets the latch of that backend, the same latch on which the functions   *)
(* wait for the collector's answer.                                        *)
(***************************************************************************)
EXTENDS StatCollector, Functions

CONSTANTS
    Admins,         \* backends whose users set and delete probes
    CanStop,        \* the collector is stopped
    NoProbe,        \* no probe, or no entry in the config
    MaxCalls,       \* bound: calls of traced functions in a behaviour
    MaxOps,         \* bound: SQL functions called in a behaviour
    MaxAborts       \* bound: functions cut short in a behaviour

Probe == [type : Types, shared : BOOLEAN, count : Nat]

ASSUME SharedUprobesAssumption ==
    /\ Admins \subseteq Backends
    /\ IsFiniteSet(Backends) /\ IsFiniteSet(Symbols)
    /\ CanFail \in BOOLEAN
    /\ CanStop \in BOOLEAN
    /\ MaxCalls \in Nat
    /\ MaxOps \in Nat /\ MaxAborts \in Nat
    /\ NoStorage \notin Storage
    /\ NoProbe \notin Types \cup Probe
    /\ NoSymbol \notin Symbols

VARIABLES
    config,         \* the shared config file: type of each shared probe
    queue,          \* messages in the buffer
    batch,          \* messages the collector took and has not processed
    closed,         \* the buffer is deleted, the collector is gone
    worker,         \* the collector: the "first", "failed", or a "second" in its place
    probes,         \* each backend's list of probes (pguprobeList)
    pc,             \* where each backend is
    op,             \* the SQL function a backend executes
    latch,          \* MyLatch of each backend, between ResetLatch and WaitLatch
    calls,          \* calls of traced functions counted by shared probes
    ops, aborts,    \* SQL functions called, and functions cut short so far
    past            \* what was done to each symbol: "deleted", "cut short"

channel == <<queue, batch, closed, worker>>
backend == <<probes, pc, op, latch>>
history == <<calls, ops, aborts, past>>
vars    == <<collector, config, channel, backend, history>>

NoOp  == [name |-> "none", symbol |-> NoSymbol, kind |-> NoProbe, flag |-> FALSE,
          todo |-> {}, current |-> NoSymbol, left |-> 0]

\* The steps between ResetLatch and the return of WaitLatch.
Armed == {"putWrite", "putDelete", "unsave", "wait"}
\* Inside MessageBufferPut, in the queue of the condition variable.
Putting == {"putData", "putNew", "putWrite", "putDelete"}

TypeOK ==
    /\ CollectorTypeOK
    /\ config \in [Symbols -> Types \cup {NoProbe}]
    /\ closed \in BOOLEAN /\ worker \in {"first", "failed", "second"}
    /\ probes \in [Backends -> [Symbols -> Probe \cup {NoProbe}]]
    /\ pc \in [Backends -> {"away", "idle", "send", "save", "unsave", "wait"} \cup Putting]
    /\ \A b \in Backends :
          /\ op[b].name \in {"none", "set", "dump", "delete", "tick", "exit"}
          /\ op[b].todo \subseteq Symbols
          /\ op[b].left \in Nat
          /\ pc[b] \in {"away", "idle"} <=> op[b] = NoOp
    /\ latch \in [Backends -> BOOLEAN]
    /\ \A b \in Backends : latch[b] => pc[b] \in Armed
    /\ calls \in [Backends -> [Symbols -> 0 .. MaxCalls]]
    /\ ops \in 0 .. MaxOps /\ aborts \in 0 .. MaxAborts
    /\ past \in [Symbols -> SUBSET {"deleted", "cut short"}]

\* The server starts with any config a previous run left.
Init ==
    /\ config \in [Symbols -> Types \cup {NoProbe}]
    /\ CollectorInit(config)
    /\ queue = <<>>
    /\ batch = <<>>
    /\ closed = FALSE
    /\ worker = "first"
    /\ probes = [b \in Backends |-> [s \in Symbols |-> NoProbe]]
    /\ pc = [b \in Backends |-> "away"]
    /\ op = [b \in Backends |-> NoOp]
    /\ latch = [b \in Backends |-> FALSE]
    /\ calls = [b \in Backends |-> [s \in Symbols |-> 0]]
    /\ ops = 0 /\ aborts = 0
    /\ past = [s \in Symbols |-> {}]

-----------------------------------------------------------------------------
\* Helpers.

Goto(b, l)  == pc' = [pc EXCEPT ![b] = l]
Finish(b)   ==
    /\ Goto(b, "idle")
    /\ op' = [op EXCEPT ![b] = NoOp]
    /\ latch' = [latch EXCEPT ![b] = FALSE]
Has(b, s)   == probes[b][s] # NoProbe
Shared(b)   == {s \in Symbols : Has(b, s) /\ probes[b][s].shared}
NewProbe(t, shared) == [type |-> t, shared |-> shared, count |-> 0]
SetProbe(b, s, v)   == probes' = [probes EXCEPT ![b][s] = v]

\* A completed buffer operation of p wakes those in the condition variable's queue,
\* by the latch.  A process that went on to sleep there has reset its latch again.
Wake(p) ==
    \E woken \in SUBSET {b \in Backends \ {p} : pc[b] \in Putting \cap Armed} :
        latch' = [b \in Backends |-> latch[b] \/ b \in woken]

\* Mutant: no symbol when the one before is the same.
StoredNamedOnce(b, s, m) ==
    /\ queue' = IF \E i \in DOMAIN queue : queue[i] = [type |-> "SYMBOL", symbol |-> s]
                THEN Append(queue, m)
                ELSE queue \o << [type |-> "SYMBOL", symbol |-> s], m >>
    /\ Wake(b)

\* Mutant: only the first put into an empty buffer names its symbol.
StoredNamedFirst(b, s, m) ==
    /\ queue' = IF queue = <<>> THEN << [type |-> "SYMBOL", symbol |-> s], m >>
                ELSE Append(queue, m)
    /\ Wake(b)

Stored(b, s, m) ==
    /\ queue' = queue \o << [type |-> "SYMBOL", symbol |-> s], m >>
    /\ Wake(b)

\* MessageBufferPut of one message: stored with the symbol before it.  When the
\* buffer is deleted it is dropped without a word, unless the put had looked at
\* the flag before.
Put(b, s, m) ==
    \/ Stored(b, s, m)
    \/ closed /\ UNCHANGED <<queue, latch>>

Miss(s, b, n) == missed' = [missed EXCEPT ![s][b] = @ + n]

Mark(S, what) ==
    past' = [s \in Symbols |-> IF s \in S THEN past[s] \cup {what} ELSE past[s]]

Counted == ops < MaxOps /\ ops' = ops + 1

\* The file after a rewrite that is to give new: empty when the disk is full, which
\* fwrite tells or fclose, and then nobody looks.
NoConfig   == [s \in Symbols |-> NoProbe]
Write(new) == config' = new \/ (CanFail /\ config' = NoConfig)
Astray(new) == {s \in Symbols : config'[s] # new[s]}
CallsMade == FoldFunction(+, 0, [x \in Backends \X Symbols |-> calls[x[1]][x[2]]])

-----------------------------------------------------------------------------
\* Sessions and traced calls.

\* SetUprobeDuringAuntification: the probes of the config, all shared; none when
\* one of them fails.
Connect(b) ==
    /\ pc[b] = "away"
    /\ Goto(b, "idle")
    /\ \/ /\ probes' = [probes EXCEPT ![b] = [s \in Symbols |->
                IF config[s] = NoProbe THEN NoProbe ELSE NewProbe(config[s], TRUE)]]
          /\ UNCHANGED past
       \/ /\ CanFail
          /\ config # NoConfig
          /\ Mark(Symbols, "cut short")
          /\ UNCHANGED probes
    /\ UNCHANGED <<collector, config, channel, op, latch, calls, ops, aborts>>

\* before_shmem_exit: a session that ends sends what it has.
Disconnect(b) ==
    /\ pc[b] = "idle"
    /\ op' = [op EXCEPT ![b] = [NoOp EXCEPT !.name = "exit", !.todo = Shared(b)]]
    /\ Goto(b, "send")
    /\ UNCHANGED <<collector, config, channel, probes, latch, history>>

\* A traced function returns in backend b.
Call(b, s) ==
    /\ pc[b] = "idle"
    /\ s \in Shared(b)
    /\ CallsMade < MaxCalls
    /\ calls' = [calls EXCEPT ![b][s] = @ + 1]
    /\ probes' = [probes EXCEPT ![b][s].count = @ + 1]
    /\ UNCHANGED <<collector, config, channel, pc, op, latch, ops, aborts, past>>

-----------------------------------------------------------------------------
\* The SQL functions, up to their first message.

\* Mutant: the config is written and the probe counts before the collector is told.
SetUprobeTellLast(b, s, t, shared) ==
    /\ pc[b] = "idle"
    /\ b \in Admins
    /\ ~Has(b, s)
    /\ shared
    /\ Counted
    /\ op' = [op EXCEPT ![b] = [NoOp EXCEPT !.name = "set", !.symbol = s, !.kind = t]]
    /\ Goto(b, "putNew")
    /\ config' = [config EXCEPT ![s] = t]
    /\ SetProbe(b, s, NewProbe(t, TRUE))
    /\ UNCHANGED <<collector, channel, latch, calls, aborts, past>>

\* Mutant: the session's own probes are not looked at.
SetUprobeAgain(b, s, t, shared) ==
    /\ pc[b] = "idle"
    /\ b \in Admins
    /\ shared
    /\ Counted
    /\ op' = [op EXCEPT ![b] = [NoOp EXCEPT !.name = "set", !.symbol = s, !.kind = t]]
    /\ Goto(b, "putNew")
    /\ UNCHANGED <<collector, config, channel, probes, latch, calls, aborts, past>>

\* set_uprobe fails on a symbol the session has a probe on already.
SetUprobe(b, s, t, shared) ==
    /\ pc[b] = "idle"
    /\ b \in Admins
    /\ ~Has(b, s)
    /\ Counted
    /\ IF shared
       THEN /\ op' = [op EXCEPT ![b] =
                  [NoOp EXCEPT !.name = "set", !.symbol = s, !.kind = t]]
            /\ Goto(b, "putNew")
            /\ UNCHANGED probes
       ELSE /\ SetProbe(b, s, NewProbe(t, FALSE))
            /\ UNCHANGED <<op, pc>>
    /\ UNCHANGED <<collector, config, channel, latch, calls, aborts, past>>

\* delete_uprobe removes the probe with the data it counted, then sends the data
\* of the probes that remain.
DeleteUprobe(b, s, write) ==
    /\ pc[b] = "idle"
    /\ b \in Admins
    /\ Has(b, s)
    /\ Counted
    /\ SetProbe(b, s, NoProbe)
    /\ IF s \in Shared(b)
       THEN /\ op' = [op EXCEPT ![b] =
                  [NoOp EXCEPT !.name = "delete", !.symbol = s, !.flag = write,
                               !.todo = Shared(b) \ {s}]]
            /\ Goto(b, "send")
            /\ Miss(s, b, probes[b][s].count)
            /\ Mark({s}, "deleted")
       ELSE UNCHANGED <<op, pc, missed, past>>
    /\ UNCHANGED <<storages, currentSymbol, currentStorage, reported, config,
                   channel, latch, calls, aborts>>

\* Mutant: the own data are not sent.
DumpUprobeStatUnsent(b, s, empty) ==
    /\ pc[b] = "idle"
    /\ Counted
    /\ op' = [op EXCEPT ![b] =
          [NoOp EXCEPT !.name = "dump", !.symbol = s, !.flag = empty]]
    /\ Goto(b, "send")
    /\ UNCHANGED <<collector, config, channel, probes, latch, calls, aborts, past>>

DumpUprobeStat(b, s, empty) ==
    /\ pc[b] = "idle"
    /\ Counted
    /\ op' = [op EXCEPT ![b] =
          [NoOp EXCEPT !.name = "dump", !.symbol = s, !.flag = empty,
                       !.todo = Shared(b)]]
    /\ Goto(b, "send")
    /\ UNCHANGED <<collector, config, channel, probes, latch, calls, aborts, past>>

\* The probe on ReadyForQuery sends the data every few seconds.
TimedStatSend(b) ==
    /\ pc[b] = "idle"
    /\ op' = [op EXCEPT ![b] = [NoOp EXCEPT !.name = "tick", !.todo = Shared(b)]]
    /\ Goto(b, "send")
    /\ UNCHANGED <<collector, config, channel, probes, latch, history>>

-----------------------------------------------------------------------------
\* UprobeTimedStatSend: the loop over the shared probes.

\* Probes with nothing counted send nothing.  A TIME probe forgets its counters
\* before it sends them, the others after.
Busy(b) == {s \in op[b].todo : probes[b][s].count > 0}

SendNext(b) ==
    /\ pc[b] = "send"
    /\ \E s \in Busy(b) :
          /\ op' = [op EXCEPT ![b].todo = @ \ {s}, ![b].current = s,
                              ![b].left = probes[b][s].count]
          /\ IF probes[b][s].type = "TIME"
             THEN probes' = [probes EXCEPT ![b][s].count = 0]
             ELSE UNCHANGED probes
    /\ Goto(b, "putData")
    /\ UNCHANGED <<collector, config, channel, latch, history>>

\* Mutant: what was sent is subtracted from counters already reset.
RemainSubtracts(b, n) ==
    /\ op' = [op EXCEPT ![b].current = NoSymbol, ![b].left = 0]
    /\ probes' = [probes EXCEPT ![b][op[b].current].count = @ - op[b].left]
    /\ Goto(b, "send")

\* Mutant: the map is emptied after the first put.
RemainOnce(b, n) ==
    /\ op' = [op EXCEPT ![b].current = NoSymbol, ![b].left = 0]
    /\ probes' = [probes EXCEPT ![b][op[b].current].count = 0]
    /\ Goto(b, "send")

\* What follows a put that left n of the entries unsent: the callback puts again,
\* or empties the map and is done.
Remain(b, n) ==
    IF n > 0
    THEN /\ op' = [op EXCEPT ![b].left = n]
         /\ UNCHANGED <<probes, pc>>
    ELSE /\ op' = [op EXCEPT ![b].current = NoSymbol, ![b].left = 0]
         /\ probes' = [probes EXCEPT ![b][op[b].current].count = 0]
         /\ Goto(b, "send")

\* TIME sends one message; the others one per entry of their map, of which a
\* put may store only some.
PutData(b) ==
    LET s == op[b].current
        t == probes[b][s].type
    IN  /\ pc[b] = "putData"
        /\ \/ /\ closed
              /\ Miss(s, b, op[b].left)
              /\ Remain(b, 0)
              /\ UNCHANGED <<queue, latch>>
           \/ /\ \E k \in 1 .. op[b].left :
                    /\ t = "TIME" => k = op[b].left
                    /\ Stored(b, s, [type |-> "CUSTOM", kind |-> t, from |-> b, n |-> k])
                    /\ Remain(b, op[b].left - k)
              /\ UNCHANGED missed
        /\ UNCHANGED <<storages, currentSymbol, currentStorage, reported, config,
                       batch, closed, worker, history>>

\* After the loop: on to the message of the function, with the latch reset.
SendDone(b) ==
    LET next == CASE op[b].name = "dump"   -> "putWrite"
                  [] op[b].name = "delete" -> "putDelete"
                  [] op[b].name = "exit"   -> "away"
                  [] OTHER                 -> "idle"
    IN  /\ pc[b] = "send"
        /\ Busy(b) = {}
        /\ Goto(b, next)
        /\ op' = IF next \in {"away", "idle"} THEN [op EXCEPT ![b] = NoOp] ELSE op
        /\ latch' = IF next = "putWrite" \/ (next = "putDelete" /\ op[b].flag)
                    THEN [latch EXCEPT ![b] = FALSE] ELSE latch
        /\ probes' = IF next = "away"
                     THEN [probes EXCEPT ![b] = [s \in Symbols |-> NoProbe]] ELSE probes
        /\ UNCHANGED <<collector, config, channel, history>>

-----------------------------------------------------------------------------
\* The SQL functions, from their own message on.

PutNew(b) ==
    /\ pc[b] = "putNew"
    /\ Put(b, op[b].symbol, [type |-> "NEW", kind |-> op[b].kind])
    /\ Goto(b, "save")
    /\ UNCHANGED <<collector, config, batch, closed, worker, probes, op, history>>

\* The config is written after the collector was told, then the session's list;
\* when there is no memory for that, the collector is told to forget the probe
\* and the config is written again.  A config that cannot be read is begun anew.
SaveInConfig(b) ==
    LET s     == op[b].symbol
        t     == op[b].kind
        saved == [config EXCEPT ![s] = t]
    IN  /\ pc[b] = "save"
        /\ Write(saved) \/ (CanFail /\ config' = [NoConfig EXCEPT ![s] = t])
        /\ \/ /\ SetProbe(b, s, NewProbe(t, TRUE))
              /\ Finish(b)
              /\ Mark(Astray(saved), "cut short")
           \/ /\ CanFail
              /\ Mark(Astray(saved) \cup {s}, "cut short")
              /\ Goto(b, "putDelete")
              /\ UNCHANGED <<probes, op, latch>>
        /\ UNCHANGED <<collector, channel, calls, ops, aborts>>

PutWrite(b) ==
    /\ pc[b] = "putWrite"
    /\ Put(b, op[b].symbol,
           [type |-> "WRITE", from |-> b, flag |-> op[b].flag])
    /\ Goto(b, "wait")
    /\ UNCHANGED <<collector, config, batch, closed, worker, probes, op, history>>

\* Mutant: the collector is told only when the statistics are wanted.
PutDeleteToWrite(b) ==
    /\ pc[b] = "putDelete"
    /\ IF op[b].flag
       THEN Put(b, op[b].symbol, [type |-> "DELETE", from |-> b, flag |-> TRUE])
       ELSE UNCHANGED <<queue, latch>>
    /\ Goto(b, "unsave")
    /\ UNCHANGED <<collector, config, batch, closed, worker, probes, op, history>>

PutDelete(b) ==
    /\ pc[b] = "putDelete"
    /\ Put(b, op[b].symbol,
           [type |-> "DELETE", from |-> b, flag |-> op[b].flag])
    /\ Goto(b, "unsave")
    /\ UNCHANGED <<collector, config, batch, closed, worker, probes, op, history>>

\* A config that cannot be read is left alone.
DeleteFromConfig(b) ==
    LET rest == [config EXCEPT ![op[b].symbol] = NoProbe]
    IN  /\ pc[b] = "unsave"
        /\ Write(rest) \/ (CanFail /\ UNCHANGED config)
        /\ Mark(Astray(rest), "cut short")
        /\ IF op[b].flag THEN Goto(b, "wait") /\ UNCHANGED <<op, latch>> ELSE Finish(b)
        /\ UNCHANGED <<collector, channel, probes, calls, ops, aborts>>

\* WaitLatch returns when the latch is set, whoever set it.
WaitLatch(b) ==
    /\ pc[b] = "wait"
    /\ latch[b]
    /\ Finish(b)
    /\ UNCHANGED <<collector, config, channel, probes, history>>

\* A cancelled query ends in the sleep of a put or at WaitLatch; a config that cannot
\* be opened or written ends set_uprobe and delete_uprobe, in the second case with
\* the file truncated.  What a TIME probe had taken off its counters is gone; a map
\* is still whole, and what was sent of it will be sent again.
Abort(b) ==
    LET s == op[b].current
        p == probes[b][s]
    IN  /\ CanFail
        /\ aborts < MaxAborts /\ aborts' = aborts + 1
        /\ pc[b] \in Putting \cup {"save", "unsave", "wait"}
        /\ op[b].name # "exit"
        /\ IF pc[b] # "putData" THEN UNCHANGED missed
           ELSE Miss(s, b, IF p.type = "TIME" THEN op[b].left ELSE op[b].left - p.count)
        /\ UNCHANGED config \/ (pc[b] \in {"save", "unsave"} /\ config' = NoConfig)
        /\ Mark({op[b].symbol, s} \cup Astray(config), "cut short")
        /\ Finish(b)
        /\ UNCHANGED <<storages, currentSymbol, currentStorage, reported,
                       channel, probes, calls, ops>>

-----------------------------------------------------------------------------
\* The collector.

Transit == batch \o queue

\* The symbol the i-th message in transit will be applied to.
SymbolOf(i) ==
    LET names == {j \in 1 .. i - 1 : Transit[j].type = "SYMBOL"}
    IN  IF names = {} THEN currentSymbol
        ELSE Transit[CHOOSE j \in names : \A k \in names : k <= j].symbol

Data(b, s) ==
    {i \in DOMAIN Transit : /\ Transit[i].type = "CUSTOM"
                            /\ Transit[i].from = b
                            /\ SymbolOf(i) = s}

Running == ~closed /\ worker # "failed"

\* What backend b has under way for s, in all and in the collector's hands.
Sent(b, s)    == FoldFunction(+, 0, [i \in Data(b, s) |-> Transit[i].n])
InBatch(b, s) == FoldFunction(+, 0, [i \in Data(b, s) \cap DOMAIN batch |-> Transit[i].n])

TakeBatch ==
    /\ Running
    /\ batch = <<>>
    /\ queue # <<>>
    /\ batch' = queue
    /\ queue' = <<>>
    /\ Wake("collector")
    /\ UNCHANGED <<collector, config, closed, worker, probes, pc, op, history>>

Process ==
    /\ Running
    /\ batch # <<>>
    /\ ProcessOneMessage(Head(batch))
    /\ batch' = Tail(batch)
    /\ latch' = [b \in Backends |-> latch[b] \/ (pc[b] \in Armed /\ b \in Answers(Head(batch)))]
    /\ UNCHANGED <<config, queue, closed, worker, probes, pc, op, history>>

\* The collector ends with all it had taken; the exit callback writes the storages.
Ends ==
    /\ Running
    /\ WriteAllAtExit([s \in Symbols |-> [b \in Backends |-> InBatch(b, s)]])
    /\ batch' = <<>>

\* SIGTERM: the buffer is deleted before that.
Stop ==
    /\ CanStop
    /\ Ends
    /\ closed' = TRUE
    /\ Wake("collector")
    /\ UNCHANGED <<config, queue, worker, probes, pc, op, history>>

\* An error while a message is processed, for want of memory, ends the collector; the
\* buffer stays.  Cut short are the functions whose data are lost, and those set or
\* deleted just now: this collector was told, but the config is not changed yet.
\* Bound: once.
CollectorFails ==
    /\ CanFail
    /\ batch # <<>>
    /\ worker = "first"
    /\ Ends
    /\ worker' = "failed"
    /\ Mark({s \in Symbols : missed'[s] # missed[s]}
              \cup {op[b].symbol : b \in {c \in Backends : pc[c] \in {"save", "unsave"}}},
            "cut short")
    /\ UNCHANGED <<config, queue, closed, probes, pc, op, latch, calls, ops, aborts>>

\* Mutant: the new collector begins without the config.
StartWithoutConfig ==
    /\ worker = "failed"
    /\ worker' = "second"
    /\ UNCHANGED <<collector, config, queue, batch, closed, backend, history>>

\* After bgw_restart_time a new collector starts from the config, or from nothing
\* when the config cannot be read, or was truncated a moment ago to be written.
StartStatCollector ==
    /\ worker = "failed"
    /\ worker' = "second"
    /\ \/ storages' = StoragesFor(config) /\ UNCHANGED past
       \/ /\ storages' = StoragesFor(NoConfig)
          /\ Mark({s \in Symbols : config[s] # NoProbe}, "cut short")
    /\ UNCHANGED <<currentSymbol, currentStorage, reported, missed, config, queue, batch,
                   closed, backend, calls, ops, aborts>>

-----------------------------------------------------------------------------
BackendStep(b) ==
    \/ SendNext(b) \/ PutData(b) \/ SendDone(b)
    \/ PutNew(b) \/ SaveInConfig(b)
    \/ PutWrite(b) \/ PutDelete(b) \/ DeleteFromConfig(b) \/ WaitLatch(b)

Next ==
    \/ \E b \in Backends :
          \/ Connect(b) \/ Disconnect(b) \/ TimedStatSend(b)
          \/ \E s \in Symbols :
                \/ Call(b, s)
                \/ \E t \in Types, f \in BOOLEAN : SetUprobe(b, s, t, f)
                \/ \E f \in BOOLEAN : DeleteUprobe(b, s, f) \/ DumpUprobeStat(b, s, f)
          \/ BackendStep(b)
          \/ Abort(b)
    \/ TakeBatch \/ Process \/ Stop \/ CollectorFails \/ StartStatCollector

Spec == Init /\ [][Next]_vars

\* A session inside a function and the collector go on; nothing makes a user
\* call one.
FairSpec ==
    /\ Spec
    /\ \A b \in Backends : WF_vars(BackendStep(b))
    /\ WF_vars(TakeBatch) /\ WF_vars(Process) /\ WF_vars(StartStatCollector)
-----------------------------------------------------------------------------
\* Properties.

Stocked(b, s) == IF Present(s) THEN storages[s].total[b] ELSE 0
Unsent(b, s)  == IF op[b].current = s THEN op[b].left
                 ELSE IF s \in Shared(b) THEN probes[b][s].count ELSE 0
Known(b, s)   == Stocked(b, s) + reported[s][b] + missed[s][b]

\* Every call that a shared probe counted is in one place: the probe, a message, a
\* storage, a report, or among those the code drops where it says so.  Resets,
\* partial puts, full queues and names that go missing show here as calls
\* that vanish or count twice.
Conservation ==
    \A b \in Backends, s \in Symbols :
        calls[b][s] = Unsent(b, s) + Sent(b, s) + Known(b, s)

\* No statistics are dropped on the way to the collector unless the probe was
\* deleted somewhere, a function was cut short or the collector was stopped; what waits
\* in the buffer while a collector is started in place of a failed one is not dropped.
\* That holds because set_uprobe tells the collector first: no session
\* has a shared probe whose storage is not there or announced ahead of the data.
NothingDropped ==
    \A s \in Symbols : past[s] = {} /\ ~closed => missed[s] = Nothing

\* The collector never follows currentStorage after ProcessMessageDeleteSharedUprobe
\* freed it: each message is preceded by the name of its symbol.
NoUseAfterFree ==
    batch # <<>> /\ Head(batch).type \in {"CUSTOM", "WRITE"} => currentStorage # "freed"

\* When the collector comes to the request a session waits for, it has every call
\* the session counted before: the data were sent ahead of the request.
ReportIsComplete ==
    \A b \in Backends, i \in DOMAIN Transit :
        /\ ~closed /\ pc[b] = "wait" /\ op[b].name = "dump"
        /\ Transit[i].type = "WRITE" /\ Transit[i].from = b
        /\ \A j \in i + 1 .. Len(Transit) :
              Transit[j].type \in {"WRITE", "DELETE"} => Transit[j].from # b
        => \A s \in Shared(b) :
              /\ probes[b][s].count = 0
              /\ \A j \in Data(b, s) : j < i

\* Once nothing is under way the collector has a storage for each entry of the
\* shared config, of its type, and none besides: probes are set and deleted by one
\* session and no function was cut short.  A collector started in place of a failed one
\* finds the same by the config and the messages that wait.
Quiet == queue = <<>> /\ batch = <<>> /\ worker # "failed" /\ \A b \in Backends : pc[b] \in {"away", "idle"}

StorageForEachEntry ==
    Quiet /\ ~closed =>
        \A s \in Symbols : "cut short" \notin past[s] =>
            IF config[s] = NoProbe THEN ~Present(s)
            ELSE Present(s) /\ storages[s].type = config[s]

\* A storage gets data of its own type, when one session sets and deletes the probes and
\* as long as the probe was not deleted in that session while it lives on in another.
DataFits ==
    ~closed /\ currentStorage = "live" /\ batch # <<>> /\ Head(batch).type = "CUSTOM" =>
        Head(batch).kind = storages[currentSymbol].type

DataFitsUnlessDeleted ==
    \A s \in Symbols : s = currentSymbol /\ past[s] = {} => DataFits

\* A session that waits for the collector's answer gets on, unless the collector is
\* stopped: the answer comes whether there is a storage or not.
AnswerComes ==
    \A b \in Backends : pc[b] = "wait" ~> pc[b] # "wait" \/ closed

\* What the comment at the wait says: when WaitLatch returns, the data are written.
WrittenOnReturn ==
    [][\A b \in Backends : WaitLatch(b) =>
          closed \/ \A i \in DOMAIN Transit :
             Transit[i].type \in {"WRITE", "DELETE"} => Transit[i].from # b]_vars

\* What the comment in delete_uprobe says: the data of the own process are sent
\* before the request to write and delete.
OwnDataReported ==
    [][\A b \in Backends, s \in Symbols : DeleteUprobe(b, s, TRUE) => UNCHANGED missed]_vars
=============================================================================
