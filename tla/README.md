# A TLA+ model of pg_uprobe

pg_uprobe is a PostgreSQL extension that attaches probes to functions of a running
server.  It does two things: it counts calls and times of functions (*function
profiling*, `doc/profile_func.md`) and it writes a trace of what one session executes
(*session trace*, `doc/trace_session.md`).  This directory holds a TLA+ model of its core, TLC
configurations and TLAPS proofs.  Paths below are relative to the repository, where the C code
is in `src/` and the documentation in `doc/`; line numbers refer to the modelled commit.

1. [The system](#1-the-system)
2. [The modules](#2-the-modules)
3. [The runs](#3-the-runs)
4. [Fairness](#4-fairness)
5. [What is proved](#5-what-is-proved)
6. [Disagreements found](#6-disagreements-between-code-and-comments)
7. [What is left out](#7-abstractions-and-what-is-left-out)
8. [Plan](#8-plan)

## 1. The system

```
 session (backend)                         shared memory            collector (bgworker)
 pg_uprobe.c   SQL functions --+
   | pguprobeList (list.c)     |  put      +----------------+  get
   v                           +---------> | message buffer | -------> uprobe_collector.c
 count_uprobes.c   probes -----+           +----------------+            storageList
   ^  counters, maps                        lock, cond. variable         statistics files
   |                                                                        |
 traced functions        shared config file <--- read at start -------------+
   (via Frida)             uprobe_shared_config.c  <--- read at connect, written by set/delete
                                    ^-- SetLatch: "your request was processed" --+
```

| component (source) | state | operations | interacts with |
|---|---|---|---|
| message buffer (`uprobe_message_buffer.c`) | a stretch of shared memory with messages back to back, `numMessages`, `freeSpace`, `deleted`, an LWLock, a condition variable | `MessageBufferPut`, `MessageBufferGet`, `MessageBufferInit`, `DeleteMessageBuffer` | called by every session and the collector |
| collector (`uprobe_collector.c`) | `storageList`, `currentSymbol`, `currentStorage` | a handler per message type, SIGTERM handler, exit callback | takes from the buffer, sets session latches, reads the config once, writes files |
| session functions (`pg_uprobe.c`) | `pguprobeList`, `MyLatch`, time of the last send | `set_uprobe`, `delete_uprobe`, `dump_uprobe_stat`, load at connection, timed send, exit callback, signals for the session trace | buffer, config, collector's answer on the latch |
| counting probes (`count_uprobes.c`) | counters (TIME) or a map (HIST, MEM) per probe; a sum, histogram or map per storage | call entry/exit, timed send, storage write/reset/add | buffer through the send callbacks |
| lock manager trace (`lockmanager_trace.c`) | map of locks with wait counts and times | as the HIST probe | buffer, storage |
| shared config (`uprobe_shared_config.c`) | a file `config.txt` of probe entries | add, delete, load | written by sessions, read by sessions and collector |
| list (`list.c`) | doubly linked list | add, remove, iterate | used by session functions, collector, session trace |
| session trace (`trace_session.c`, `trace_file.c`) | `isExecuteTime`, `isFirstNodeCall`, `shouldCloseAfterExecution`, executor-hook nesting, the trace file | start, stop, executor and utility hooks, error cleanup | node, lock, wait and planning traces |
| node trace (`trace_execute_nodes.c`) | tree of node statistics, current node | entry/exit of `ExecProcNode`, writing | session trace, buffer-lock and wait-event traces |
| buffer-lock and wait-event traces (`trace_lock_on_buffers.c`, `trace_wait_events.c`) | stack of storages; map of events with a pointer to the current one | lock/unlock, wait start/end, push/pop, write | node trace |
| parsing and planning traces (`trace_parsing.c`, `trace_planning.c`) | data kept until the next execution is written | probes on parser and planner | session trace |
| attachment (`uprobe_internal.c`, `uprobe_factory.c`) | table of attached functions | attach, detach, entry/exit dispatch | Frida; all probes |
| JSON conversion (`json_to_jsonbvalue_parser.c`) | none | parse `explain` output | session trace |

Why this code is hard to test:

* **Lock-free waiting.**  Senders and the collector read a counter and a flag without the lock,
  sleep on one condition variable, and look again under the lock.  A wake-up may be missed, a
  sender may go round without sleeping or entering.
* **Partial puts.**  A put may store only some of the messages.  The caller moves the rest
  to the start of its array and puts again; a symbol message goes ahead of every part.
* **State that is implied by the order of messages.**  The collector keeps a current
  symbol and a pointer to its storage between messages of different sessions.
* **One latch, two meanings.**  The condition variable of the buffer and the collector's answer
  set the same process latch.
* **Three copies of the truth.**  The config, the storages and each session's list change one after
  the other in `set_uprobe` and `delete_uprobe`, and any of these steps may fail or be cancelled.
* **Shutdown.**  SIGTERM can stop the collector at any instruction, with the lock held.
* **Nested execution with errors.**  The session trace's hooks nest, are left by
  errors, and tracing may be started and stopped inside a traced query.

What correctness means for each part:

* *buffer*: a walk by message sizes finds what was stored; nothing is stored outside
  the memory; no message is lost, duplicated, reordered or separated from its symbol;
  every put returns.
* *collector, sessions, probes together*: each counted call is in exactly one place until it is
  reported or dropped where the code says so; a report holds all that was sent before it was asked for; the
  collector's storages and the config agree when nothing is under way; a request is answered;
  no freed storage is used.
* *config*: a change of one entry leaves the others; a reader sees the old or the new file.
* *session trace*: the file is a well-formed document for every sequence of start, queries,
  errors and stop; no hook returns into state that was destroyed.

## 2. The modules

| module | what it is |
|---|---|
| `BatchQueue` | what the message buffer promises, without memory, counters, locks or waiting |
| `MessageBuffer` | the buffer, one step per access to shared memory; refines `BatchQueue` |
| `MessageBufferProofs` | theorems about `MessageBuffer`: counters and wake-ups, layout, the refinement |
| `StatCollector` | the collector's state and message handlers |
| `SharedUprobes` | several sessions, their probes, the queue and the collector together; extends `StatCollector` |
| `SharedUprobesProofs` | theorems about `SharedUprobes`: types, places of sessions, names ahead of messages |
| `SharedUprobesCountProofs` | conservation of calls; extends the former |
| `SharedUprobesOrderProofs` | theorems about the order of messages; extends the former |
| `ConfigMap` | what the shared config promises: a map changed one entry at a time |
| `SharedConfig` | the config file with every step of reading, truncating and writing; refines `ConfigMap` |
| `SharedConfigProofs` | theorems about `SharedConfig` |
| `TraceDocument` | the trace file as a reader of JSON sees it |
| `ExecuteNodes` | states of traced queries, their stack, and what they replace in the executor's trees |
| `TraceStatistics` | storages of buffer locks, data of parser and planner, the current wait event |
| `SessionTrace` | one traced session; extends the three modules above |
| `SessionTraceProofs` | theorems about `SessionTrace`: level, hooks, file, stacks of states and storages, survival |
| `SessionTraceDocumentProofs` | what is in the file, and the types; extends the former |
| `SetInduction` | induction over natural numbers and finite sets, and sums as folds |
| `MCMessageBuffer`, `MCSharedUprobes`, `MCSharedConfig`, `MCSessionTrace` | instances for TLC |

A comment `\* Mutant:` before an operator marks a plausible mistake in the definition below it.
Such an operator is used by no specification; it is there to check that the
properties notice the mistake.

### MessageBuffer

`pc[p]` is the place of process `p` inside a call.  The actions follow `MessageBufferPut` and
`MessageBufferGet` statement by statement wherever shared memory is touched:

| action | code |
|---|---|
| `Enter` | test of `deleted` on entry |
| `Prepare`, `ReadCounter`, `Check`, `Awake`, `Acquire`, `Recheck`, `Retry` | the wait loops `WaitUntillMessageBufferHasSpace` and `WaitUntilMessageBufferNotEmpty` |
| `Store` | copying of the symbol and of the messages that fit |
| `Take` | copying out, and moving what is left to the start |
| `WriteNumMessages`, `WriteFreeSpace`, `Release`, `Broadcast` | `EndMessageBufferOperation` |
| `Interrupt` | a cancelled query leaves `ConditionVariableSleep` by an error |
| `Terminate`, `DeleteBroadcast`, `Exit` | SIGTERM in the collector at any instruction: `DeleteMessageBuffer`, `proc_exit` gives back the lock |

Messages are records with a size and the address the code would give them, and not
bytes; `BufferLayout` says that walking by sizes from address 0 finds them.  The condition variable and the
LWLock belong to PostgreSQL and are modelled by their contract: a process is in the wait
queue from `PrepareToSleep` on, a broadcast empties the queue, a sleeper returns when it
is out of the queue and puts itself back.

The refinement `Queue == INSTANCE BatchQueue WITH ...` forgets addresses: `queue` is `buffer`,
`todo` is the remaining array of a sender, `closed` is `deleted`.  The linearization point of a put is
`Store`, that of a get is `Take`.  A put of `BatchQueue` stores a *non-empty* prefix, so the
refinement includes that a caller's retry loop makes progress each time.

### StatCollector and SharedUprobes

| model | code |
|---|---|
| `storages`, `currentSymbol`, `currentStorage` | the static variables of `uprobe_collector.c`; `"freed"` is a pointer to a storage that was deleted |
| `ProcessSymbol` ... `ProcessCustom` | the `ProcessMessage*` handlers |
| `WriteAllAtExit` | `StatCollectorAtExitCallback` |
| `config` | the entries of the config file; a rewrite of the file is one step (`Write`), and one that fails leaves it empty |
| `probes[b]` | `pguprobeList` of session `b`; `count` stands for the counters of a TIME probe and for the number of entries in the map of the others |
| `Connect`, `Disconnect` | `SetUprobeDuringAuntification`, `before_shmem_exit` callback |
| `SetUprobe`, `PutNew`, `SaveInConfig` | `set_uprobe`: tell the collector, write the config, extend the list |
| `DeleteUprobe`, `PutDelete`, `DeleteFromConfig` | `delete_uprobe` |
| `DumpUprobeStat`, `PutWrite`, `WaitLatch` | `dump_uprobe_stat` |
| `TimedStatSend`, `SendNext`, `PutData`, `Remain`, `SendDone` | `UprobeTimedStatSend` and the send callbacks of the probes, with partial puts |
| `Abort` | a cancelled query, or a config that cannot be opened or written, in the second case truncated already; counted by `aborts` |
| `TakeBatch`, `Process`, `Stop` | the collector's loop and its end |
| `CollectorFails`, `StartStatCollector` | an error ends the collector: its batch is lost, the exit callback writes the storages; after `bgw_restart_time` a new one starts from the config.  Bound: once |

The ghost variables are `calls` (what was counted), `reported` and `missed` (what left the
system), `past` (which symbols had a probe deleted or an operation cut short) and the
counters `ops` and `aborts`.  No guard of a code action but the bounds reads them.

A config that a failure truncates, or that `set_uprobe` cannot read and begins anew, loses the entries of other functions.
`Astray` are the symbols whose entry is not what the rewrite meant it to be; they are marked in `past` by the step that loses
the entry, since config and storages disagree about them from then on.  All other symbols keep their promises.

The queue between sessions and collector is the one `BatchQueue` specifies, with one more
thing made visible: a session inside a put is in the wait queue of the condition variable, so
whoever completes an operation sets its latch (`Wake`).

### SharedConfig and ConfigMap

`pc[s]` is where session `s` is between reading the file and having it rewritten.

| action | code |
|---|---|
| `Connect`, `Disconnect` | `PGUprobeLoadFromSharedConfig` at connection; the end of a session |
| `set_uprobe` with `PGUprobeSaveInSharedConfig` or `SaveCannotRead` | the file is read and changed in memory; any error on reading counts as "no file" |
| `delete_uprobe` with `PGUprobeDeleteFromSharedConfig` | the same without an entry; a missing file is not written |
| `OpenForWriting`, `CannotOpen` | `fopen(.., "w")` truncates |
| `CloseWritten`, `CannotWrite` | `fwrite` and `fclose`; the result of the latter is not looked at |
| `AddToList`, `CannotAdd`, `Undo` | what `set_uprobe` does after writing, and its undoing with a second rewrite |
| `Crash` | a backend crashes: all sessions end, the file stays as it is |

The content reaches the file at `fclose`, as one buffer of stdio holds it.  `entries` is what the
last `fopen` for writing meant the config to be, and `trouble` the first overlap of two changes, failed read,
failed write or crash in the middle of a change.  They are the refinement mapping: until there is trouble the steps from
`fopen` to `fclose` implement one change of a map; afterwards `ConfigMap` promises only that no entry appears
that nobody asked for.

### SessionTrace and the modules it extends

A session is sequential.  What varies is the order in which PostgreSQL and the functions a query calls
run the hooks, and where an error passes.  `frames` is the part of the C stack that the trace knows: a frame for
each `ExecutorStart`, `ExecutorRun`, `ExecutorFinish` and `FETCH`, for each replaced
node function and each replaced expression.  `raised` is an error on its way up.

| model | code |
|---|---|
| `start_session_trace`, `stop_session_trace`, `StartPending`, `StopPending`, `SigHandler` | the SQL functions; the signals and the probe that looks at their flags |
| `StartSucceeds`, `StartCannotOpen`, `StartCannotAttach` | `SessionTraceStart` and its two ways to fail |
| `exits` | the slots of `on_proc_exit` that starts of a trace have taken; none is given back, and a start without one is FATAL, after the file was opened and before its head is printed |
| `SessionTraceStop` | the function of this name, inside and outside of a traced execution |
| `ExecutorStart`, `ReturnFromStart`, `UnwindStart` | `TraceSessionExecutorStart` and what it leaves by a return or an error |
| `ExecutorRun`, `ExecutorFinish`, `ProcessUtility` | the three hooks up to the original function (`Execute`, `BeforeExecution`) |
| `ReturnFromExecution`, `UnwindExecution` | `PG_FINALLY` of the three (`Finally`, `AfterExecution`) |
| `ExecutorEnd` | the memory of a query is freed, which calls `ExecuteNodesStateDelete` |
| `TraceExecProcNodeHook`, `TraceExprNodeHook`, `ReturnFromHook`, `UnwindHook` | the replaced functions; both hooks look in `currentState` first, `isExecuteTime` is asked only of an expression that was found |
| `ExecutorRewind` | PostgreSQL rewinds a cursor without the executor hooks (a `WITH HOLD` cursor at `COMMIT`, a scroll cursor of PL/pgSQL): the hook on a `LIMIT` looks in the state of another query, or in none; evaluating it is one step |
| `ParseOrPlan`, `ParseOrPlanFails`, `Wait`, `LockBuffer`, `PGSemaphoreLock` | probes of the other traces |
| `TraceNotNormalShutdown` | the exit callback, printing `ClosingTail` |
| `RaiseLimit` | `pg_uprobe.trace_file_limit` is raised during a trace |
| `Error`, `Catch` | code outside of the extension |

`states[q]` is the state in the list of `trace_execute_nodes.c`, `hooked[q]` what is replaced in the
executor's own data of query `q`, which outlives the state.  `doc` is the file, read as JSON while it is written:
the open brackets, the last token and whether everything was in place.  Keys, values and layout
are left out.  With the feature "limit" output may end after any token.

`outcome` says how the session ended: "crashed" is a NULL or freed pointer followed, "wrong result" a
hook that did not find its node or expression and returned NULL, "fatal" a start without a slot for its exit callback, "wild write" a use of `currentWaitEvent` after its map
was freed.  `causes` records circumstances under which the code is known not to do what the properties say:

| cause | circumstance | code |
|---|---|---|
| "again" | a later trace of the session starts with `isFirstNodeCall` left false | `trace_session.c:517` |
| "restarted" | started inside an execution that was traced before | `trace_session.c:265` |
| "old query" | a query started before the trace, as a cursor, is executed under it: `AfterExecution` follows its missing state | `trace_session.c:176` |
| "stopped outside" | `stop_session_trace` outside of a traced execution leaves the file to one that never comes | `trace_session.c:359` |
| "failed start" | a failing start after an earlier trace frees the old array of probes again | `trace_session.c:308` |
| "slept" | `PGSemaphoreLock` leaves `currentWaitEvent` behind | `trace_wait_events.c:200` |
| "limit raised" | output resumes after it was cut | `trace_file.h:21` |
| "rewound" | a traced cursor with a `LIMIT` is rewound outside of `FETCH`: `currentState` is followed before `isExecuteTime` is asked | `trace_execute_nodes.c:294` |
| "slots" | a start takes an exit callback when all slots are taken, and the file gets an end without a head | `trace_session.c:298` |

Each property names the causes it excepts and no others, so that it says what still holds under the rest.

## 3. The runs

The passing runs take at most three to four minutes each with two workers, most of them less than two; four more are expected to find a violation.

| run | instance | what it shows |
|---|---|---|
| `message_buffer` | 2 senders, 8 bytes, 3 messages each; 960 000 states | type, exclusion, layout, bounds, wake-ups, attribution and the refinement of `BatchQueue` |
| `message_buffer_live` | the same with 2 messages each; 154 000 states | every put returns; what was put is taken |
| `shared_uprobes` | 2 sessions, 1 administrator, 1 function, TIME and HIST, 2 calls, 2 SQL functions, a collector that may be stopped; 2.3 million states | conservation of calls, nothing dropped, complete reports, agreement of config and storages, types fit |
| `shared_uprobes_symbols` | 2 interchangeable functions, TIME, 1 call, 1 SQL function; it or a timed send may be cut short once; a config that is truncated or unreadable, a collector that fails and is started again; 1.3 million states | no use of a freed storage, no call counted for the other function, agreement of config and storages about the function whose entry was not lost |
| `shared_uprobes_faults` | the same faults with 1 function, HIST and 2 calls, so that a send is in parts and may be cancelled between two of them; 2 million states | conservation and `NothingDropped` with faults |
| `shared_uprobes_live` | 1 call, 2 SQL functions, stopped collector; 153 000 states | requests are answered |
| `session_trace` | 2 queries, 4 frames, 5 storages, 2 slots for exit callbacks, 6 sets of features; 1.3 million states | level, states and storages follow the stack; no hook and no freed state is left; the file is one whole document and gets closed; the session survives |
| `shared_config` | 2 sessions, 2 functions, 2 types, 3 calls; 589 000 states | no entry lost without trouble, none invented with it, and the refinement of `ConfigMap` |
| `written_on_return`, `own_data_reported`, `data_fits`, `second_trace_is_json` | | expected violations, see section 6 |

`CHECK_DEADLOCK FALSE` is given in all but `shared_config`: when the bounds on calls are used up and nobody calls,
or a session has ended, the system rests.  In `shared_config` sessions can always connect and leave.

### Bounds and why they are enough

* `MessageBuffer`: the code's sizes matter only by how they relate: symbol, smallest and largest message, head-room,
  capacity.  With a symbol of 1, messages of 1 and 2, head-room 3 and capacity 8 there are
  arrays that fit, arrays cut in the middle, and free space below, at and above the
  head-room (at exactly the head-room a sender neither sleeps nor enters, because one test is
  `<` and the other `>`).  Two senders are needed for interleaved puts; three messages each fill the
  buffer more than once.
* `SharedUprobes`: two sessions distinguish "the session that deletes" from "one that still has
  the probe".  Two calls make a partial put of a map.  Two SQL functions
  make set-then-delete, delete-then-set and dump-then-delete happen; `Init` starts with *any*
  config, so one operation already meets probes left from before.  Two functions in one run make
  `currentSymbol` alternate between sessions, and are needed to see a rewrite of the config lose an entry it is not about;
  they are interchangeable (`SymbolSymmetry`), as nothing refers to one of them.
* The two runs with faults have `MaxOps = 1` and `MaxAborts = 1`: one SQL function, and one function or send that is cut
  short, at any of its steps; it is not counted twice.  A `set_uprobe` or `delete_uprobe` with a failing config meets the probes that
  `Init` and `Connect` left, which are those of an earlier `set_uprobe`; a second SQL function after one that failed is not run, and
  left to the theorems, which bound neither.
* The queue of `SharedUprobes` has no capacity: that a full buffer only delays and splits a
  put is what the refinement of `BatchQueue` shows, and any split is allowed here.
* `SharedConfig`: two sessions overlap; a third would only be another reader.  Two functions
  are needed to see a rewrite lose an entry it is not about, two types for a set over a set.  Three calls allow two
  overlapping changes and one that meets their result.
* `SessionTrace`: two queries are one inside the other or two in turn; they are symmetric.  Four frames are a query,
  its node, a query called there and a node of that, or a `FETCH` with its execution, a node and a nested start.
  Five storages are what four frames can push and one for the session; no error is raised beyond.  All features at once
  would be too many states, so `MCSessions` lists the combinations in which features touch the same
  state: restarts with signals, with failing starts, with the exit callback, with waits; the limit of the file; the
  parser's and planner's data, and rewound cursors, with every kind of execution.  Errors are in all of them.
* `MaxExits` stands for `MAX_ON_EXITS` (20) less the callbacks that PostgreSQL and other libraries register.  Two let a
  second trace follow the first and a third be FATAL; no slot is ever given back, so more of them only repeat the second.
* `RaiseLimit` happens once in a session: later ones meet the same states.
* `MaxSent`, `MaxCalls`, `MaxOps` and `MaxAborts` are the only bounds on counters, each in the guard of the
  action that starts something new or cuts it short.  Timed sends, connections and disconnections are not bounded.

## 4. Fairness

* Weak fairness of the steps of a process inside `MessageBufferPut` or `MessageBufferGet`: a
  running process goes on.
* Strong fairness of `Acquire`: an LWLock has a queue of waiters, so a process that wants a lock which is
  released again and again gets it.  `LWLockRelease` lets others barge in, so this is what the queue gives in practice, not a promise.
* Weak fairness of the collector's loop (`CallGet`, `Take`, `TakeBatch`, `Process`): the loop has no
  other exit than SIGTERM.
* Weak fairness of `BackendStep`: a session goes on inside a function.
* No fairness for anything a user or an administrator starts: calls of traced functions, SQL functions,
  cancelled queries, connections, the end of the server.  In particular `Drained` and `PutReturns` do not assume
  that the collector is ever stopped nor that it is not.

`AnswerComes` excludes a collector that is stopped: a request in the buffer is then never
answered (`WaitLatch` has no timeout, `pg_uprobe.c:691`), and the session waits until it is
cancelled or terminated.  The same happens to a request in the batch of a collector that fails; the run has no
failures (`CanFail` is false), so `AnswerComes` says nothing about them.

`SharedConfig` and `SessionTrace` state safety only.  Nobody waits in them: a session goes on or ends when its client
or PostgreSQL says so, and a file is left unclosed exactly as long as an execution stays on the stack.

## 5. What is proved

### The message buffer

`MessageBufferProofs` proves for *any* set of senders, sizes, arrays and number of messages that satisfy
`MessageBufferAssumption`:

| theorem | statement |
|---|---|
| `Invariance` | `Spec => []IInv` |
| `TypeCorrect` | `Spec => []TypeOK` |
| `Exclusion` | `Spec => []LockDiscipline`: messages are moved by the holder of the lock only |
| `NoWakeupLost` | `Spec => []NoLostWakeup`: no process sleeps on a condition that is true unless a broadcast is on its way |
| `LayoutInvariance` | `Spec => []LInv` |
| `LayoutIsKept` | `Spec => []BufferLayout`: a walk by sizes finds the messages |
| `StaysInBounds` | `Spec => []InBounds` |
| `NamesPrecede` | `Spec => []Attribution` |
| `Refinement` | `Spec => ImplementsQueue`, the specification of `BatchQueue` |

The inductive invariant is `IInv == TypeOK /\ LockDiscipline /\ GoneInv /\ CountInv /\ WakeInv`.

* `TypeOK` alone is not inductive: `Take` writes the number of messages that remain, which is
  a natural number only if `numMessages` counts what is in the memory.  That is `CountInv`, which
  needs `LockDiscipline` (nobody else is between moving messages and publishing their number) and holds
  only until the buffer is deleted.  `GoneInv` connects `deleted` with the state of the collector.
* `NoLostWakeup` speaks of a process that sleeps.  `WakeInv` follows it back to where the
  decision to sleep was made: the counter value it decided on still asks it to sleep, or
  somebody is about to broadcast.  This is where the order in `EndMessageBufferOperation` (publish, release, broadcast) and
  `ConditionVariablePrepareToSleep` before the first read are used.

Each conjunct has one lemma `...Step` with one step per action of `Next`.  The only assumption is the one on the constants.  Its last conjunct
(a symbol and any message fit in the head-room) is the code's relation between
`MESSAGE_BUFFER_EMPTY_SPACE_WAIT`, the length of a symbol name and the sizes of the messages.

What lies in the memory is said by `LInv == IInv /\ ArrayInv /\ EntryInv /\ SpaceInv /\ Attribution`.

* `ArrayInv`: what a sender still has to send is laid out like an array, and each message fits into the room it waits for.
  This is kept when the caller moves the rest of the array to its start.
* `EntryInv`: between the second look at the counter, with the lock, and the copying nobody changes the free
  space, so the room a sender was let in for is still there, and the symbol and at least one message are stored.
* `SpaceInv`: the messages are back to back and the free space, or the value about to be published, is
  what they leave.  Like `CountInv` it holds until the buffer is deleted.

The lemmas about `Contiguous` say when a sequence of addressed messages is back to back: its first is at 0 and each next
one at the end of the one before, which spares induction over sequences.  The refinement is proved step by step
(`QueueStep`): `Store` puts the non-empty prefix that fits, `Take` takes from the front, all other steps stutter.

### The shared config

`SharedConfigProofs`, for any sessions, functions, types and number of calls:

| theorem | statement |
|---|---|
| `Invariance` | `Spec => []IInv` |
| `TypeCorrect` | `Spec => []TypeOK` |
| `NoEntryLost` | `Spec => []NothingLost` |
| `NoEntryInvented` | `Spec => []Asked` |
| `Refinement` | `Spec => IsMap`, the specification of `ConfigMap` |

The inductive invariant is `IInv == TypeOK /\ NothingLost /\ Asked /\ HonestWrites`.  `Asked` looks at the file and the
lists of the sessions; a session between reading and `fopen` already carries an entry that becomes "asked for"
only when it is written.  `HonestWrites` says that this is the only such entry, and that a
session which adds or undoes has had its own entry written.  The assumptions used are those of `SharedConfig`: "no
probe" is not a type, and a missing file is not a config.

### The session trace

`SessionTraceProofs` and `SessionTraceDocumentProofs` prove for any queries, any depth of the stack and any combination of features:

| theorem | statement |
|---|---|
| `Invariance`, `StackInvariance`, `DocumentInvariance` | `Spec => []IInv`, `Spec => []Inv`, `Spec => []DocumentInv` |
| `NoHookLeft` | `Spec => []HooksHaveState` |
| `LevelIsDepth` | `Spec => []NestLevelIsDepth` |
| `FileGetsClosed` | `Spec => []FileIsClosed` |
| `StatesAreKnown` | `Spec => []NoFreedState` |
| `StatesFollowCalls` | `Spec => []CurrentStateIsInnermost` |
| `StoragesFollowCalls` | `Spec => []StorageForEachFrame` |
| `TracedSessionSurvives` | `Spec => []SessionSurvives` |
| `DocumentIsWellFormed` | `Spec => []WellFormed` |
| `ClosedDocumentIsComplete` | `Spec => []ClosedIsComplete` |
| `TypesAreRight` | `Spec => []TypeOK` |

The inductive invariant is `IInv == ControlType /\ Idle /\ HooksHaveState /\ NestLevelIsDepth /\ FileInv`.

* `HooksHaveState` needs `Idle` (without a trace there is no current state, so nothing is hooked by the probe on
  `ExecInitExpr`).
* `NestLevelIsDepth` counts frames.  The lemmas about the stack say how the set of traced executions changes when a
  frame is appended or taken off and that orphaning the frames does not change it, for which
  `ControlType` has to know that a frame that only fires triggers is never traced.
* `FileIsClosed` speaks of frames, the code of the level: `FileInv` is the same with `nestLevel = 0`, and the two are
  connected by `NestLevelIsDepth`.

`ControlType` is the part of `TypeOK` that the argument needs; the whole of it is proved at the end, from everything else.

`Inv` adds what connects the list and the stack of states, the storages and the map of wait events with the frames:

* `FrameInv` says which frames may lie above which.  Only frames of this trace are live, they are
  above all that were traced before; a node is right above an execution of its query (`NodesOfExecution`); a query with a state
  has live frames only (`StatesLive`), so that its state is freed when no frame needs it.  `OldQueries` and `Restarts` say
  that what `SessionSurvives` excepts was recorded before it can do harm.
* `StackInv`: the k-th saved state is the one that the k-th live execution or start found.  From this and `FrameInv`
  follow `NoFreedState` and `CurrentStateIsInnermost`, that a hook finds its node, and that `AfterExecution` finds a
  current state or one of the causes (`CrashHasCause`).
* `StorageInv` counts the storages that the frames hold, and the orphans.
* `WaitInv`: `currentWaitEvent` points to something only after a semaphore wait.

What a step does to the frames is one of five things: it passes, begins a trace, ends a trace, pushes or pops a frame
(`FrameEffects`).  Each invariant has one lemma for each of them.

That only a start without a free slot is FATAL follows from `ExitsInv`: never more slots are taken than there are.

`DocumentInv` adds the document and the types that are left.  Neither `WellFormed` nor `ClosedIsComplete` is inductive: that a
bracket matches depends on which brackets are open, and that on how many executions are on the stack.

* `DocInv` says it.  While nothing disturbs the document (`Undisturbed`) and the size limit is not reached, the
  brackets that are open are `Nest(nestLevel)`: the file with its list of queries, and an object and a list of events for each
  traced execution.  `isFirstNodeCall`, which decides about the comma, is true only after a bracket; if it is false there,
  it is the second trace of the session and no execution is on the stack.
* What is written is a fold over the tokens.  `WriteSteps` to `WriteJoined` turn the fold into one document after each token, by
  the function that the library defines the fold by; `Token` is a finite set, and the documents before
  and after each token are known (`ReadOutside`, `ReadInside`, `ReadEnd`).  From these follows what each group of tokens that the
  code prints does: `WriteFirst` for `BeforeExecution`, `WriteEnding` and `WriteStopped` for `AfterExecution`, `WriteEvent`, `WriteClosing`.
* The exit callback closes as many levels as there are: `FlattenSeq` of `nestLevel` copies of the same two tokens.  `WriteUnwound`
  is shown for any level by induction (`SetInduction`).
* A document cut off at the size limit has the brackets of none of these, but nothing out of place: each token keeps a document
  that is not in order as it is (`ReadType`), so if all of it is in order, so is its beginning (`PrintedType`).
* That a node or an expression prints into a list of events needs an execution below it that is traced: `NodesOfExecution` and `LevelOfStack`.
* `TypeOK` follows from the other invariants: `nestLevel` from the frames it counts (`LevelBound`), `orphans` from
  `StorageInv`, which counts the storages while the session is traced, and from `Forgotten` when it is not.

### The shared probes

`SharedUprobesProofs`, `SharedUprobesCountProofs` and `SharedUprobesOrderProofs` prove for any sessions, functions and types, any
number of calls and any use of the SQL functions, with all faults:

| theorem | statement |
|---|---|
| `Invariance` | `Spec => []IInv` |
| `TypesAreKept` | `Spec => []TypeOK` |
| `StorageIsLive` | `Spec => []NoUseAfterFree` |
| `CallsAreConserved` | `Spec => []Conservation` |
| `NothingIsDropped` | `Spec => []NothingDropped` |
| `ReportsAreComplete` | `Spec => []ReportIsComplete` |
| `StoragesFollowConfig` | `OneAdmin` implies `Spec => []StorageForEachEntry` |
| `DataFitTheirStorage` | `OneAdmin` implies `Spec => []DataFitsUnlessDeleted` |

The inductive invariant is `IInv == SessionInv /\ CollectorInv /\ HistoryType`.

* `OpInv`, in `SessionInv`, says what a session is doing by the place it is at: which function, on which probe, and that each
  shared probe either is still to be sent or has counted nothing since.  The last is why a `dump` or a timed send
  leaves nothing behind.
* `PairInv`, in `CollectorInv`, says that names and messages alternate: each message in queue and batch follows a name, and a
  batch begins with one or its first message belongs to the symbol the collector has just looked up (`Fresh`).  So
  `currentStorage` never is a storage that was freed.
* `IdleWorker`: between a collector that failed and its successor there is neither batch nor storage.

The other properties need further invariants, each proved with `IInv`:

* *Conservation.*  `Amount` is the sum of what the messages of one session for one symbol account for.  `Conserved` are
  the books: calls are what the probe holds, what is under way (queue and batch, read from the current symbol) and what the
  collector knows.  Each step moves an amount from one column to the next.
* *Nothing dropped.*  `Announced` holds for a symbol while no probe on it was deleted and no function cut short: there is a
  storage, or a message that makes one is ahead of all data.  It covers a failed collector as well, whose
  successor makes its storages from the config.
* *Complete reports.*  `Asked`: behind each message with data of a session that waits there is a request of that session.
* *Storages and config.*  `Aligned`: what the last announcement or deletion under way makes of the storage is what the config
  has, or what the session about to write it will make of it.  A rewrite that fails changes other entries too: `Unhurt` and `NotAstray`
  say that the entry of a symbol that is not marked afterwards is the one it had, or the one it was to get.
* *Types.*  `KindsFit`: while a symbol is undisturbed, all probes and messages with data on it have the type the config has.

The last two properties do not hold with two sessions that set and delete the same probe at the same time: each sees its own
copy of the truth.  `OneAdmin == \A a, b \in Admins : a = b` says that at most one does; sessions that count, dump, send, are
cancelled and leave may be any number.  The runs use the same assumption (`Admins` has one member).  The other
theorems hold for any `Admins`.  The assumption on the constants is that of `SharedUprobes`; the sets of sessions and
symbols are finite there, which the sums need.

`SetInduction` has what the sums need.  The library's induction theorems take a predicate as a parameter, which the
provers cannot instantiate; the same theorems with a *set* in place of the predicate follow from well-foundedness of the
natural numbers.  With them the fold of a function by `+` is shown to be a sum: it does not depend on the order, and can be
split, changed at one place and compared.

### What is only model-checked

Every invariant and both refinements that the passing runs check are proved, two of them (see above) for one session that
sets and deletes probes, as in the runs.
Liveness under fairness and `ENABLED` are outside what TLAPS can prove, so `PutReturns`, `Drained` and
`AnswerComes` stay with TLC.

## 6. Disagreements between code and comments

* `written_on_return`: a comment at `pg_uprobe.c:690` and `uprobe_message_buffer.h:46` say that the latch is set when the
  data are written.  The condition variable of the buffer sets the same latch, so
  `dump_uprobe_stat` may return before the collector came to its request.
* `own_data_reported`: `delete_uprobe` frees the probe of its own session, with what it
  counted, *before* it "sends data that our process has" (`pg_uprobe.c:461-470`).
* `data_fits`: messages with data carry no type.  After a delete in one session and a set
  with another type, a session that still has the old probe sends its messages into the
  new storage.

* `second_trace_is_json`: `doc/trace_session.md:75-84` shows the trace file as a JSON object whose `queries` is an array of
  objects.  `isFirstNodeCall` is left false by every traced execution and not set at start, so the list of the
  second trace of a session begins with a comma.

`DataFitsUnlessDeleted` and `NothingDropped` say in which histories these things do not happen.

No text of the repository speaks of the following, so there is no run that expects them, but the passing
runs need them as exceptions (`causes` of `SessionTrace`, `trouble` of `SharedConfig`), and dropping one shows the history:

* a cursor opened before the trace and fetched under it crashes the session;
* so does a trace stopped and started again inside a traced execution, when this returns;
* a start that fails after an earlier trace may free the array of wait-event probes twice;
* `stop_session_trace` as a statement of its own, when nothing traced is on the stack, leaves the file open and unfinished;
* `currentWaitEvent` may point into a freed map after a semaphore wait;
* an error that passes a node, the parser or the planner leaves its storage on the list, and later locks are counted for the
  wrong frame until the trace ends;
* entries of the config are lost when two changes overlap, the disk is full or a backend crashes between `fopen` and `fclose`,
  and all but one when the file cannot be read; `fclose` is not asked whether it could write (`uprobe_shared_config.c:30`).
  From then on the collector has storages the config does not know;
* a raised limit lets the trace file go on in the wrong place;
* a traced cursor with a `LIMIT` that is rewound outside of `FETCH` crashes the session, or has its `LIMIT` read as NULL inside another
  traced query: `TraceExprNodeHook` follows `currentState` (`trace_execute_nodes.c:294`) before it asks `isExecuteTime` (line 308).  With tracing on,
  `DECLARE c SCROLL CURSOR WITH HOLD FOR SELECT ... LIMIT 5; COMMIT` does it;
* every start of a trace takes one of the slots of `on_proc_exit` (`trace_session.c:298`) for the rest of the session, and the start that finds
  none is FATAL.

## 7. Abstractions and what is left out

* Latches set for reasons other than the buffer and the collector (signals, timeouts of the server) are
  left out; they can only make `WaitLatch` return earlier, which `written_on_return` shows
  to be possible already.
* Times and values are not modelled; a message carries how many calls it accounts for.
* Files of statistics and of the trace either can be opened or not.  A write of the config that fails leaves an empty file, with or
  without an error to the caller; a part of it is not left, as it fits into one buffer of stdio.
* `SharedUprobes` takes a change of the config as one step and lets one session make them (`Admins` has one
  member).  The steps of a change, and two at once, are in `SharedConfig`, which in turn leaves out the collector.
* A config larger than one buffer of stdio reaches the file in parts, and a reader may see a part of it, which does not
  parse: for `set_uprobe` this is the failing read of `SharedConfig`.
* `MessageBufferPut` copies four bytes past the end of the symbol (`uprobe_message_buffer.c:130`); the message that follows overwrites them,
  and the model has no such bytes.
* `GiveUp` of `BatchQueue` may happen at any time; when a put may be cancelled is in `MessageBuffer`.
* A map of the collector or of a probe that cannot grow for want of memory drops what it was to count.  That is not among the drops of
  `NothingDropped`; the model's maps always have room.
* The collector fails between two messages, not in the middle of one.
* `list_uprobes` and the `stat_*_uprobe` functions only read and are not modelled.
* `start_lockmanager_trace` passes a type `LOCK_AQUIRE` (`pg_uprobe.c:757`) that
  the factory knows as `LOCK_ACQUIRE` (`uprobe_factory.c:43`); the function therefore always fails, and its probe is not
  part of the model.
* Attachment (Frida) and JSON conversion: calls into a library and a pure conversion without state.
* `WellFormed` and `ClosedIsComplete` speak of structure.  The values are left out, with what may be wrong in them: `boundParams` is written
  without escaping (`trace_planning.c:179-180`).
* The trace file in text format: the same hooks print other words, and nothing has to match.
* What is printed: taking apart the output of `explain` (`ProcessDescBeforeExec` and the walkers that put times into the
  plan), the counters of locks, wait events and buffers.
* An error in `explain` inside `BeforeExecution`, before `PG_TRY`, which leaves the pushed state and an open object
  (`trace_session.c:156`).
* Probes on functions that a timed send itself calls (`count_uprobes.c:427`), and the bins of a histogram, which are a pure
  computation of a report.
* The map of lock waits in `lockmanager_trace.c` has the life of the HIST map, but its probe cannot be set (see above).

## 8. Plan

Done: `BatchQueue`, `MessageBuffer`, `MessageBufferProofs`; `StatCollector`, `SharedUprobes`, `SharedUprobesProofs`,
`SharedUprobesCountProofs`, `SharedUprobesOrderProofs`, `SetInduction`; `ConfigMap`, `SharedConfig`, `SharedConfigProofs`;
`TraceDocument`, `ExecuteNodes`, `TraceStatistics`, `SessionTrace`, `SessionTraceProofs`, `SessionTraceDocumentProofs`.

Left to model, in this order:

1. An error in `BeforeExecution`.
2. `HistBins` and `LinkedList`: bins at the borders of the histogram against a reference definition; links of the
   list against a sequence.
