----------------------------- MODULE SessionTrace -----------------------------
(***************************************************************************)
(* The trace of one session (trace_session.c): start and stop, by SQL      *)
(* function or by signal, the executor and utility hooks, the node and     *)
(* expression hooks of ExecuteNodes, and the trace file.                   *)
(*                                                                         *)
(* The session is sequential; what varies is the order of its calls.       *)
(* frames is its C stack as far as the trace has to do with it: one frame  *)
(* for each executor call and each hooked node or expression.  Functions   *)
(* called by a node may run further queries, start and stop the trace, or  *)
(* raise an error, which unwinds frames until somebody catches it.         *)
(***************************************************************************)
EXTENDS ExecuteNodes, TraceStatistics, TraceDocument, FiniteSets

CONSTANTS
    MaxDepth,       \* bound: frames on the stack
    MaxStorages,    \* bound: storages, no error is raised beyond it
    MaxExits,       \* the slots for exit callbacks the server leaves to the trace
    Sessions        \* bound: the sets of features one session uses together

Features == {"restart", "signal", "fetch", "finish", "error", "plan", "waits", "badstart",
             "exit", "limit", "rewind"}

ASSUME SessionTraceAssumption ==
    /\ MaxDepth \in Nat
    /\ MaxStorages \in Nat
    /\ MaxExits \in Nat
    /\ Sessions \subseteq SUBSET Features

VARIABLES
    tracing,        \* uprobesList is not NULL: probes attached and hooks installed
    context,        \* traceMemoryContext is not NULL
    perNode,        \* traceLWlocksForEachNode, as it was at start
    attached,       \* attachedUprobes is not NULL
    exits,          \* exit callbacks registered, never to be removed
    isExecuteTime, isFirstNodeCall, nestLevel,
    file,           \* traceFile: "closed" or "open"
    doc,            \* what the file of the last trace holds
    pending,        \* the signals not yet looked at
    open,           \* queries between ExecutorStart and ExecutorEnd
    frames, raised, \* the stack; an error is under way
    outcome,        \* "ok", or how the session ended
    orphans,        \* storages left on the list by errors
    causes,         \* circumstances the properties have to except
    features        \* what this session does

trace   == <<tracing, context, perNode, attached, exits>>
writing == <<isExecuteTime, isFirstNodeCall, nestLevel, file, doc>>
control == <<frames, raised, outcome>>
history == <<orphans, causes, features>>
vars == <<nodes, statistics, trace, writing, pending, open, control, history>>

Executing == {"run", "fetch", "finish"}

TypeOK ==
    /\ NodesTypeOK
    /\ StatisticsTypeOK
    /\ {tracing, context, perNode, attached, isExecuteTime, isFirstNodeCall, raised}
          \subseteq BOOLEAN
    /\ exits \in 0 .. MaxExits
    /\ nestLevel \in 0 .. MaxDepth
    /\ file \in {"closed", "open"}
    /\ doc \in Document
    /\ pending \subseteq {"start", "stop"}
    /\ open \subseteq Queries
    /\ frames \in Seq([kind : Executing \cup {"start", "triggers", "node", "expr"},
                       query : Queries, traced : BOOLEAN, live : BOOLEAN])
    /\ outcome \in {"ok", "exited", "fatal", "crashed", "wrong result", "wild write"}
    /\ orphans \in 0 .. storages
    /\ causes \subseteq {"again", "restarted", "old query", "stopped outside", "slept",
                         "failed start", "limit raised", "rewound", "slots"}
    /\ features \in Sessions

Init ==
    /\ NodesInit
    /\ StatisticsInit
    /\ tracing = FALSE /\ context = FALSE /\ attached = FALSE
    /\ perNode = TRUE /\ exits = 0
    /\ isExecuteTime = FALSE /\ isFirstNodeCall = TRUE /\ nestLevel = 0
    /\ file = "closed" /\ doc = NoDocument
    /\ pending = {}
    /\ open = {}
    /\ frames = <<>> /\ raised = FALSE /\ outcome = "ok"
    /\ orphans = 0 /\ causes = {}
    /\ features \in Sessions

-----------------------------------------------------------------------------
\* The stack.

Top == Last(frames)
\* live: entered under the trace that is on now; such a frame has a state and a storage.
Frame(kind, q, hook) == [kind |-> kind, query |-> q, traced |-> hook, live |-> hook]
Enter(f) == frames' = Append(frames, f)
Leave    == frames' = Front(frames)
Orphaned == [i \in DOMAIN frames |-> [frames[i] EXCEPT !.live = FALSE]]

\* Code outside the trace runs: a client's command or a function called by the top frame.
Calling   == outcome = "ok" /\ ~raised /\ (frames # <<>> => Top.kind # "fetch")
Returning == outcome = "ok" /\ ~raised /\ frames # <<>>
Unwinding == outcome = "ok" /\ raised /\ frames # <<>>
OnStack(q)  == \E i \in DOMAIN frames : frames[i].query = q
RoomToCall  == Len(frames) < MaxDepth
\* The plan of the top frame's query is being executed.
InPlan == frames # <<>> /\ Top.kind \in {"run", "finish", "node", "expr"}
\* So are its expressions, and the LIMIT of a plan that FETCH rewinds.
Evaluating == InPlan \/ (frames # <<>> /\ Top.kind = "fetch")

\* An error with an empty stack is reported to the client and over.
Raise  == storages < MaxStorages /\ raised' = (frames # <<>>)
Ends(how) == outcome' = how
Because(c) == causes' = causes \cup {c}

\* What is printed without a file is lost.
TracePrintf(tokens) ==
    doc' \in IF file = "open" THEN Printed(doc, tokens, "limit" \in features) ELSE {doc}

-----------------------------------------------------------------------------
\* Start and stop.

\* OpenTraceSessionFile and the head of the document.
OpenTraceSessionFile ==
    /\ file' = "open"
    /\ doc' = Write(NoDocument, <<"file">>)

\* What the exit callback prints: the end of each level, then of the file.
ClosingTail == FlattenSeq([i \in 1 .. nestLevel |-> <<"]", "}">>]) \o <<"]", "}">>

\* on_proc_exit takes a slot for good.  Without one left it is FATAL: the callbacks
\* of the earlier starts end the file, which has no head yet.
StartSucceeds ==
    /\ tracing' = TRUE
    /\ context' = TRUE
    /\ attached' = TRUE
    /\ perNode' \in BOOLEAN
    /\ ExecutorTraceUprobesGet
    /\ storages' = StoragesAtStart
    /\ waitEvent' = TraceWaitEventsUprobesGet(waitEvent)
    /\ orphans' = 0
    /\ causes' = causes \cup (IF isFirstNodeCall THEN {} ELSE {"again"})
                        \cup (IF nestLevel > 0 THEN {"restarted"} ELSE {})
                        \cup (IF exits < MaxExits THEN {} ELSE {"slots"})
    /\ IF exits < MaxExits
       THEN /\ exits' = exits + 1
            /\ OpenTraceSessionFile
            /\ UNCHANGED outcome
       ELSE /\ file' = "closed"
            /\ doc' = Write(NoDocument, ClosingTail)
            /\ Ends("fatal")
            /\ UNCHANGED exits
    /\ UNCHANGED <<kept, isExecuteTime, isFirstNodeCall, nestLevel, frames, features>>

\* The file cannot be opened: the memory context stays.
StartCannotOpen ==
    /\ context' = TRUE
    /\ file' = "closed"
    /\ causes' = causes \cup (IF nestLevel > 0 THEN {"restarted"} ELSE {})
    /\ UNCHANGED <<nodes, statistics, tracing, perNode, attached, exits, isExecuteTime,
                   isFirstNodeCall, nestLevel, doc, frames, outcome, orphans, features>>

\* A probe cannot be set: what was set is deleted and the file closed.
\* TraceWaitEventsUprobesClean frees the array of this start or, if it came to none,
\* once more the one of an earlier start.
StartCannotAttach ==
    /\ context' = FALSE
    /\ file' = "closed"
    /\ doc' = NoDocument
    /\ ExecutorTraceUprobesGet
    /\ storages' \in {0, StoragesAtStart}
    /\ orphans' = 0
    /\ \/ /\ attached' = TRUE
          /\ waitEvent' = TraceWaitEventsUprobesGet(waitEvent)
          /\ UNCHANGED <<outcome, causes>>
       \/ /\ waitEvent' = (IF attached THEN TraceWaitEventsClearStat(waitEvent)
                                       ELSE waitEvent)
          /\ \/ UNCHANGED <<outcome, causes>>
             \/ attached /\ Ends("crashed") /\ Because("failed start")
          /\ UNCHANGED attached
    /\ UNCHANGED <<kept, tracing, perNode, exits, isExecuteTime, isFirstNodeCall, nestLevel,
                   frames, features>>

SessionTraceStart(ok) ==
    IF tracing
    THEN /\ ~ok
         /\ UNCHANGED <<nodes, statistics, trace, writing, frames, outcome, history>>
    ELSE IF ok THEN StartSucceeds
    ELSE "badstart" \in features /\ (StartCannotOpen \/ StartCannotAttach)

\* The file is closed here, or by the outermost traced execution that is on the stack.
SessionTraceStop(closeFile, ok) ==
    /\ ok = tracing
    /\ IF tracing
       THEN /\ tracing' = FALSE
            /\ context' = FALSE
            /\ ExecuteNodesStateClean
            /\ storages' = 0
            /\ ClearData
            /\ TracePrintf(IF closeFile THEN <<"]", "}">> ELSE <<>>)
            /\ file' = IF closeFile THEN "closed" ELSE file
            /\ frames' = Orphaned
            /\ orphans' = 0
            /\ causes' = IF closeFile \/ nestLevel > 0 THEN causes
                         ELSE causes \cup {"stopped outside"}
            /\ UNCHANGED <<waitEvent, perNode, attached, exits, isExecuteTime,
                           isFirstNodeCall, nestLevel, outcome, features>>
       ELSE UNCHANGED <<nodes, statistics, trace, writing, frames, outcome, history>>

\* The SQL functions: a failing one raises its error.
start_session_trace(ok) ==
    /\ Calling
    /\ SessionTraceStart(ok)
    /\ IF ok THEN UNCHANGED raised ELSE Raise
    /\ "restart" \notin features => ~tracing /\ doc = NoDocument
    /\ UNCHANGED <<pending, open>>

stop_session_trace(ok) ==
    /\ Calling
    /\ SessionTraceStop(FALSE, ok)
    /\ IF ok THEN UNCHANGED raised ELSE Raise
    /\ UNCHANGED <<pending, open>>

\* A signal sets its flag; one that is set already is not counted.
SigHandler(s) ==
    /\ "signal" \in features
    /\ outcome = "ok"
    /\ s \notin pending
    /\ pending' = pending \cup {s}
    /\ UNCHANGED <<nodes, statistics, trace, writing, open, control, history>>

\* The probe on ReadyForQuery: first a start, then a stop; errors are only logged.
StartPending(ok) ==
    /\ Calling /\ frames = <<>>
    /\ "start" \in pending
    /\ pending' = pending \ {"start"}
    /\ SessionTraceStart(ok)
    /\ "restart" \notin features => ~tracing /\ doc = NoDocument
    /\ UNCHANGED <<open, raised>>

StopPending(ok) ==
    /\ Calling /\ frames = <<>>
    /\ pending = {"stop"}
    /\ pending' = {}
    /\ SessionTraceStop(TRUE, ok)
    /\ UNCHANGED <<open, raised>>

-----------------------------------------------------------------------------
\* The executor hooks.

\* Prints explain, a member, and takes its parts for the nodes.
ProcessDescBeforeExec(q) == InitExecutorNodes(q)

\* Mutant: the list of events begins without regard to the query around it.
BeforeExecutionKeepsFirst(q) ==
    /\ storages' = LockOnBuffersTraceStatPush(storages)
    /\ waitEvent' = TraceWaitEventsClearStat(waitEvent)
    /\ ExecuteNodesStatePush(q)
    /\ ProcessDescBeforeExec(q)
    /\ TracePrintf((IF isFirstNodeCall THEN <<>> ELSE <<",">>)
             \o << "{", "member", ",", "member", ",", "[" >>)
    /\ kept' = PlanningWriteData(ParsingWriteData(kept))
    /\ isExecuteTime' = TRUE
    /\ UNCHANGED isFirstNodeCall

\* What the three hooks do before they call the original function.  The members
\* are the parsing and planning data, executionStart and explain.
BeforeExecution(q) ==
    /\ storages' = LockOnBuffersTraceStatPush(storages)
    /\ waitEvent' = TraceWaitEventsClearStat(waitEvent)
    /\ ExecuteNodesStatePush(q)
    /\ ProcessDescBeforeExec(q)
    /\ TracePrintf((IF isFirstNodeCall THEN <<>> ELSE <<",">>)
             \o << "{", "member", ",", "member", ",", "[" >>)
    /\ kept' = PlanningWriteData(ParsingWriteData(kept))
    /\ isExecuteTime' = TRUE
    /\ isFirstNodeCall' = TRUE

\* Mutant: the level is not raised.
ExecuteUncounted(kind, q, hook) ==
    /\ Enter(Frame(kind, q, hook))
    /\ IF hook THEN BeforeExecution(q)
       ELSE UNCHANGED <<nodes, statistics, isExecuteTime, isFirstNodeCall, doc>>
    /\ UNCHANGED <<trace, file, nestLevel, pending, open, raised, outcome, history>>

\* The body of the three hooks up to the call of the original function.
Execute(kind, q, hook) ==
    /\ Enter(Frame(kind, q, hook))
    /\ IF hook
       THEN /\ BeforeExecution(q)
            /\ nestLevel' = nestLevel + 1
            /\ causes' = IF states[q] = NoState THEN causes \cup {"old query"} ELSE causes
       ELSE UNCHANGED <<nodes, statistics, isExecuteTime, isFirstNodeCall, nestLevel, doc,
                        causes>>
    /\ UNCHANGED <<trace, file, pending, open, raised, outcome, orphans, features>>

\* ExecutorRun of a query or a portal, also the one inside FETCH.
ExecutorRun(q) ==
    /\ RoomToCall
    /\ q \in open
    /\ \/ Calling /\ ~OnStack(q)
       \/ Returning /\ Top.kind = "fetch" /\ Top.query = q
    /\ Execute("run", q, tracing)

\* ExecutorFinish: traced when it executes plan nodes, that is for data-modifying
\* WITH clauses; otherwise only triggers are fired.
ExecutorFinish(q, auxModifyTables) ==
    /\ "finish" \in features
    /\ RoomToCall
    /\ Calling
    /\ q \in open /\ ~OnStack(q)
    /\ IF auxModifyTables THEN Execute("finish", q, tracing)
                          ELSE Execute("triggers", q, FALSE)

\* ProcessUtility: FETCH from a portal is traced around the execution in it.
ProcessUtility(q) ==
    /\ "fetch" \in features
    /\ RoomToCall
    /\ Calling
    /\ q \in open /\ ~OnStack(q)
    /\ Execute("fetch", q, tracing)

\* The plan with its statistics, and the expressions.
ExecutorTraceDumpAndClearStat == <<",", "member", ",", "member">>

\* Mutant: the level is compared as it was during the execution.
AfterExecutionLate ==
    IF ~context
    THEN /\ TracePrintf(<<"]", ",", "member", "}">>)
         /\ UNCHANGED <<currentState, stateStack, statistics, file, outcome>>
    ELSE IF currentState = NoState
    THEN /\ Ends("crashed")
         /\ UNCHANGED <<currentState, stateStack, statistics, file, doc>>
    ELSE /\ TracePrintf(<<"]", ",", "member">> \o ExecutorTraceDumpAndClearStat \o <<"}">>)
         /\ ExecuteNodesStatePop
         /\ storages' = WrittenAndCleaned(LockOnBuffersTraceStatPop(storages))
         /\ waitEvent' = TraceWaitEventDumpStat(waitEvent)
         /\ UNCHANGED <<kept, file, outcome>>

\* AfterExecution, after the end of the events and the execution time.  Without a
\* context the trace was stopped inside; the outermost execution closes the file.
AfterExecution ==
    IF ~context
    THEN /\ TracePrintf(<<"]", ",", "member", "}">>
                  \o IF nestLevel = 1 THEN <<"]", "}">> ELSE <<>>)
         /\ file' = IF nestLevel = 1 THEN "closed" ELSE file
         /\ UNCHANGED <<currentState, stateStack, statistics, outcome>>
    ELSE IF currentState = NoState
    THEN /\ Ends("crashed")
         /\ UNCHANGED <<currentState, stateStack, statistics, file, doc>>
    ELSE /\ TracePrintf(<<"]", ",", "member">> \o ExecutorTraceDumpAndClearStat \o <<"}">>)
         /\ ExecuteNodesStatePop
         /\ storages' = WrittenAndCleaned(LockOnBuffersTraceStatPop(storages))
         /\ waitEvent' = TraceWaitEventDumpStat(waitEvent)
         /\ UNCHANGED <<kept, file, outcome>>

\* Mutant: the level is lowered on the normal way out only.
FinallyOnReturn ==
    IF Top.traced
    THEN /\ nestLevel' = IF raised THEN nestLevel ELSE nestLevel - 1
         /\ isExecuteTime' = FALSE
         /\ isFirstNodeCall' = FALSE
         /\ AfterExecution
    ELSE UNCHANGED <<currentState, stateStack, statistics, writing, outcome>>

\* PG_FINALLY of the three hooks.
Finally ==
    IF Top.traced
    THEN /\ nestLevel' = nestLevel - 1
         /\ isExecuteTime' = FALSE
         /\ isFirstNodeCall' = FALSE
         /\ AfterExecution
    ELSE UNCHANGED <<currentState, stateStack, statistics, writing, outcome>>

ReturnFromExecution ==
    /\ Returning
    /\ Top.kind \in Executing \cup {"triggers"}
    /\ Finally
    /\ Leave
    /\ UNCHANGED <<states, hooked, trace, pending, open, raised, history>>

\* An error passes an execution; the query it belongs to is given up, its memory
\* freed and its state deleted, when no other frame belongs to it.
UnwindExecution ==
    /\ Unwinding
    /\ Top.kind \in Executing \cup {"triggers"}
    /\ Finally
    /\ Leave
    /\ IF \E i \in 1 .. Len(frames) - 1 : frames[i].query = Top.query
       THEN UNCHANGED <<states, hooked, open>>
       ELSE /\ open' = open \ {Top.query}
            /\ ExecuteNodesStateDelete(Top.query)
    /\ UNCHANGED <<trace, pending, raised, history>>

ExecutorStart(q) ==
    /\ RoomToCall
    /\ Calling
    /\ q \notin open /\ ~OnStack(q)
    /\ Enter(Frame("start", q, tracing))
    /\ IF tracing THEN ExecuteNodesStateNew(q) ELSE UNCHANGED nodes
    /\ UNCHANGED <<statistics, trace, writing, pending, open, raised, outcome, history>>

ReturnFromStart ==
    /\ Returning
    /\ Top.kind = "start"
    /\ open' = open \cup {Top.query}
    /\ IF Top.traced
       THEN ExecInitExprRetFunc(Top.query) /\ ExecuteNodesStatePop
       ELSE UNCHANGED <<currentState, stateStack, hooked>>
    /\ Leave
    /\ UNCHANGED <<states, statistics, trace, writing, pending, raised, outcome, history>>

\* Mutant: the state is deleted but not taken off.
UnwindStartWithoutPop ==
    /\ Unwinding
    /\ Top.kind = "start"
    /\ IF Top.traced THEN ExecuteNodesStateDelete(Top.query) ELSE UNCHANGED <<states, hooked>>
    /\ Leave
    /\ UNCHANGED <<currentState, stateStack, statistics, trace, writing, pending, open,
                   raised, outcome, history>>

\* PG_CATCH of the ExecutorStart hook.
UnwindStart ==
    /\ Unwinding
    /\ Top.kind = "start"
    /\ IF Top.traced
       THEN ExecuteNodesStatePop /\ ExecuteNodesStateDelete(Top.query)
       ELSE UNCHANGED nodes
    /\ Leave
    /\ UNCHANGED <<statistics, trace, writing, pending, open, raised, outcome, history>>

\* The memory of the query is freed, which deletes its state.
ExecutorEnd(q) ==
    /\ Calling
    /\ q \in open /\ ~OnStack(q)
    /\ open' = open \ {q}
    /\ ExecuteNodesStateDelete(q)
    /\ UNCHANGED <<currentState, stateStack, statistics, trace, writing, pending, control,
                   history>>

-----------------------------------------------------------------------------
\* The node and expression hooks.

\* A hook that finds no state crashes; one that finds another query's state does not
\* find its node there and returns NULL.
Hook(kind) ==
    LET q == Top.query
    IN  /\ \/ currentState = q /\ Enter(Frame(kind, q, TRUE)) /\ UNCHANGED outcome
           \/ currentState = NoState /\ Ends("crashed") /\ UNCHANGED frames
           \/ currentState \notin {q, NoState} /\ Ends("wrong result") /\ UNCHANGED frames
        /\ storages' = IF currentState = q /\ perNode
                       THEN LockOnBuffersTraceStatPush(storages) ELSE storages
        /\ UNCHANGED <<nodes, kept, waitEvent, trace, writing, pending, open, raised,
                       history>>

TraceExecProcNodeHook ==
    /\ RoomToCall
    /\ Returning /\ InPlan
    /\ "node" \in hooked[Top.query]
    /\ Hook("node")

\* The expression is looked for in the current state before anything else; outside of
\* an execution one that is found there is evaluated without being traced.
TraceExprNodeHook ==
    /\ RoomToCall
    /\ Returning /\ Evaluating
    /\ "expr" \in hooked[Top.query]
    /\ currentState = Top.query => isExecuteTime
    /\ Hook("expr")

\* Called without a FETCH, by PL/pgSQL or to keep a cursor beyond its transaction: no
\* hook of the executor has made the state of q the current one, and the hook of a LIMIT
\* looks in another's or in none.
ExecutorRewind(q) ==
    /\ "rewind" \in features
    /\ Calling
    /\ q \in open /\ ~OnStack(q)
    /\ "expr" \in hooked[q]
    /\ Because("rewound")
    /\ outcome' = CASE currentState = q       -> outcome
                    [] currentState = NoState -> "crashed"
                    [] OTHER                  -> "wrong result"
    /\ UNCHANGED <<nodes, statistics, trace, writing, pending, open, frames, raised, orphans,
                   features>>

Event ==
    /\ TracePrintf(IF isFirstNodeCall THEN <<"event">> ELSE <<",", "event">>)
    /\ isFirstNodeCall' = FALSE

\* What a hook does after the real node or expression.  When the trace has been
\* stopped meanwhile there is no state, and nothing to do.
ReturnFromHook ==
    /\ Returning
    /\ Top.kind \in {"node", "expr"}
    /\ IF currentState = NoState
       THEN UNCHANGED <<isFirstNodeCall, doc, storages>>
       ELSE /\ Event
            /\ storages' = IF perNode THEN LockOnBuffersTraceStatPop(storages) ELSE storages
    /\ Leave
    /\ UNCHANGED <<nodes, kept, waitEvent, trace, isExecuteTime, nestLevel, file,
                   pending, open, raised, outcome, history>>

\* The hooks catch no error: their storage stays on the list.
UnwindHook ==
    /\ Unwinding
    /\ Top.kind \in {"node", "expr"}
    /\ Leave
    /\ orphans' = IF Top.live /\ perNode THEN orphans + 1 ELSE orphans
    /\ UNCHANGED <<nodes, statistics, trace, writing, pending, open, raised, outcome,
                   causes, features>>

-----------------------------------------------------------------------------
\* The code around the trace.

\* An error in a client's command or a function.
Error ==
    /\ "error" \in features
    /\ Calling /\ frames # <<>>
    /\ Raise
    /\ UNCHANGED <<nodes, statistics, trace, writing, pending, open, frames, outcome,
                   history>>

\* A function called by the top frame, or the main loop, catches the error.
Catch ==
    /\ outcome = "ok"
    /\ raised
    /\ frames # <<>> => Top.kind # "fetch"
    /\ raised' = FALSE
    /\ UNCHANGED <<nodes, statistics, trace, writing, pending, open, frames, outcome,
                   history>>

\* Called for a client's command or inside a function.
ParseOrPlan ==
    /\ "plan" \in features
    /\ Calling
    /\ tracing
    /\ RawParser \/ Planner \/ GetCachedPlan
    /\ UNCHANGED <<nodes, trace, writing, pending, open, control, history>>

ParseOrPlanFails ==
    /\ {"plan", "error"} \subseteq features
    /\ Calling
    /\ tracing
    /\ CallFails
    /\ orphans' = orphans + 1
    /\ Raise
    /\ UNCHANGED <<nodes, trace, writing, pending, open, frames, outcome, causes, features>>

Wait(hasEvent) ==
    /\ "waits" \in features
    /\ outcome = "ok"
    /\ tracing
    /\ WaitFunction(hasEvent)
    /\ IF ~hasEvent /\ waitEvent = "freed" THEN Ends("wild write") ELSE UNCHANGED outcome
    /\ UNCHANGED <<nodes, trace, writing, pending, open, frames, raised, history>>

\* The lock is counted in the last storage; there has to be one.
LockBuffer ==
    /\ outcome = "ok"
    /\ tracing
    /\ IF storages = 0 THEN Ends("crashed") ELSE UNCHANGED outcome
    /\ UNCHANGED <<nodes, statistics, trace, writing, pending, open, frames, raised, history>>

PGSemaphoreLock ==
    /\ "waits" \in features
    /\ outcome = "ok"
    /\ tracing
    /\ SignalWaitEvent
    /\ Because("slept")
    /\ UNCHANGED <<nodes, trace, writing, pending, open, control, orphans, features>>

\* A superuser may raise trace_file_limit while the file is written, and output goes on.
\* Bound: once in a session.
RaiseLimit ==
    /\ Calling
    /\ "limit raised" \notin causes
    /\ file = "open" /\ doc.full
    /\ doc' = [doc EXCEPT !.full = FALSE]
    /\ Because("limit raised")
    /\ UNCHANGED <<nodes, statistics, trace, isExecuteTime, isFirstNodeCall, nestLevel, file,
                   pending, open, control, orphans, features>>

\* Mutant: the arrays of nested executions are left open.
TraceNotNormalShutdownFlat ==
    /\ "exit" \in features
    /\ outcome = "ok" /\ ~raised
    /\ Ends("exited")
    /\ file' = "closed"
    /\ TracePrintf(<<"]", "}">>)
    /\ UNCHANGED <<nodes, statistics, trace, isExecuteTime, isFirstNodeCall, nestLevel,
                   pending, open, frames, raised, history>>

\* The session ends, by its client or by a FATAL error wherever it is: the exit
\* callback closes what is open, level by level.
TraceNotNormalShutdown ==
    /\ "exit" \in features
    /\ outcome = "ok" /\ ~raised
    /\ Ends("exited")
    /\ file' = "closed"
    /\ TracePrintf(ClosingTail)
    /\ UNCHANGED <<nodes, statistics, trace, isExecuteTime, isFirstNodeCall, nestLevel,
                   pending, open, frames, raised, history>>

Next ==
    \/ \E ok \in BOOLEAN :
          \/ start_session_trace(ok) \/ stop_session_trace(ok)
          \/ StartPending(ok) \/ StopPending(ok)
    \/ \E s \in {"start", "stop"} : SigHandler(s)
    \/ \E q \in Queries :
          \/ ExecutorStart(q) \/ ExecutorRun(q) \/ ProcessUtility(q) \/ ExecutorEnd(q)
          \/ ExecutorRewind(q)
          \/ \E aux \in BOOLEAN : ExecutorFinish(q, aux)
    \/ ReturnFromStart \/ ReturnFromExecution
    \/ UnwindStart \/ UnwindExecution
    \/ TraceExecProcNodeHook \/ TraceExprNodeHook \/ ReturnFromHook \/ UnwindHook
    \/ Error \/ Catch
    \/ ParseOrPlan \/ ParseOrPlanFails
    \/ \E hasEvent \in BOOLEAN : Wait(hasEvent)
    \/ LockBuffer \/ PGSemaphoreLock
    \/ RaiseLimit \/ TraceNotNormalShutdown

Spec == Init /\ [][Next]_vars

-----------------------------------------------------------------------------
\* The properties.

Live(kinds) == {i \in DOMAIN frames : frames[i].live /\ frames[i].kind \in kinds}
TracedExecutions == {i \in DOMAIN frames : frames[i].traced /\ frames[i].kind \in Executing}

\* The nesting level is the number of traced executions on the stack, also of those
\* whose trace was stopped, whatever errors, restarts and cursors there were: file
\* and brackets depend on it (ExecutorRunNestLevel).
NestLevelIsDepth == nestLevel = Cardinality(TracedExecutions)

\* While a session is traced the stack of states follows the stack of calls: one
\* entry for each execution or start entered under this trace, and the current
\* state is the innermost one's, NULL if its query was started before the trace.
\* The hooks find their node there or nowhere.
CurrentStateIsInnermost ==
    LET entered == Live(Executing \cup {"start"})
    IN  tracing /\ outcome = "ok" =>
            /\ Len(stateStack) = Cardinality(entered)
            /\ currentState =
                  IF entered = {} THEN NoState
                  ELSE LET innermost == CHOOSE i \in entered : \A j \in entered : j <= i
                       IN  Found(frames[innermost].query)

\* No function of the executor stays replaced once the trace is over or the state
\* that knows the original is gone: neither stop nor the end of a query, a failed
\* start of one or an error leaves a hook behind.
HooksHaveState ==
    /\ \A q \in Queries : hooked[q] # {} => states[q] # NoState
    /\ ~tracing => \A q \in Queries : states[q] = NoState

\* A current or saved state is one that is still in the list, never a freed one.
NoFreedState ==
    \A q \in Range(stateStack) \cup {currentState} : q # NoState => states[q] # NoState

\* The session is not broken by its trace, except where the code is known not to
\* hold: a query started before the trace is executed under it, the trace is
\* started again inside a traced execution, a start fails after an earlier trace, or
\* a traced cursor is rewound outside of FETCH.  Only the last can give a traced
\* query a NULL in place of its result.  FATAL is the start after all slots for exit
\* callbacks are taken.
SessionSurvives ==
    /\ outcome = "crashed" =>
          causes \cap {"old query", "restarted", "failed start", "rewound"} # {}
    /\ outcome = "wrong result" => "rewound" \in causes
    /\ outcome = "wild write" => "slept" \in causes
    /\ outcome = "fatal" => exits = MaxExits

\* Whatever is written is one JSON document: brackets match, elements are
\* separated by commas and nothing is printed after the end, through nested and
\* interrupted executions, FETCH, errors, and a stop inside; at the size limit it ends,
\* and goes on in the wrong place only if the limit is raised.  A start without a slot
\* for its exit callback leaves an end without a beginning.  The comma at the
\* beginning of a second trace is left to a property of its own.
Undisturbed == causes \cap {"restarted", "stopped outside", "limit raised", "slots"} = {}

WellFormed ==
    Undisturbed =>
        /\ doc.ok
        /\ doc.stray => "again" \in causes

\* A file that was closed is a whole document, unless it ends at the size limit.
ClosedIsComplete ==
    file = "closed" /\ Undisturbed => doc = NoDocument \/ doc.full \/ Complete(doc)

\* When the trace is off and none of its executions is left on the stack its file
\* is closed, by the stop or by the outermost execution it was inside of.
FileIsClosed ==
    ~tracing /\ TracedExecutions = {} /\ outcome # "crashed" =>
        file = "closed" \/ "stopped outside" \in causes

\* Locks are counted in the storage of the frame they are taken in: the list has one
\* for the session, so that it is never empty, one for each execution and, when each
\* node has one, for each node and expression.  Only an error that passes a node, the
\* parser or the planner leaves one behind, and counts of the next frames go astray.
StorageForEachFrame ==
    tracing /\ outcome = "ok" =>
        storages = 1 + Cardinality(Live(Executing)) + orphans
                   + IF perNode THEN Cardinality(Live({"node", "expr"})) ELSE 0

=============================================================================
