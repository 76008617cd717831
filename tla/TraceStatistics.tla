---------------------------- MODULE TraceStatistics ----------------------------
(***************************************************************************)
(* What a trace collects besides the nodes: statistics of buffer locks     *)
(* (trace_lock_on_buffers.c), of parsing and planning (trace_parsing.c,    *)
(* trace_planning.c) and of wait events (trace_wait_events.c).             *)
(*                                                                         *)
(* Locks are counted in the last of a list of storages.  Every traced      *)
(* execution, node, expression, parse and planning pushes a storage of its *)
(* own and takes it off when it is done.                                   *)
(***************************************************************************)
EXTENDS Naturals

VARIABLES
    storages,       \* length of bufferLockStatStorageList
    kept,           \* data of parsing and planning that wait for the next execution
    waitEvent       \* currentWaitEvent: "none", into the map, or into a "freed" or
                    \* "forgotten" (never freed) map

statistics == <<storages, kept, waitEvent>>

StatisticsTypeOK ==
    /\ storages \in Nat
    /\ kept \subseteq {"parsing", "planning", "params"}
    /\ waitEvent \in {"none", "map", "freed", "forgotten"}

StatisticsInit ==
    /\ storages = 0
    /\ kept = {}
    /\ waitEvent = "none"

-----------------------------------------------------------------------------
\* Buffer locks.

LockOnBuffersTraceStatPush(n) == n + 1
\* ListPopLast of an empty list gives NULL, which is not destroyed.
LockOnBuffersTraceStatPop(n) == IF n = 0 THEN 0 ELSE n - 1

\* LockOnBuffersUprobesGet makes the storage of the session.
StoragesAtStart == LockOnBuffersTraceStatPush(0)

\* Mutant: the storage is taken off and no new one put in its place.
WrittenOff(n) == LockOnBuffersTraceStatPop(n)

\* LockOnBuffersTraceWriteStat(.., true) replaces the last storage by a new one.
WrittenAndCleaned(n) == LockOnBuffersTraceStatPush(LockOnBuffersTraceStatPop(n))

-----------------------------------------------------------------------------
\* Parsing and planning.

Keep(what) == kept' = kept \cup {what}

\* The probes on raw_parser and planner keep the storage of the call.
RawParser ==
    /\ Keep("parsing")
    /\ storages' = LockOnBuffersTraceStatPop(LockOnBuffersTraceStatPush(storages))
    /\ UNCHANGED waitEvent

Planner ==
    /\ Keep("planning")
    /\ storages' = LockOnBuffersTraceStatPop(LockOnBuffersTraceStatPush(storages))
    /\ UNCHANGED waitEvent

\* A call that ends with an error leaves its storage: the probe's return function
\* does not run.
CallFails ==
    /\ storages' = LockOnBuffersTraceStatPush(storages)
    /\ UNCHANGED <<kept, waitEvent>>

\* The parameters of the last cached plan, and whether it was a custom one.
GetCachedPlan ==
    /\ Keep("params")
    /\ UNCHANGED <<storages, waitEvent>>

ParsingWriteData(k) == k \ {"parsing"}

\* Parameters are kept until something is planned.
PlanningWriteData(k) == IF "planning" \in k THEN k \ {"planning", "params"} ELSE k

\* ParsingClearData and PlanningClearData.
ClearData == kept' = {}

-----------------------------------------------------------------------------
\* Wait events.

\* The old map is destroyed, but currentWaitEvent is not reset.
TraceWaitEventsClearStat(w) == IF w = "map" THEN "freed" ELSE w
TraceWaitEventDumpStat(w) == TraceWaitEventsClearStat(w)

\* The map of the trace before is forgotten at the start of the next.
TraceWaitEventsUprobesGet(w) == IF w = "map" THEN "forgotten" ELSE w

\* A wait function (read, epoll_wait, ...): with a wait event, currentWaitEvent is set
\* on entry and unset on return; without one, the return function finds what
\* was left there.
WaitFunction(hasEvent) ==
    /\ hasEvent \/ waitEvent # "none"
    /\ waitEvent' = "none"
    /\ UNCHANGED <<storages, kept>>

\* PGSemaphoreLock tells of its start and end; the end does not unset currentWaitEvent.
SignalWaitEvent ==
    /\ waitEvent' = "map"
    /\ UNCHANGED <<storages, kept>>
=============================================================================
