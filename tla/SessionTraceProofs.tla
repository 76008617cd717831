--------------------------- MODULE SessionTraceProofs ---------------------------
(***************************************************************************)
(* Proofs about the session trace, for any queries, any depth of the stack *)
(* and any combination of what a session does: hooks, nesting level and    *)
(* file first, then the stack of states and the list of storages, which    *)
(* follow the frames that were entered under the trace.                    *)
(***************************************************************************)
EXTENDS SessionTrace, SequenceTheorems, FiniteSetTheorems, TLAPS

\* A frame that only fires triggers is not traced.
FrameSet ==
    {f \in [kind : Executing \cup {"start", "triggers", "node", "expr"},
            query : Queries, traced : BOOLEAN, live : BOOLEAN] :
        f.kind = "triggers" => ~f.traced}

\* The types that the proofs need; SessionTraceDocumentProofs has the whole TypeOK.
ControlType ==
    /\ frames \in Seq(FrameSet)
    /\ tracing \in BOOLEAN
    /\ states \in [Queries -> {NoState, "new", "inited"}]
    /\ hooked \in [Queries -> SUBSET {"node", "expr"}]

\* Without a trace there is no current state and none to come back to.
Idle == ~tracing => currentState = NoState /\ stateStack = <<>>

\* FileIsClosed by the nesting level, which is what the code has.
FileInv ==
    ~tracing /\ nestLevel = 0 /\ outcome # "crashed" =>
        file = "closed" \/ "stopped outside" \in causes

IInv == ControlType /\ Idle /\ HooksHaveState /\ NestLevelIsDepth /\ FileInv

USE DEF Executing

-----------------------------------------------------------------------------
\* The kinds of steps.

Starting == \E ok \in BOOLEAN : start_session_trace(ok) \/ StartPending(ok)
Stopping == \E ok \in BOOLEAN : stop_session_trace(ok) \/ StopPending(ok)

\* An execution is entered, by one of three hooks.
Executes(q) ==
    /\ outcome = "ok"
    /\ q \in open
    /\ \/ \E kind \in Executing : Execute(kind, q, tracing)
       \/ Execute("triggers", q, FALSE)

\* A frame is left, by a return or an error.
Leaving ==
    \/ ReturnFromStart \/ UnwindStart \/ ReturnFromExecution \/ UnwindExecution
    \/ ReturnFromHook \/ UnwindHook

\* Steps that change neither the trace nor its states nor the stack.
Elsewhere ==
    \/ \E s \in {"start", "stop"} : SigHandler(s)
    \/ Error \/ Catch \/ ParseOrPlan \/ ParseOrPlanFails
    \/ \E hasEvent \in BOOLEAN : Wait(hasEvent)
    \/ LockBuffer \/ PGSemaphoreLock
    \/ RaiseLimit \/ TraceNotNormalShutdown
    \/ \E q \in Queries : ExecutorRewind(q)
    \/ UNCHANGED vars

LEMMA Steps ==
    [Next]_vars =>
        \/ Starting \/ Stopping \/ Elsewhere
        \/ \E q \in Queries : Executes(q) \/ ExecutorStart(q) \/ ExecutorEnd(q)
        \/ TraceExecProcNodeHook \/ TraceExprNodeHook \/ Leaving
<1> SUFFICES ASSUME [Next]_vars, \A q \in Queries : ~Executes(q)
             PROVE  \/ Starting \/ Stopping \/ Elsewhere
                    \/ \E q \in Queries : ExecutorStart(q) \/ ExecutorEnd(q)
                    \/ TraceExecProcNodeHook \/ TraceExprNodeHook \/ Leaving
  OBVIOUS
<1>1. ASSUME NEW q \in Queries
      PROVE  /\ ~ExecutorRun(q) /\ ~ProcessUtility(q)
             /\ \A aux \in BOOLEAN : ~ExecutorFinish(q, aux)
  BY DEF Executes, ExecutorRun, ProcessUtility, ExecutorFinish, Calling, Returning
<1>2. QED
  BY <1>1 DEF Next, Starting, Stopping, Elsewhere, Leaving

LEMMA ElsewhereStays ==
    Elsewhere => UNCHANGED <<frames, tracing, nodes, nestLevel, context>>
<1> USE DEF trace, writing, control, history
<1>1. ASSUME NEW s, SigHandler(s)
      PROVE  UNCHANGED <<frames, tracing, nodes, nestLevel, context>>
  BY <1>1 DEF SigHandler
<1>2. CASE Error \/ Catch
  BY <1>2 DEF Error, Catch
<1>3. CASE ParseOrPlan \/ ParseOrPlanFails
  BY <1>3 DEF ParseOrPlan, ParseOrPlanFails
<1>4. ASSUME NEW hasEvent, Wait(hasEvent)
      PROVE  UNCHANGED <<frames, tracing, nodes, nestLevel, context>>
  BY <1>4 DEF Wait
<1>5. CASE LockBuffer \/ PGSemaphoreLock
  BY <1>5 DEF LockBuffer, PGSemaphoreLock
<1>6. CASE RaiseLimit \/ TraceNotNormalShutdown
  BY <1>6 DEF RaiseLimit, TraceNotNormalShutdown
<1>7. CASE UNCHANGED vars
  BY <1>7 DEF vars
<1>8. ASSUME NEW q, ExecutorRewind(q)
      PROVE  UNCHANGED <<frames, tracing, nodes, nestLevel, context>>
  BY <1>8 DEF ExecutorRewind
<1>9. QED
  BY <1>1, <1>2, <1>3, <1>4, <1>5, <1>6, <1>7, <1>8 DEF Elsewhere

\* A start succeeds, or it changes no stack and begins no trace.
LEMMA StartingCases ==
    Starting =>
        /\ UNCHANGED <<frames, nestLevel>>
        /\ \/ ~tracing /\ tracing' = TRUE /\ ExecutorTraceUprobesGet
           \/ tracing' = tracing /\ UNCHANGED nodes
           \/ ~tracing /\ tracing' = tracing /\ ExecutorTraceUprobesGet
<1> SUFFICES ASSUME NEW ok, SessionTraceStart(ok)
             PROVE  /\ UNCHANGED <<frames, nestLevel>>
                    /\ \/ ~tracing /\ tracing' = TRUE /\ ExecutorTraceUprobesGet
                       \/ tracing' = tracing /\ UNCHANGED nodes
                       \/ ~tracing /\ tracing' = tracing /\ ExecutorTraceUprobesGet
  BY DEF Starting, start_session_trace, StartPending
<1>1. CASE tracing
  BY <1>1 DEF SessionTraceStart, trace, writing
<1>2. CASE ~tracing /\ StartSucceeds
  BY <1>2 DEF StartSucceeds
<1>3. CASE ~tracing /\ StartCannotOpen
  BY <1>3 DEF StartCannotOpen
<1>4. CASE ~tracing /\ StartCannotAttach
  BY <1>4 DEF StartCannotAttach
<1>5. QED
  BY <1>1, <1>2, <1>3, <1>4 DEF SessionTraceStart

\* A stop ends the trace, or nothing happens.
LEMMA StoppingCases ==
    Stopping =>
        /\ UNCHANGED nestLevel
        /\ \/ tracing /\ tracing' = FALSE /\ ExecuteNodesStateClean /\ frames' = Orphaned
           \/ UNCHANGED <<tracing, nodes, frames>>
  BY DEF Stopping, stop_session_trace, StopPending, SessionTraceStop, trace, writing

-----------------------------------------------------------------------------
\* The stack.

Counted(fr) == {i \in DOMAIN fr : fr[i].traced /\ fr[i].kind \in Executing}

LEMMA CountedFinite ==
    ASSUME NEW fr \in Seq(FrameSet)
    PROVE  /\ IsFiniteSet(Counted(fr))
           /\ Cardinality(Counted(fr)) \in Nat
           /\ Counted(fr) \subseteq 1 .. Len(fr)
<1>1. Counted(fr) \subseteq 1 .. Len(fr)
  BY DEF Counted
<1>2. IsFiniteSet(1 .. Len(fr))
  BY FS_Interval
<1>3. IsFiniteSet(Counted(fr))
  BY <1>1, <1>2, FS_Subset
<1>4. QED
  BY <1>1, <1>3, FS_CardinalityType

\* Entering an execution counts one more, entering anything else does not.
LEMMA CountEntered ==
    ASSUME NEW fr \in Seq(FrameSet), NEW f \in FrameSet
    PROVE  /\ Append(fr, f) \in Seq(FrameSet)
           /\ Cardinality(Counted(Append(fr, f))) =
                 Cardinality(Counted(fr)) + IF f.traced /\ f.kind \in Executing THEN 1 ELSE 0
<1> DEFINE n == Len(fr) + 1
<1>1. /\ Append(fr, f) \in Seq(FrameSet) /\ Len(Append(fr, f)) = n
      /\ \A i \in 1 .. Len(fr) : Append(fr, f)[i] = fr[i]
      /\ Append(fr, f)[n] = f
      /\ n \in Nat /\ n \notin 1 .. Len(fr)
      /\ DOMAIN Append(fr, f) = (1 .. Len(fr)) \cup {n} /\ DOMAIN fr = 1 .. Len(fr)
  OBVIOUS
<1>2. n \notin Counted(fr)
  BY <1>1, CountedFinite
<1>3. CASE f.traced /\ f.kind \in Executing
  <2>1. Counted(Append(fr, f)) = Counted(fr) \cup {n}
    BY <1>1, <1>3 DEF Counted
  <2>2. IsFiniteSet(Counted(fr))
    BY CountedFinite
  <2>3. Cardinality(Counted(fr) \cup {n}) = Cardinality(Counted(fr)) + 1
    BY <1>2, <2>2, FS_AddElement
  <2>4. QED
    BY <1>1, <1>3, <2>1, <2>3
<1>4. CASE ~(f.traced /\ f.kind \in Executing)
  <2>1. Counted(Append(fr, f)) = Counted(fr)
    BY <1>1, <1>4 DEF Counted
  <2>2. QED
    BY <1>4, <2>1, <1>1, CountedFinite
<1>5. QED
  BY <1>3, <1>4

\* Leaving an execution counts one less, leaving anything else does not.
LEMMA CountLeft ==
    ASSUME NEW fr \in Seq(FrameSet), fr # <<>>
    PROVE  /\ Front(fr) \in Seq(FrameSet)
           /\ Last(fr) \in FrameSet
           /\ Cardinality(Counted(Front(fr))) =
                 Cardinality(Counted(fr))
                    - IF Last(fr).traced /\ Last(fr).kind \in Executing THEN 1 ELSE 0
<1> DEFINE n == Len(fr)
<1>0. n \in Nat \ {0} /\ fr[n] \in FrameSet /\ Front(fr) = SubSeq(fr, 1, n - 1)
  BY DEF Front
<1>1. /\ Front(fr) \in Seq(FrameSet) /\ Len(Front(fr)) = n - 1
      /\ \A i \in 1 .. n - 1 : Front(fr)[i] = fr[i]
      /\ Last(fr) = fr[n] /\ Last(fr) \in FrameSet
      /\ DOMAIN Front(fr) = 1 .. n - 1 /\ DOMAIN fr = (1 .. n - 1) \cup {n}
      /\ n \notin 1 .. n - 1
  <2>0. n - 1 \in Int /\ n - 1 >= 0 /\ \A i \in 1 .. n - 1 : fr[i] \in FrameSet
    BY <1>0
  <2>1. /\ SubSeq(fr, 1, n - 1) \in Seq(FrameSet)
        /\ Len(SubSeq(fr, 1, n - 1)) = n - 1
    <3> HIDE DEF n
    <3>1. /\ SubSeq(fr, 1, n - 1) \in Seq(FrameSet)
          /\ Len(SubSeq(fr, 1, n - 1)) = IF 1 <= n - 1 THEN n - 1 - 1 + 1 ELSE 0
      BY <2>0, SubSeqProperties
    <3>2. QED
      BY <1>0, <2>0, <3>1
  <2>2. \A i \in 1 .. n - 1 : SubSeq(fr, 1, n - 1)[i] = fr[i]
    BY <1>0
  <2>3. DOMAIN fr = (1 .. n - 1) \cup {n} /\ n \notin 1 .. n - 1
    <3>1. DOMAIN fr = 1 .. n
      OBVIOUS
    <3>2. \A k \in Nat \ {0} : 1 .. k = (1 .. k - 1) \cup {k} /\ k \notin 1 .. k - 1
      OBVIOUS
    <3>3. QED
      BY <1>0, <3>1, <3>2
  <2>4. DOMAIN SubSeq(fr, 1, n - 1) = 1 .. n - 1
    BY <1>0, <2>1
  <2>5. QED
    BY <1>0, <2>1, <2>2, <2>3, <2>4 DEF Last
<1>2. Counted(Front(fr)) = Counted(fr) \ {n}
  BY <1>1 DEF Counted
<1>3. Cardinality(Counted(fr) \ {n}) =
          IF n \in Counted(fr) THEN Cardinality(Counted(fr)) - 1 ELSE Cardinality(Counted(fr))
  BY CountedFinite, FS_RemoveElement
<1>4. n \in Counted(fr) <=> (Last(fr).traced /\ Last(fr).kind \in Executing)
  BY <1>1 DEF Counted
<1>5. QED
  BY <1>1, <1>2, <1>3, <1>4, CountedFinite

\* A stop takes no frame away.
LEMMA CountOrphaned ==
    ASSUME frames \in Seq(FrameSet)
    PROVE  Orphaned \in Seq(FrameSet) /\ Counted(Orphaned) = Counted(frames)
<1>1. ASSUME NEW i \in 1 .. Len(frames)
      PROVE  /\ [frames[i] EXCEPT !.live = FALSE] \in FrameSet
             /\ [frames[i] EXCEPT !.live = FALSE].traced = frames[i].traced
             /\ [frames[i] EXCEPT !.live = FALSE].kind = frames[i].kind
  <2>1. frames[i] \in FrameSet
    OBVIOUS
  <2>2. QED
    BY <2>1 DEF FrameSet
<1>2. DOMAIN frames = 1 .. Len(frames)
  OBVIOUS
<1>3. Orphaned \in [1 .. Len(frames) -> FrameSet]
  BY <1>1, <1>2 DEF Orphaned
<1>4. \A n \in Nat : \A f \in [1 .. n -> FrameSet] : f \in Seq(FrameSet)
  OBVIOUS
<1>5. Counted(Orphaned) = Counted(frames)
  BY <1>1, <1>2 DEF Orphaned, Counted
<1>6. QED
  BY <1>3, <1>4, <1>5

LEMMA DepthIsCounted == TracedExecutions = Counted(frames)
  BY DEF TracedExecutions, Counted

-----------------------------------------------------------------------------
\* What the steps do to the stack and the level, the states and the hooks.

\* Entering an execution: the level rises with a traced one.
LEMMA ExecutesStack ==
    ASSUME ControlType, NEW q \in Queries, Executes(q)
    PROVE  /\ UNCHANGED tracing
           /\ \E f \in FrameSet :
                 /\ frames' = Append(frames, f)
                 /\ IF f.traced /\ f.kind \in Executing
                    THEN tracing /\ nestLevel' = nestLevel + 1
                    ELSE nestLevel' = nestLevel
<1>1. CASE Execute("triggers", q, FALSE)
  <2>1. Frame("triggers", q, FALSE) \in FrameSet /\ ~Frame("triggers", q, FALSE).traced
    BY DEF Frame, FrameSet
  <2>2. QED
    BY <1>1, <2>1 DEF Execute, Enter, trace
<1>2. ASSUME NEW kind \in Executing, Execute(kind, q, tracing)
      PROVE  /\ UNCHANGED tracing
             /\ \E f \in FrameSet :
                   /\ frames' = Append(frames, f)
                   /\ IF f.traced /\ f.kind \in Executing
                      THEN tracing /\ nestLevel' = nestLevel + 1
                      ELSE nestLevel' = nestLevel
  <2>1. /\ Frame(kind, q, tracing) \in FrameSet
        /\ Frame(kind, q, tracing).traced = tracing
        /\ Frame(kind, q, tracing).kind \in Executing
    BY DEF Frame, FrameSet, ControlType
  <2>2. tracing' = tracing /\ frames' = Append(frames, Frame(kind, q, tracing))
    BY <1>2 DEF Execute, Enter, trace
  <2>3. nestLevel' = IF tracing THEN nestLevel + 1 ELSE nestLevel
    BY <1>2 DEF Execute
  <2>4. QED
    BY <2>1, <2>2, <2>3
<1>3. QED
  BY <1>1, <1>2 DEF Executes

\* A start of a query, a node or an expression is no execution.
LEMMA OtherStack ==
    ASSUME ControlType,
           \/ \E q \in Queries : ExecutorStart(q)
           \/ TraceExecProcNodeHook \/ TraceExprNodeHook
    PROVE  /\ UNCHANGED <<tracing, nestLevel>>
           /\ \/ UNCHANGED frames
              \/ \E f \in FrameSet : frames' = Append(frames, f) /\ f.kind \notin Executing
<1>1. ASSUME NEW q \in Queries, ExecutorStart(q)
      PROVE  /\ UNCHANGED <<tracing, nestLevel>>
             /\ \E f \in FrameSet : frames' = Append(frames, f) /\ f.kind \notin Executing
  <2>1. /\ Frame("start", q, tracing) \in FrameSet
        /\ Frame("start", q, tracing).kind \notin Executing
    BY DEF Frame, FrameSet, ControlType
  <2>2. QED
    BY <1>1, <2>1 DEF ExecutorStart, Enter, trace, writing
<1>2. ASSUME NEW kind \in {"node", "expr"}, frames # <<>>, Hook(kind)
      PROVE  /\ UNCHANGED <<tracing, nestLevel>>
             /\ \/ UNCHANGED frames
                \/ \E f \in FrameSet : frames' = Append(frames, f) /\ f.kind \notin Executing
  <2>1. Top.query \in Queries
    BY <1>2, CountLeft DEF Top, FrameSet, ControlType
  <2>2. /\ Frame(kind, Top.query, TRUE) \in FrameSet
        /\ Frame(kind, Top.query, TRUE).kind \notin Executing
    BY <2>1 DEF Frame, FrameSet
  <2>3. /\ UNCHANGED <<tracing, nestLevel>>
        /\ frames' = frames \/ frames' = Append(frames, Frame(kind, Top.query, TRUE))
    BY <1>2 DEF Hook, Enter, trace, writing
  <2>4. QED
    BY <2>2, <2>3
<1>3. QED
  BY <1>1, <1>2 DEF TraceExecProcNodeHook, TraceExprNodeHook, InPlan, Evaluating

\* Leaving: the level falls with a traced execution, on a return and on an error.
LEMMA LeaveStack ==
    ASSUME Leaving
    PROVE  /\ UNCHANGED <<tracing, context>>
           /\ frames # <<>> /\ frames' = Front(frames)
           /\ \/ Top.kind \notin Executing \cup {"triggers"} /\ UNCHANGED <<nestLevel, file>>
              \/ Top.kind \in Executing \cup {"triggers"} /\ Finally
  BY DEF Leaving, ReturnFromStart, UnwindStart, ReturnFromExecution, UnwindExecution,
         ReturnFromHook, UnwindHook, Leave, Returning, Unwinding, trace, writing

\* No action but the ones of trace_execute_nodes.c touches states and hooks.
LEMMA NodeCases ==
    [Next]_vars =>
        \/ UNCHANGED <<states, hooked>>
        \/ ExecutorTraceUprobesGet /\ ~tracing
        \/ ExecuteNodesStateClean
        \/ \E q \in Queries : ExecuteNodesStateNew(q) /\ tracing
        \/ \E q \in Queries : InitExecutorNodes(q)
        \/ \E q : ExecInitExprRetFunc(q) /\ UNCHANGED states
        \/ \E q : ExecuteNodesStateDelete(q)
<1> SUFFICES ASSUME [Next]_vars
             PROVE  \/ UNCHANGED <<states, hooked>>
                    \/ ExecutorTraceUprobesGet /\ ~tracing
                    \/ ExecuteNodesStateClean
                    \/ \E q \in Queries : ExecuteNodesStateNew(q) /\ tracing
                    \/ \E q \in Queries : InitExecutorNodes(q)
                    \/ \E q : ExecInitExprRetFunc(q) /\ UNCHANGED states
                    \/ \E q : ExecuteNodesStateDelete(q)
  OBVIOUS
<1>1. CASE Starting
  BY <1>1, StartingCases DEF nodes
<1>2. CASE Stopping
  BY <1>2, StoppingCases DEF nodes
<1>3. CASE Elsewhere
  BY <1>3, ElsewhereStays DEF nodes
<1>4. ASSUME NEW q \in Queries, Executes(q)
      PROVE  UNCHANGED <<states, hooked>> \/ InitExecutorNodes(q)
  BY <1>4 DEF Executes, Execute, BeforeExecution, ProcessDescBeforeExec, nodes
<1>5. ASSUME NEW q \in Queries, ExecutorStart(q)
      PROVE  UNCHANGED <<states, hooked>> \/ (ExecuteNodesStateNew(q) /\ tracing)
  BY <1>5 DEF ExecutorStart, nodes
<1>6. ASSUME NEW q \in Queries, ExecutorEnd(q)
      PROVE  ExecuteNodesStateDelete(q)
  BY <1>6 DEF ExecutorEnd
<1>7. CASE TraceExecProcNodeHook \/ TraceExprNodeHook
  BY <1>7 DEF TraceExecProcNodeHook, TraceExprNodeHook, Hook, nodes
<1>8. CASE ReturnFromHook \/ UnwindHook
  BY <1>8 DEF ReturnFromHook, UnwindHook, nodes
<1>9. CASE ReturnFromStart
  BY <1>9 DEF ReturnFromStart
<1>10. CASE UnwindStart
  BY <1>10 DEF UnwindStart, nodes
<1>11. CASE ReturnFromExecution
  BY <1>11 DEF ReturnFromExecution
<1>12. CASE UnwindExecution
  BY <1>12 DEF UnwindExecution
<1>13. QED
  BY <1>1, <1>2, <1>3, <1>4, <1>5, <1>6, <1>7, <1>8, <1>9, <1>10, <1>11, <1>12, Steps
     DEF Leaving

\* A trace ends by a stop only.
LEMMA TraceCases ==
    ControlType /\ [Next]_vars => tracing' \/ UNCHANGED tracing \/ ExecuteNodesStateClean
<1> SUFFICES ASSUME ControlType, [Next]_vars
             PROVE  tracing' \/ UNCHANGED tracing \/ ExecuteNodesStateClean
  OBVIOUS
<1>1. CASE Starting \/ Stopping \/ Elsewhere
  BY <1>1, StartingCases, StoppingCases, ElsewhereStays
<1>2. ASSUME NEW q \in Queries, Executes(q) \/ ExecutorStart(q) \/ ExecutorEnd(q)
      PROVE  UNCHANGED tracing
  BY <1>2 DEF Executes, Execute, ExecutorStart, ExecutorEnd, trace
<1>3. CASE TraceExecProcNodeHook \/ TraceExprNodeHook
  BY <1>3 DEF TraceExecProcNodeHook, TraceExprNodeHook, Hook, trace
<1>4. QED
  BY <1>1, <1>2, <1>3, LeaveStack, Steps

-----------------------------------------------------------------------------
\* The invariant.

LEMMA InitInv == Init => IInv
<1> SUFFICES ASSUME Init PROVE IInv
  OBVIOUS
<1>1. ControlType
  <2>1. <<>> \in Seq(FrameSet) /\ frames = <<>> /\ tracing = FALSE
    BY DEF Init
  <2>2. states \in [Queries -> {NoState, "new", "inited"}]
    BY DEF Init, NodesInit
  <2>3. hooked \in [Queries -> SUBSET {"node", "expr"}]
    BY DEF Init, NodesInit
  <2>4. QED
    BY <2>1, <2>2, <2>3 DEF ControlType
<1>2. Idle /\ HooksHaveState /\ FileInv
  BY DEF Init, NodesInit, Idle, HooksHaveState, FileInv
<1>3. Counted(frames) = {}
  BY DEF Init, Counted
<1>4. NestLevelIsDepth
  BY <1>3, DepthIsCounted, FS_EmptySet DEF Init, NestLevelIsDepth
<1>5. QED
  BY <1>1, <1>2, <1>4 DEF IInv

\* The stack stays a stack of frames.
LEMMA FramesStep == ControlType /\ [Next]_vars => frames' \in Seq(FrameSet)
<1> SUFFICES ASSUME ControlType, [Next]_vars PROVE frames' \in Seq(FrameSet)
  OBVIOUS
<1>0. frames \in Seq(FrameSet)
  BY DEF ControlType
<1>1. CASE Starting \/ Stopping \/ Elsewhere
  BY <1>0, <1>1, StartingCases, StoppingCases, ElsewhereStays, CountOrphaned
<1>2. ASSUME NEW q \in Queries, Executes(q)
      PROVE  frames' \in Seq(FrameSet)
  BY <1>0, <1>2, ExecutesStack, CountEntered
<1>3. CASE \/ \E q \in Queries : ExecutorStart(q)
           \/ TraceExecProcNodeHook \/ TraceExprNodeHook
  BY <1>0, <1>3, OtherStack, CountEntered
<1>4. ASSUME NEW q \in Queries, ExecutorEnd(q)
      PROVE  frames' = frames
  BY <1>4 DEF ExecutorEnd, control
<1>5. CASE Leaving
  BY <1>0, <1>5, LeaveStack, CountLeft
<1>6. QED
  BY <1>0, <1>1, <1>2, <1>3, <1>4, <1>5, Steps

\* States and hooks keep their types.
LEMMA NodesTypeStep ==
    ControlType /\ [Next]_vars =>
        /\ states' \in [Queries -> {NoState, "new", "inited"}]
        /\ hooked' \in [Queries -> SUBSET {"node", "expr"}]
<1> SUFFICES ASSUME ControlType, [Next]_vars
             PROVE  /\ states' \in [Queries -> {NoState, "new", "inited"}]
                    /\ hooked' \in [Queries -> SUBSET {"node", "expr"}]
  OBVIOUS
<1> USE DEF ControlType
<1>1. CASE UNCHANGED <<states, hooked>>
  BY <1>1
<1>2. CASE ExecutorTraceUprobesGet
  BY <1>2 DEF ExecutorTraceUprobesGet
<1>3. CASE ExecuteNodesStateClean
  BY <1>3 DEF ExecuteNodesStateClean, ExecutorTraceClearStat
<1>4. ASSUME NEW q \in Queries, ExecuteNodesStateNew(q)
      PROVE  /\ states' \in [Queries -> {NoState, "new", "inited"}]
             /\ hooked' \in [Queries -> SUBSET {"node", "expr"}]
  BY <1>4 DEF ExecuteNodesStateNew
<1>5. ASSUME NEW q \in Queries, InitExecutorNodes(q)
      PROVE  /\ states' \in [Queries -> {NoState, "new", "inited"}]
             /\ hooked' \in [Queries -> SUBSET {"node", "expr"}]
  BY <1>5 DEF InitExecutorNodes, InitExecutorNode
<1>6. ASSUME NEW q, ExecInitExprRetFunc(q), UNCHANGED states
      PROVE  /\ states' \in [Queries -> {NoState, "new", "inited"}]
             /\ hooked' \in [Queries -> SUBSET {"node", "expr"}]
  BY <1>6 DEF ExecInitExprRetFunc
<1>7. ASSUME NEW q, ExecuteNodesStateDelete(q)
      PROVE  /\ states' \in [Queries -> {NoState, "new", "inited"}]
             /\ hooked' \in [Queries -> SUBSET {"node", "expr"}]
  BY <1>7 DEF ExecuteNodesStateDelete, ExecutorTraceClearStat
<1>8. QED
  BY <1>1, <1>2, <1>3, <1>4, <1>5, <1>6, <1>7, NodeCases

LEMMA ControlStep == ControlType /\ [Next]_vars => ControlType'
<1> SUFFICES ASSUME ControlType, [Next]_vars PROVE ControlType'
  OBVIOUS
<1>1. tracing' \in BOOLEAN
  <2>1. CASE Starting \/ Stopping \/ Elsewhere
    BY <2>1, StartingCases, StoppingCases, ElsewhereStays DEF ControlType
  <2>2. ASSUME NEW q \in Queries, Executes(q) \/ ExecutorStart(q) \/ ExecutorEnd(q)
        PROVE  UNCHANGED tracing
    BY <2>2 DEF Executes, Execute, ExecutorStart, ExecutorEnd, trace
  <2>3. CASE TraceExecProcNodeHook \/ TraceExprNodeHook
    BY <2>3 DEF TraceExecProcNodeHook, TraceExprNodeHook, Hook, trace, ControlType
  <2>4. QED
    BY <2>1, <2>2, <2>3, LeaveStack, Steps DEF ControlType
<1>2. QED
  BY <1>1, FramesStep, NodesTypeStep DEF ControlType

\* Every step that frees a state, or forgets all of them, puts the functions back.
LEMMA HooksStep == ControlType /\ HooksHaveState /\ [Next]_vars => HooksHaveState'
<1> SUFFICES ASSUME ControlType, HooksHaveState, [Next]_vars PROVE HooksHaveState'
  OBVIOUS
<1> USE DEF ControlType
<1>0. /\ \A q \in Queries : hooked[q] # {} => states[q] # NoState
      /\ ~tracing => \A q \in Queries : states[q] = NoState
      /\ NoState # "new" /\ NoState # "inited"
  BY ExecuteNodesAssumption DEF HooksHaveState
<1>1. CASE ExecuteNodesStateClean
  BY <1>0, <1>1 DEF ExecuteNodesStateClean, ExecutorTraceClearStat, WithState, HooksHaveState
<1>2. CASE tracing' \/ UNCHANGED tracing
  <2>1. CASE UNCHANGED <<states, hooked>>
    BY <1>0, <1>2, <2>1 DEF HooksHaveState
  <2>2. CASE ExecutorTraceUprobesGet /\ ~tracing
    BY <1>0, <1>2, <2>2 DEF ExecutorTraceUprobesGet, HooksHaveState
  <2>3. ASSUME NEW q \in Queries, ExecuteNodesStateNew(q), tracing
        PROVE  HooksHaveState'
    BY <1>0, <1>2, <2>3 DEF ExecuteNodesStateNew, HooksHaveState
  <2>4. ASSUME NEW q \in Queries, InitExecutorNodes(q)
        PROVE  HooksHaveState'
    BY <1>0, <1>2, <2>4 DEF InitExecutorNodes, InitExecutorNode, HooksHaveState
  <2>5. ASSUME NEW q, ExecInitExprRetFunc(q), UNCHANGED states
        PROVE  HooksHaveState'
    BY <1>0, <1>2, <2>5 DEF ExecInitExprRetFunc, HooksHaveState
  <2>6. ASSUME NEW q, ExecuteNodesStateDelete(q)
        PROVE  HooksHaveState'
    BY <1>0, <1>2, <2>6
       DEF ExecuteNodesStateDelete, ExecutorTraceClearStat, WithState, HooksHaveState
  <2>7. QED
    BY <1>1, <2>1, <2>2, <2>3, <2>4, <2>5, <2>6, NodeCases
<1>3. QED
  BY <1>1, <1>2, TraceCases

\* The level follows the stack.
LEMMA NestStep == ControlType /\ NestLevelIsDepth /\ [Next]_vars => NestLevelIsDepth'
<1> SUFFICES ASSUME ControlType, NestLevelIsDepth, [Next]_vars PROVE NestLevelIsDepth'
  OBVIOUS
<1>0. frames \in Seq(FrameSet) /\ nestLevel = Cardinality(Counted(frames))
  BY DepthIsCounted DEF ControlType, NestLevelIsDepth
<1>a. SUFFICES nestLevel' = Cardinality(Counted(frames'))
  BY DepthIsCounted DEF NestLevelIsDepth, TracedExecutions, Counted
<1>1. CASE Starting \/ Elsewhere
  BY <1>0, <1>1, StartingCases, ElsewhereStays
<1>2. CASE Stopping
  BY <1>0, <1>2, StoppingCases, CountOrphaned
<1>3. ASSUME NEW q \in Queries, Executes(q)
      PROVE  nestLevel' = Cardinality(Counted(frames'))
  <2>1. PICK f \in FrameSet :
            /\ frames' = Append(frames, f)
            /\ nestLevel' = IF f.traced /\ f.kind \in Executing THEN nestLevel + 1
                                                               ELSE nestLevel
    BY <1>3, ExecutesStack
  <2>2. QED
    BY <1>0, <2>1, CountEntered, CountedFinite
<1>4. CASE \/ \E q \in Queries : ExecutorStart(q)
           \/ TraceExecProcNodeHook \/ TraceExprNodeHook
  <2>1. CASE UNCHANGED frames
    BY <1>0, <1>4, <2>1, OtherStack
  <2>2. ASSUME NEW f \in FrameSet, frames' = Append(frames, f), f.kind \notin Executing
        PROVE  nestLevel' = Cardinality(Counted(frames'))
    BY <1>0, <1>4, <2>2, OtherStack, CountEntered, CountedFinite
  <2>3. QED
    BY <1>4, <2>1, <2>2, OtherStack
<1>5. ASSUME NEW q \in Queries, ExecutorEnd(q)
      PROVE  nestLevel' = Cardinality(Counted(frames'))
  BY <1>0, <1>5 DEF ExecutorEnd, control, writing
<1>6. CASE Leaving
  <2>1. /\ frames # <<>> /\ frames' = Front(frames)
        /\ \/ Top.kind \notin Executing \cup {"triggers"} /\ UNCHANGED nestLevel
           \/ Top.kind \in Executing \cup {"triggers"} /\ Finally
    BY <1>6, LeaveStack
  <2>2. /\ Top \in FrameSet
        /\ Cardinality(Counted(frames')) =
              nestLevel - IF Top.traced /\ Top.kind \in Executing THEN 1 ELSE 0
    BY <1>0, <2>1, CountLeft DEF Top
  <2>3. nestLevel \in Nat
    BY <1>0, CountedFinite
  <2>4. CASE Top.kind \notin Executing \cup {"triggers"}
    BY <2>1, <2>2, <2>3, <2>4
  <2>5. CASE Top.kind \in Executing /\ Finally
    BY <2>2, <2>3, <2>5 DEF Finally, writing
  <2>6. CASE Top.kind = "triggers" /\ Finally
    BY <2>2, <2>3, <2>6 DEF Finally, writing, FrameSet
  <2>7. QED
    BY <2>1, <2>4, <2>5, <2>6
<1>7. QED
  BY <1>1, <1>2, <1>3, <1>4, <1>5, <1>6, Steps

\* Outside of a trace nothing is pushed, and popping from an empty stack gives NULL.
LEMMA IdleStep == ControlType /\ Idle /\ [Next]_vars => Idle'
<1> SUFFICES ASSUME ControlType, Idle, [Next]_vars PROVE Idle'
  OBVIOUS
<1> DEFINE Popped == ExecuteNodesStatePop /\ UNCHANGED tracing
           Kept   == UNCHANGED <<tracing, currentState, stateStack>>
<1>0. Popped => Idle'
  BY DEF Idle, ExecuteNodesStatePop
<1>a. Kept => Idle'
  BY DEF Idle
<1>1. CASE Starting
  BY <1>1, StartingCases DEF Idle, ExecutorTraceUprobesGet, nodes
<1>2. CASE Stopping
  BY <1>2, StoppingCases DEF Idle, ExecuteNodesStateClean, nodes
<1>3. CASE Elsewhere
  BY <1>3, <1>a, ElsewhereStays DEF nodes
<1>4. ASSUME NEW q \in Queries, Executes(q)
      PROVE  Idle'
  <2>1. tracing' = tracing
    BY <1>4, ExecutesStack
  <2>2. ~tracing => UNCHANGED nodes
    BY <1>4 DEF Executes, Execute
  <2>3. QED
    BY <2>1, <2>2 DEF Idle, nodes
<1>5. ASSUME NEW q \in Queries, ExecutorStart(q)
      PROVE  Idle'
  BY <1>5 DEF ExecutorStart, Idle, nodes, trace
<1>6. ASSUME NEW q \in Queries, ExecutorEnd(q)
      PROVE  Kept
  BY <1>6 DEF ExecutorEnd, trace
<1>7. CASE TraceExecProcNodeHook \/ TraceExprNodeHook
  BY <1>7, <1>a DEF TraceExecProcNodeHook, TraceExprNodeHook, Hook, nodes, trace
<1>8. CASE ReturnFromStart \/ UnwindStart
  <2>1. Popped \/ Kept
    BY <1>8 DEF ReturnFromStart, UnwindStart, nodes, trace
  <2>2. QED
    BY <1>0, <1>a, <2>1
<1>9. CASE ReturnFromExecution \/ UnwindExecution
  <2>1. Finally /\ UNCHANGED tracing
    BY <1>9 DEF ReturnFromExecution, UnwindExecution, trace
  <2>2. Popped \/ Kept
    BY <2>1 DEF Finally, AfterExecution
  <2>3. QED
    BY <1>0, <1>a, <2>2
<1>10. CASE ReturnFromHook \/ UnwindHook
  BY <1>10, <1>a DEF ReturnFromHook, UnwindHook, nodes, trace
<1>11. QED
  BY <1>1, <1>2, <1>3, <1>4, <1>5, <1>6, <1>7, <1>8, <1>9, <1>10, <1>a, Steps DEF Leaving

\* A step that leaves trace, level and file alone leaves the file closed.
LEMMA FileQuiet ==
    ASSUME FileInv, outcome = "ok", UNCHANGED <<tracing, nestLevel>>, causes \subseteq causes',
           file' \in {file, "closed"}
    PROVE  FileInv'
  BY DEF FileInv

\* The outermost traced execution closes the file of a trace that was stopped inside
\* of it.  If a later start failed it finds no state instead.
LEMMA FileFinally ==
    ASSUME FileInv, Idle, nestLevel \in Nat, outcome = "ok", Finally,
           UNCHANGED <<tracing, causes>>
    PROVE  FileInv'
<1>1. CASE ~Top.traced
  BY <1>1, FileQuiet DEF Finally, writing
<1>2. CASE Top.traced
  <2>1. nestLevel' = nestLevel - 1 /\ AfterExecution
    BY <1>2 DEF Finally
  <2>2. CASE ~context
    <3>1. file' = IF nestLevel = 1 THEN "closed" ELSE file
      BY <2>1, <2>2 DEF AfterExecution
    <3>2. nestLevel' = 0 => nestLevel = 1
      BY <2>1
    <3>3. QED
      BY <3>1, <3>2 DEF FileInv
  <2>3. CASE context /\ currentState = NoState
    BY <2>1, <2>3 DEF AfterExecution, FileInv, Ends
  <2>4. CASE currentState # NoState
    BY <2>4 DEF FileInv, Idle
  <2>5. QED
    BY <2>2, <2>3, <2>4
<1>3. QED
  BY <1>1, <1>2

LEMMA FileStep ==
    ControlType /\ Idle /\ NestLevelIsDepth /\ FileInv /\ [Next]_vars => FileInv'
<1> SUFFICES ASSUME ControlType, Idle, NestLevelIsDepth, FileInv, [Next]_vars PROVE FileInv'
  OBVIOUS
<1>0. nestLevel \in Nat
  BY DepthIsCounted, CountedFinite DEF ControlType, NestLevelIsDepth
<1>1. CASE Starting
  <2>1. PICK ok : SessionTraceStart(ok) /\ outcome = "ok"
    BY <1>1 DEF Starting, start_session_trace, StartPending, Calling
  <2>2. CASE tracing
    BY <2>1, <2>2, FileQuiet DEF SessionTraceStart, trace, writing, history
  <2>3. CASE ~tracing /\ StartSucceeds
    BY <2>3 DEF StartSucceeds, FileInv
  <2>4. CASE ~tracing /\ StartCannotOpen
    BY <2>4 DEF StartCannotOpen, FileInv
  <2>5. CASE ~tracing /\ StartCannotAttach
    BY <2>5 DEF StartCannotAttach, FileInv
  <2>6. QED
    BY <2>1, <2>2, <2>3, <2>4, <2>5 DEF SessionTraceStart
<1>2. CASE Stopping
  <2>1. PICK closeFile, ok : SessionTraceStop(closeFile, ok) /\ outcome = "ok"
    BY <1>2 DEF Stopping, stop_session_trace, StopPending, Calling
  <2>2. CASE ~tracing
    BY <2>1, <2>2, FileQuiet DEF SessionTraceStop, trace, writing, history
  <2>3. CASE tracing /\ closeFile
    BY <2>1, <2>3 DEF SessionTraceStop, FileInv
  <2>4. CASE tracing /\ ~closeFile
    <3>1. UNCHANGED nestLevel
      BY <2>1, <2>4 DEF SessionTraceStop
    <3>2. CASE nestLevel > 0
      <4>1. nestLevel' # 0
        BY <3>1, <3>2
      <4>2. QED
        BY <4>1 DEF FileInv
    <3>3. CASE ~(nestLevel > 0)
      <4>1. causes' = causes \cup {"stopped outside"}
        BY <2>1, <2>4, <3>3 DEF SessionTraceStop
      <4>2. QED
        BY <4>1 DEF FileInv
    <3>4. QED
      BY <3>2, <3>3
  <2>5. QED
    BY <2>2, <2>3, <2>4
<1>3. CASE Elsewhere
  <2> USE DEF trace, writing, control, history
  <2>1. ASSUME NEW s, SigHandler(s)
        PROVE  FileInv'
    BY <2>1, FileQuiet DEF SigHandler
  <2>2. CASE Error \/ Catch
    BY <2>2, FileQuiet DEF Error, Catch, Calling
  <2>3. CASE ParseOrPlan \/ ParseOrPlanFails
    BY <2>3, FileQuiet DEF ParseOrPlan, ParseOrPlanFails, Calling
  <2>4. ASSUME NEW hasEvent, Wait(hasEvent)
        PROVE  FileInv'
    BY <2>4, FileQuiet DEF Wait
  <2>5. CASE LockBuffer \/ PGSemaphoreLock
    BY <2>5, FileQuiet DEF LockBuffer, PGSemaphoreLock, Because
  <2>6. CASE RaiseLimit \/ TraceNotNormalShutdown
    BY <2>6, FileQuiet DEF RaiseLimit, TraceNotNormalShutdown, Calling, Because
  <2>7. CASE UNCHANGED vars
    BY <2>7 DEF vars, FileInv
  <2>8. ASSUME NEW q, ExecutorRewind(q)
        PROVE  FileInv'
    BY <2>8, FileQuiet DEF ExecutorRewind, Calling, Because
  <2>9. QED
    BY <1>3, <2>1, <2>2, <2>3, <2>4, <2>5, <2>6, <2>7, <2>8 DEF Elsewhere
<1>4. ASSUME NEW q \in Queries, Executes(q)
      PROVE  FileInv'
  <2>1. CASE tracing
    BY <1>4, <2>1, ExecutesStack DEF FileInv
  <2>2. CASE ~tracing
    <3>1. UNCHANGED <<tracing, nestLevel>>
      BY <1>4, <2>2, ExecutesStack
    <3>2. UNCHANGED <<file, causes>> /\ outcome = "ok"
      BY <1>4, <2>2 DEF Executes, Execute
    <3>3. QED
      BY <3>1, <3>2, FileQuiet
  <2>3. QED
    BY <2>1, <2>2
<1>5. ASSUME NEW q \in Queries, ExecutorStart(q) \/ ExecutorEnd(q)
      PROVE  FileInv'
  BY <1>5, FileQuiet DEF ExecutorStart, ExecutorEnd, Calling, trace, writing, control, history
<1>6. CASE TraceExecProcNodeHook \/ TraceExprNodeHook
  <2>1. /\ UNCHANGED <<tracing, nestLevel, file, causes>> /\ outcome = "ok"
    BY <1>6 DEF TraceExecProcNodeHook, TraceExprNodeHook, Hook, Returning, trace, writing,
                history
  <2>2. QED
    BY <2>1, FileQuiet
<1>7. CASE Leaving
  <2>1. outcome = "ok" /\ UNCHANGED <<tracing, causes>>
    BY <1>7 DEF Leaving, ReturnFromStart, UnwindStart, ReturnFromExecution, UnwindExecution,
                ReturnFromHook, UnwindHook, Returning, Unwinding, trace, history
  <2>2. CASE Finally
    BY <1>0, <2>1, <2>2, FileFinally
  <2>3. CASE UNCHANGED <<nestLevel, file>>
    BY <2>1, <2>3, FileQuiet
  <2>4. QED
    BY <1>7, <2>2, <2>3, LeaveStack
<1>8. QED
  BY <1>1, <1>2, <1>3, <1>4, <1>5, <1>6, <1>7, Steps

-----------------------------------------------------------------------------
\* The invariant the theorems below follow from.
THEOREM Invariance == Spec => []IInv
<1>1. Init => IInv
  BY InitInv
<1>2. IInv /\ [Next]_vars => IInv'
  BY ControlStep, IdleStep, HooksStep, NestStep, FileStep DEF IInv
<1>3. QED
  BY <1>1, <1>2, PTL DEF Spec

\* However a trace ends, and a query, no function of the executor stays replaced by a
\* hook that has no state.
THEOREM NoHookLeft == Spec => []HooksHaveState
<1>1. IInv => HooksHaveState
  BY DEF IInv
<1>2. QED
  BY <1>1, Invariance, PTL

\* ExecutorRunNestLevel counts the traced executions on the stack, whatever errors,
\* starts and stops there are between them.
THEOREM LevelIsDepth == Spec => []NestLevelIsDepth
<1>1. IInv => NestLevelIsDepth
  BY DEF IInv
<1>2. QED
  BY <1>1, Invariance, PTL

\* The trace file is closed by the stop or by the outermost execution around it.
THEOREM FileGetsClosed == Spec => []FileIsClosed
<1>1. IInv => FileIsClosed
  BY DepthIsCounted, FS_EmptySet DEF IInv, NestLevelIsDepth, FileInv, FileIsClosed
<1>2. QED
  BY <1>1, Invariance, PTL

-----------------------------------------------------------------------------
\* Sequences of frames.

LEMMA AppendedFrames ==
    ASSUME NEW fr \in Seq(FrameSet), NEW f \in FrameSet
    PROVE  LET n == Len(fr) + 1
           IN  /\ n \in Nat \ {0}
               /\ Append(fr, f) \in Seq(FrameSet)
               /\ Len(Append(fr, f)) = n
               /\ DOMAIN fr = 1 .. Len(fr)
               /\ DOMAIN Append(fr, f) = (1 .. Len(fr)) \cup {n}
               /\ \A i \in 1 .. Len(fr) : Append(fr, f)[i] = fr[i] /\ i < n /\ i \in Nat
               /\ Append(fr, f)[n] = f
  OBVIOUS

LEMMA FrontFrames ==
    ASSUME NEW fr \in Seq(FrameSet), fr # <<>>
    PROVE  LET n == Len(fr)
           IN  /\ n \in Nat \ {0}
               /\ Front(fr) \in Seq(FrameSet)
               /\ Len(Front(fr)) = n - 1
               /\ DOMAIN fr = (1 .. n - 1) \cup {n}
               /\ DOMAIN Front(fr) = 1 .. n - 1
               /\ \A i \in 1 .. n - 1 : Front(fr)[i] = fr[i] /\ i < n /\ i \in Nat
               /\ Last(fr) = fr[n] /\ Last(fr) \in FrameSet
<1> DEFINE n == Len(fr)
<1>1. n \in Nat \ {0} /\ n - 1 \in Nat /\ fr[n] \in FrameSet /\ Front(fr) = SubSeq(fr, 1, n - 1)
  BY DEF Front
<1>2. /\ Front(fr) \in Seq(FrameSet) /\ Len(Front(fr)) = n - 1
      /\ \A i \in 1 .. n - 1 : Front(fr)[i] = fr[i]
  <2>1. n - 1 \in Int /\ n - 1 >= 0 /\ \A i \in 1 .. n - 1 : fr[i] \in FrameSet
    BY <1>1
  <2>2. \A i \in 1 .. n - 1 : SubSeq(fr, 1, n - 1)[i] = fr[i]
    BY <1>1
  <2>3. SubSeq(fr, 1, n - 1) \in Seq(FrameSet) /\ Len(SubSeq(fr, 1, n - 1)) = n - 1
    <3> HIDE DEF n
    <3>1. /\ SubSeq(fr, 1, n - 1) \in Seq(FrameSet)
          /\ Len(SubSeq(fr, 1, n - 1)) = IF 1 <= n - 1 THEN n - 1 - 1 + 1 ELSE 0
      BY <2>1, SubSeqProperties
    <3>2. QED
      BY <1>1, <2>1, <3>1
  <2>4. QED
    BY <1>1, <2>2, <2>3
<1>3. DOMAIN fr = 1 .. n /\ \A k \in Nat \ {0} : 1 .. k = (1 .. k - 1) \cup {k}
  OBVIOUS
<1>4. DOMAIN Front(fr) = 1 .. n - 1
  BY <1>2
<1>5. \A i \in 1 .. n - 1 : i < n /\ i \in Nat
  BY <1>1
<1>6. QED
  BY <1>1, <1>2, <1>3, <1>4, <1>5 DEF Last

LEMMA OrphanedFrames ==
    ASSUME frames \in Seq(FrameSet)
    PROVE  /\ DOMAIN Orphaned = DOMAIN frames
           /\ \A i \in DOMAIN frames :
                 /\ Orphaned[i].kind = frames[i].kind /\ Orphaned[i].query = frames[i].query
                 /\ Orphaned[i].traced = frames[i].traced /\ Orphaned[i].live = FALSE
<1>1. ASSUME NEW i \in DOMAIN frames
      PROVE  /\ Orphaned[i].kind = frames[i].kind /\ Orphaned[i].query = frames[i].query
             /\ Orphaned[i].traced = frames[i].traced /\ Orphaned[i].live = FALSE
  <2>1. frames[i] \in FrameSet
    OBVIOUS
  <2>2. QED
    BY <2>1 DEF FrameSet, Orphaned
<1>2. QED
  BY <1>1 DEF Orphaned

-----------------------------------------------------------------------------
\* The live frames of some kinds, and those up to one of them.

LiveIn(fr, kinds) == {i \in DOMAIN fr : fr[i].live /\ fr[i].kind \in kinds}
UpTo(fr, kinds, i) == {j \in LiveIn(fr, kinds) : j <= i}

LEMMA LiveFinite ==
    ASSUME NEW fr \in Seq(FrameSet), NEW kinds, NEW i
    PROVE  /\ LiveIn(fr, kinds) \subseteq 1 .. Len(fr)
           /\ IsFiniteSet(LiveIn(fr, kinds)) /\ Cardinality(LiveIn(fr, kinds)) \in Nat
           /\ UpTo(fr, kinds, i) \subseteq LiveIn(fr, kinds)
           /\ IsFiniteSet(UpTo(fr, kinds, i)) /\ Cardinality(UpTo(fr, kinds, i)) \in Nat
           /\ Cardinality(UpTo(fr, kinds, i)) <= Cardinality(LiveIn(fr, kinds))
           /\ Cardinality(UpTo(fr, kinds, i)) = Cardinality(LiveIn(fr, kinds)) =>
                 UpTo(fr, kinds, i) = LiveIn(fr, kinds)
<1>1. LiveIn(fr, kinds) \subseteq 1 .. Len(fr)
  BY DEF LiveIn
<1>2. IsFiniteSet(1 .. Len(fr))
  BY FS_Interval
<1>3. IsFiniteSet(LiveIn(fr, kinds))
  BY <1>1, <1>2, FS_Subset
<1>4. UpTo(fr, kinds, i) \subseteq LiveIn(fr, kinds)
  BY DEF UpTo
<1>5. QED
  BY <1>1, <1>3, <1>4, FS_Subset, FS_CardinalityType

LEMMA LiveEntered ==
    ASSUME NEW fr \in Seq(FrameSet), NEW f \in FrameSet, NEW kinds
    PROVE  LET enters == f.live /\ f.kind \in kinds
               n      == Len(fr) + 1
               now    == Append(fr, f)
           IN  /\ LiveIn(now, kinds) = LiveIn(fr, kinds) \cup IF enters THEN {n} ELSE {}
               /\ Cardinality(LiveIn(now, kinds)) =
                     Cardinality(LiveIn(fr, kinds)) + IF enters THEN 1 ELSE 0
               /\ \A i \in 1 .. Len(fr) : UpTo(now, kinds, i) = UpTo(fr, kinds, i)
               /\ UpTo(now, kinds, n) = LiveIn(now, kinds)
<1> DEFINE enters == f.live /\ f.kind \in kinds
           n      == Len(fr) + 1
           now    == Append(fr, f)
<1>1. /\ DOMAIN fr = 1 .. Len(fr) /\ DOMAIN now = (1 .. Len(fr)) \cup {n}
      /\ \A i \in 1 .. Len(fr) : now[i] = fr[i]
      /\ now[n] = f
      /\ n \notin 1 .. Len(fr) /\ \A i \in 1 .. Len(fr) : ~(n <= i) /\ i <= n
      /\ n <= n
  BY AppendedFrames
<1>2. LiveIn(now, kinds) = LiveIn(fr, kinds) \cup IF enters THEN {n} ELSE {}
  BY <1>1 DEF LiveIn
<1>3. n \notin LiveIn(fr, kinds) /\ IsFiniteSet(LiveIn(fr, kinds))
  BY <1>1, LiveFinite
<1>4. Cardinality(LiveIn(fr, kinds) \cup {n}) = Cardinality(LiveIn(fr, kinds)) + 1
  BY <1>3, FS_AddElement
<1>5. Cardinality(LiveIn(now, kinds)) =
          Cardinality(LiveIn(fr, kinds)) + IF enters THEN 1 ELSE 0
  <2>1. Cardinality(LiveIn(fr, kinds)) \in Nat
    BY LiveFinite
  <2>2. CASE enters
    <3>1. LiveIn(now, kinds) = LiveIn(fr, kinds) \cup {n}
      BY <1>2, <2>2
    <3>2. QED
      BY <1>4, <2>2, <3>1
  <2>3. CASE ~enters
    <3>1. LiveIn(now, kinds) = LiveIn(fr, kinds)
      BY <1>2, <2>3
    <3>2. QED
      BY <2>1, <2>3, <3>1
  <2>4. QED
    BY <2>2, <2>3
<1>6. LiveIn(fr, kinds) \subseteq 1 .. Len(fr)
  BY LiveFinite
<1> HIDE DEF n, now
<1>7. \A i \in 1 .. Len(fr) : UpTo(now, kinds, i) = UpTo(fr, kinds, i)
  BY <1>1, <1>2 DEF UpTo
<1>8. UpTo(now, kinds, n) = LiveIn(now, kinds)
  BY <1>1, <1>2, <1>6 DEF UpTo
<1>9. QED
  BY <1>2, <1>5, <1>7, <1>8 DEF n, now

LEMMA LiveLeft ==
    ASSUME NEW fr \in Seq(FrameSet), fr # <<>>, NEW kinds
    PROVE  LET leaves == Last(fr).live /\ Last(fr).kind \in kinds
               n      == Len(fr)
           IN  /\ LiveIn(Front(fr), kinds) = LiveIn(fr, kinds) \ {n}
               /\ n \in LiveIn(fr, kinds) <=> leaves
               /\ Cardinality(LiveIn(Front(fr), kinds)) =
                     Cardinality(LiveIn(fr, kinds)) - IF leaves THEN 1 ELSE 0
               /\ \A i \in 1 .. n - 1 : UpTo(Front(fr), kinds, i) = UpTo(fr, kinds, i)
               /\ UpTo(fr, kinds, n) = LiveIn(fr, kinds)
<1> DEFINE leaves == Last(fr).live /\ Last(fr).kind \in kinds
           n      == Len(fr)
<1>1. /\ n \in Nat
      /\ DOMAIN fr = (1 .. n - 1) \cup {n} /\ DOMAIN Front(fr) = 1 .. n - 1
      /\ \A i \in 1 .. n - 1 : Front(fr)[i] = fr[i]
      /\ Last(fr) = fr[n]
      /\ \A i \in 1 .. n - 1 : ~(n <= i) /\ i <= n /\ i # n
      /\ n <= n
  <2>1. n \in Nat /\ \A i \in 1 .. n - 1 : ~(n <= i) /\ i <= n /\ i # n
    OBVIOUS
  <2>2. /\ DOMAIN fr = (1 .. n - 1) \cup {n} /\ DOMAIN Front(fr) = 1 .. n - 1
        /\ \A i \in 1 .. n - 1 : Front(fr)[i] = fr[i]
        /\ Last(fr) = fr[n]
    BY FrontFrames
  <2>3. n <= n
    BY <2>1
  <2>4. QED
    BY <2>1, <2>2, <2>3
<1> HIDE DEF n
<1>2. LiveIn(Front(fr), kinds) = LiveIn(fr, kinds) \ {n}
  BY <1>1 DEF LiveIn
<1>3. n \in LiveIn(fr, kinds) <=> leaves
  BY <1>1 DEF LiveIn
<1>4. Cardinality(LiveIn(fr, kinds) \ {n}) =
         IF n \in LiveIn(fr, kinds) THEN Cardinality(LiveIn(fr, kinds)) - 1
                                    ELSE Cardinality(LiveIn(fr, kinds))
  BY LiveFinite, FS_RemoveElement
<1>5. Cardinality(LiveIn(Front(fr), kinds)) =
          Cardinality(LiveIn(fr, kinds)) - IF leaves THEN 1 ELSE 0
  BY <1>2, <1>3, <1>4, LiveFinite
<1>6. \A i \in 1 .. n - 1 : UpTo(Front(fr), kinds, i) = UpTo(fr, kinds, i)
  BY <1>1, <1>2 DEF UpTo
<1>7. UpTo(fr, kinds, n) = LiveIn(fr, kinds)
  BY <1>1 DEF UpTo, LiveIn
<1>8. QED
  BY <1>2, <1>3, <1>5, <1>6, <1>7 DEF n

-----------------------------------------------------------------------------
\* What is true of the frames.

\* Only a frame entered under the trace that is on is live, and it is above every traced
\* frame of an earlier trace.
LiveTraced == \A i \in DOMAIN frames : frames[i].live => frames[i].traced /\ tracing
LiveOnTop ==
    \A i, j \in DOMAIN frames :
        i < j /\ frames[i].live /\ frames[j].traced => frames[j].live
NodesTraced ==
    \A i \in DOMAIN frames : frames[i].kind \in {"node", "expr"} => frames[i].traced

\* A query is on the stack while it is started, alone, or when it is open.
OpenFrames ==
    \A i \in DOMAIN frames : frames[i].query \in open <=> frames[i].kind # "start"
StartAlone ==
    \A i, j \in DOMAIN frames :
        frames[i].kind = "start" /\ frames[i].query = frames[j].query => i = j

\* The frames of a query that has a state were entered under this trace.
StatesLive ==
    \A i \in DOMAIN frames :
        states[frames[i].query] # NoState /\ frames[i].kind # "triggers" => frames[i].live

NodesHaveState ==
    \A i \in DOMAIN frames :
        frames[i].live /\ frames[i].kind \in {"node", "expr"} =>
            states[frames[i].query] # NoState

\* Nodes and expressions are right above a traced execution of their query.
NodesAbove(fr, i, e) ==
    /\ fr[e].kind \in Executing /\ fr[e].traced
    /\ fr[e].query = fr[i].query
    /\ fr[e].live = fr[i].live
    /\ \A j \in DOMAIN fr : e < j /\ j <= i => fr[j].kind \in {"node", "expr"}
NodesOfExecution ==
    \A i \in DOMAIN frames : frames[i].kind \in {"node", "expr"} =>
        \E e \in DOMAIN frames : e < i /\ NodesAbove(frames, i, e)

\* What SessionSurvives excepts is remembered in time.
OldQueries ==
    \A i \in DOMAIN frames :
        frames[i].live /\ frames[i].kind \in Executing /\ states[frames[i].query] = NoState =>
            "old query" \in causes
Restarts ==
    /\ tracing => context
    /\ context => \A i \in DOMAIN frames :
          frames[i].traced /\ ~frames[i].live /\ frames[i].kind \in Executing =>
              "restarted" \in causes

FrameInv ==
    /\ LiveTraced /\ LiveOnTop /\ NodesTraced
    /\ OpenFrames /\ StartAlone /\ StatesLive
    /\ NodesHaveState /\ NodesOfExecution
    /\ OldQueries /\ Restarts

-----------------------------------------------------------------------------
\* What a step does to the frames.

Keeps(q) == (q \in open' <=> q \in open) /\ (states'[q] = NoState <=> states[q] = NoState)
KeepsFrames(I) == \A i \in I : Keeps(frames[i].query)

Passes ==
    /\ UNCHANGED <<frames, tracing, context>>
    /\ KeepsFrames(DOMAIN frames)
    /\ causes \subseteq causes'

\* A start, also one that fails.
Begins ==
    /\ ~tracing
    /\ UNCHANGED <<frames, open>>
    /\ \A q \in Queries : states[q] = NoState /\ states'[q] = NoState
    /\ tracing' => context'
    /\ context' => context \/ nestLevel = 0 \/ "restarted" \in causes'
    /\ causes \subseteq causes'

Ceases ==
    /\ tracing /\ ~tracing' /\ ~context'
    /\ frames' = Orphaned
    /\ UNCHANGED open
    /\ \A q \in Queries : states'[q] = NoState
    /\ causes \subseteq causes'

PushesExecution(f) ==
    /\ f.kind \in Executing
    /\ f.query \in open
    /\ f.live = tracing /\ f.traced = tracing
    /\ Keeps(f.query)
    /\ tracing /\ states[f.query] = NoState => "old query" \in causes'

PushesTriggers(f) == f.kind = "triggers" /\ f.query \in open /\ ~f.live

PushesStart(f) ==
    /\ f.kind = "start"
    /\ f.query \notin open
    /\ \A i \in DOMAIN frames : frames[i].query # f.query
    /\ f.live = tracing /\ f.traced = tracing

PushesNode(f) ==
    /\ f.kind \in {"node", "expr"}
    /\ f.live /\ f.traced /\ tracing
    /\ Evaluating
    /\ f.query = Top.query
    /\ states[f.query] # NoState
    /\ Keeps(f.query)

Pushes(f) ==
    /\ frames' = Append(frames, f)
    /\ UNCHANGED <<tracing, context, open>>
    /\ KeepsFrames(DOMAIN frames)
    /\ causes \subseteq causes'
    /\ PushesExecution(f) \/ PushesTriggers(f) \/ PushesStart(f) \/ PushesNode(f)

Pops ==
    /\ frames # <<>>
    /\ frames' = Front(frames)
    /\ UNCHANGED <<tracing, context>>
    /\ KeepsFrames(1 .. Len(frames) - 1)
    /\ causes \subseteq causes'

\* The states that ~tracing leaves, which is what a start finds.
LEMMA BeginningBegins ==
    ASSUME HooksHaveState, ControlType, nestLevel \in Nat, Restarts, Starting
    PROVE  Passes \/ Begins
<1>1. PICK ok : SessionTraceStart(ok) /\ UNCHANGED open
  BY DEF Starting, start_session_trace, StartPending
<1>2. CASE tracing
  BY <1>1, <1>2 DEF SessionTraceStart, Passes, KeepsFrames, Keeps, trace, nodes, history
<1>3. CASE ~tracing
  <2>1. \A q \in Queries : states[q] = NoState
    BY <1>3 DEF HooksHaveState
  <2>2. CASE StartSucceeds
    <3>1. /\ UNCHANGED frames /\ tracing' /\ context' /\ ExecutorTraceUprobesGet
          /\ nestLevel > 0 => "restarted" \in causes'
          /\ causes \subseteq causes'
      BY <2>2 DEF StartSucceeds
    <3>2. QED
      BY <1>1, <1>3, <2>1, <3>1 DEF Begins, ExecutorTraceUprobesGet
  <2>3. CASE StartCannotOpen
    <3>1. /\ UNCHANGED <<frames, tracing, states>> /\ context'
          /\ nestLevel > 0 => "restarted" \in causes'
          /\ causes \subseteq causes'
      BY <2>3 DEF StartCannotOpen, nodes
    <3>2. QED
      BY <1>1, <1>3, <2>1, <3>1 DEF Begins
  <2>4. CASE StartCannotAttach
    <3>1. /\ UNCHANGED <<frames, tracing>> /\ ~context' /\ ExecutorTraceUprobesGet
          /\ causes \subseteq causes'
      BY <2>4 DEF StartCannotAttach, Because
    <3>2. QED
      BY <1>1, <1>3, <2>1, <3>1 DEF Begins, ExecutorTraceUprobesGet
  <2>5. QED
    BY <1>1, <1>3, <2>2, <2>3, <2>4 DEF SessionTraceStart
<1>4. QED
  BY <1>2, <1>3

LEMMA StoppingCeases ==
    ASSUME Stopping
    PROVE  Passes \/ Ceases
<1>1. PICK closeFile, ok : SessionTraceStop(closeFile, ok) /\ UNCHANGED open
  BY DEF Stopping, stop_session_trace, StopPending
<1>2. CASE tracing
  <2>1. /\ tracing' = FALSE /\ context' = FALSE /\ ExecuteNodesStateClean
        /\ frames' = Orphaned /\ causes \subseteq causes'
    BY <1>1, <1>2 DEF SessionTraceStop
  <2>2. QED
    BY <1>1, <1>2, <2>1 DEF Ceases, ExecuteNodesStateClean
<1>3. CASE ~tracing
  BY <1>1, <1>3 DEF SessionTraceStop, Passes, KeepsFrames, Keeps, trace, nodes, history
<1>4. QED
  BY <1>2, <1>3

LEMMA ElsewherePasses ==
    ASSUME Elsewhere
    PROVE  Passes
<1> USE DEF trace, writing, control, history, Passes, KeepsFrames, Keeps, nodes
<1>1. ASSUME NEW s, SigHandler(s)
      PROVE  Passes
  BY <1>1 DEF SigHandler
<1>2. CASE Error \/ Catch
  BY <1>2 DEF Error, Catch
<1>3. CASE ParseOrPlan \/ ParseOrPlanFails
  BY <1>3 DEF ParseOrPlan, ParseOrPlanFails
<1>4. ASSUME NEW hasEvent, Wait(hasEvent)
      PROVE  Passes
  BY <1>4 DEF Wait
<1>5. CASE LockBuffer \/ PGSemaphoreLock
  BY <1>5 DEF LockBuffer, PGSemaphoreLock, Because
<1>6. CASE RaiseLimit \/ TraceNotNormalShutdown
  BY <1>6 DEF RaiseLimit, TraceNotNormalShutdown, Because
<1>7. CASE UNCHANGED vars
  BY <1>7 DEF vars
<1>8. ASSUME NEW q, ExecutorRewind(q)
      PROVE  Passes
  BY <1>8 DEF ExecutorRewind, Because
<1>9. QED
  BY <1>1, <1>2, <1>3, <1>4, <1>5, <1>6, <1>7, <1>8 DEF Elsewhere

LEMMA ExecutingPushes ==
    ASSUME ControlType, HooksHaveState, NEW q \in Queries, Executes(q)
    PROVE  \E f \in FrameSet :
              /\ Pushes(f) /\ f.query = q /\ f.kind \in Executing \cup {"triggers"}
              /\ IF f.live THEN BeforeExecution(q) ELSE UNCHANGED <<nodes, statistics>>
<1>1. q \in open
  BY DEF Executes
<1>2. CASE Execute("triggers", q, FALSE)
  <2> DEFINE f == Frame("triggers", q, FALSE)
  <2>1. f \in FrameSet /\ f.kind = "triggers" /\ f.query = q /\ ~f.live
    BY DEF Frame, FrameSet
  <2>2. /\ frames' = Append(frames, f)
        /\ UNCHANGED <<tracing, context, open, nodes, statistics, causes>>
    BY <1>2 DEF Execute, Enter, trace
  <2>3. Pushes(f)
    BY <1>1, <2>1, <2>2 DEF Pushes, PushesTriggers, KeepsFrames, Keeps, nodes
  <2>4. QED
    BY <2>1, <2>2, <2>3
<1>3. ASSUME NEW kind \in Executing, Execute(kind, q, tracing)
      PROVE  \E f \in FrameSet :
                /\ Pushes(f) /\ f.query = q /\ f.kind \in Executing \cup {"triggers"}
                /\ IF f.live THEN BeforeExecution(q) ELSE UNCHANGED <<nodes, statistics>>
  <2> DEFINE f == Frame(kind, q, tracing)
  <2>1. /\ f \in FrameSet /\ f.kind = kind /\ f.query = q
        /\ f.live = tracing /\ f.traced = tracing
    BY DEF Frame, FrameSet, ControlType
  <2>2. /\ frames' = Append(frames, f)
        /\ UNCHANGED <<tracing, context, open>>
    BY <1>3 DEF Execute, Enter, trace
  <2>3. CASE tracing
    <3>1. /\ BeforeExecution(q) /\ InitExecutorNodes(q)
          /\ causes' = IF states[q] = NoState THEN causes \cup {"old query"} ELSE causes
      BY <1>3, <2>3 DEF Execute, BeforeExecution, ProcessDescBeforeExec
    <3>2. \A r \in Queries : states'[r] = NoState <=> states[r] = NoState
      BY <3>1, ExecuteNodesAssumption DEF InitExecutorNodes, ControlType
    <3>3. \A i \in DOMAIN frames : frames[i].query \in Queries
      BY DEF ControlType, FrameSet
    <3>4. KeepsFrames(DOMAIN frames) /\ Keeps(q)
      BY <2>2, <3>2, <3>3 DEF KeepsFrames, Keeps
    <3>5. causes \subseteq causes' /\ (states[q] = NoState => "old query" \in causes')
      BY <3>1
    <3>6. Pushes(f)
      BY <1>1, <2>1, <2>2, <3>4, <3>5 DEF Pushes, PushesExecution
    <3>7. QED
      BY <2>1, <2>3, <3>1, <3>6
  <2>4. CASE ~tracing
    <3>1. UNCHANGED <<nodes, statistics, causes>>
      BY <1>3, <2>4 DEF Execute
    <3>2. Pushes(f)
      BY <1>1, <2>1, <2>2, <2>4, <3>1
         DEF Pushes, PushesExecution, KeepsFrames, Keeps, nodes
    <3>3. QED
      BY <2>1, <2>4, <3>1, <3>2
  <2>5. QED
    BY <2>3, <2>4
<1>4. QED
  BY <1>2, <1>3 DEF Executes

LEMMA StartingQueryPushes ==
    ASSUME ControlType, NEW q \in Queries, ExecutorStart(q)
    PROVE  \E f \in FrameSet : Pushes(f) /\ f.query = q /\ f.kind = "start"
<1> DEFINE f == Frame("start", q, tracing)
<1>1. /\ f \in FrameSet /\ f.kind = "start" /\ f.query = q
      /\ f.live = tracing /\ f.traced = tracing
  BY DEF Frame, FrameSet, ControlType
<1>2. /\ frames' = Append(frames, f)
      /\ UNCHANGED <<tracing, context, open, causes>>
      /\ q \notin open
      /\ \A i \in DOMAIN frames : frames[i].query # q
  BY DEF ExecutorStart, Enter, trace, history, OnStack
<1>3. \A r \in Queries \ {q} : states'[r] = states[r]
  BY DEF ExecutorStart, ExecuteNodesStateNew, nodes, ControlType
<1>4. \A i \in DOMAIN frames : frames[i].query \in Queries \ {q}
  BY <1>2 DEF ControlType, FrameSet
<1>5. KeepsFrames(DOMAIN frames)
  BY <1>2, <1>3, <1>4 DEF KeepsFrames, Keeps
<1>6. QED
  BY <1>1, <1>2, <1>5 DEF Pushes, PushesStart

LEMMA EndingPasses ==
    ASSUME ControlType, NEW q \in Queries, ExecutorEnd(q)
    PROVE  Passes
<1>1. /\ UNCHANGED <<frames, tracing, context, causes>>
      /\ open' = open \ {q}
      /\ \A i \in DOMAIN frames : frames[i].query # q
      /\ states' = [states EXCEPT ![q] = NoState]
  BY DEF ExecutorEnd, ExecuteNodesStateDelete, trace, control, history, OnStack
<1>2. \A i \in DOMAIN frames : frames[i].query \in Queries \ {q}
  BY <1>1 DEF ControlType, FrameSet
<1>3. \A r \in Queries \ {q} : states'[r] = states[r]
  BY <1>1 DEF ControlType
<1>4. QED
  BY <1>1, <1>2, <1>3 DEF Passes, KeepsFrames, Keeps

\* A hook is replaced in a query that has a state, so the frame below is live.
LEMMA HookPushes ==
    ASSUME ControlType, HooksHaveState, TraceExecProcNodeHook \/ TraceExprNodeHook
    PROVE  \/ Passes
           \/ /\ currentState = Top.query
              /\ \E f \in FrameSet : Pushes(f) /\ f.kind \in {"node", "expr"}
<1>1. PICK kind \in {"node", "expr"} : Hook(kind) /\ Evaluating /\ kind \in hooked[Top.query]
  BY DEF TraceExecProcNodeHook, TraceExprNodeHook, Evaluating
<1>2. Top \in FrameSet /\ Top.query \in Queries
  BY <1>1, CountLeft DEF InPlan, Evaluating, Top, FrameSet, ControlType
<1>3. states[Top.query] # NoState /\ tracing
  BY <1>1, <1>2 DEF HooksHaveState, ControlType
<1>4. UNCHANGED <<tracing, context, open, states, causes>>
  BY <1>1 DEF Hook, trace, nodes, history
<1>5. CASE currentState = Top.query
  <2> DEFINE f == Frame(kind, Top.query, TRUE)
  <2>1. frames' = Append(frames, f)
    BY <1>1, <1>2, <1>5, ExecuteNodesAssumption DEF Hook, Enter
  <2>2. f \in FrameSet /\ f.kind = kind /\ f.query = Top.query /\ f.live /\ f.traced
    BY <1>2 DEF Frame, FrameSet
  <2>3. Pushes(f)
    <3> HIDE DEF f
    <3> QED
    BY <1>1, <1>3, <1>4, <2>1, <2>2 DEF Pushes, PushesNode, KeepsFrames, Keeps
  <2>4. QED
    BY <1>5, <2>2, <2>3
<1>6. CASE currentState # Top.query
  <2>1. frames' = frames
    BY <1>1, <1>6 DEF Hook
  <2>2. QED
    BY <1>4, <2>1 DEF Passes, KeepsFrames, Keeps
<1>7. QED
  BY <1>5, <1>6

\* The query of a frame that is left has another one, or is not kept.
LEMMA LeavingPops ==
    ASSUME ControlType, OpenFrames, StartAlone, Leaving
    PROVE  Pops
<1>1. /\ frames # <<>> /\ frames' = Front(frames) /\ UNCHANGED <<tracing, context>>
  BY LeaveStack
<1>2. causes' = causes
  BY DEF Leaving, ReturnFromStart, UnwindStart, ReturnFromExecution, UnwindExecution,
         ReturnFromHook, UnwindHook, history
<1> DEFINE n == Len(frames)
           Below == 1 .. n - 1
<1>3. /\ Top = frames[n] /\ n \in DOMAIN frames /\ Top \in FrameSet
      /\ \A i \in Below : i \in DOMAIN frames /\ i # n /\ frames[i] \in FrameSet
  <2>1. n \in Nat \ {0} /\ Last(frames) = frames[n] /\ DOMAIN frames = Below \cup {n}
    BY <1>1, FrontFrames DEF ControlType
  <2>2. \A i \in DOMAIN frames : frames[i] \in FrameSet
    BY DEF ControlType
  <2>3. \A k \in Nat : \A i \in 1 .. k - 1 : i # k
    OBVIOUS
  <2>4. QED
    BY <2>1, <2>2, <2>3 DEF Top
<1> HIDE DEF n
<1>4. CASE Top.kind = "start" /\ (ReturnFromStart \/ UnwindStart)
  <2>1. \A i \in Below : frames[i].query # Top.query /\ frames[i].query \in Queries
    BY <1>3, <1>4 DEF StartAlone, FrameSet
  <2>2. \A q \in Queries \ {Top.query} : Keeps(q)
    BY <1>4 DEF ReturnFromStart, UnwindStart, Keeps, ExecuteNodesStateDelete, nodes,
                ControlType
  <2>3. KeepsFrames(Below)
    BY <2>1, <2>2 DEF KeepsFrames
  <2>4. QED
    BY <1>1, <1>2, <2>3 DEF Pops, n
<1>5. CASE UnwindExecution
  <2>1. CASE \E i \in Below : frames[i].query = Top.query
    <3>1. UNCHANGED <<states, open>>
      BY <1>5, <2>1 DEF UnwindExecution, n
    <3>2. KeepsFrames(Below)
      BY <3>1 DEF KeepsFrames, Keeps
    <3>3. QED
      BY <1>1, <1>2, <3>2 DEF Pops, n
  <2>2. CASE ~ \E i \in Below : frames[i].query = Top.query
    <3>1. open' = open \ {Top.query} /\ states' = [states EXCEPT ![Top.query] = NoState]
      BY <1>5, <2>2 DEF UnwindExecution, ExecuteNodesStateDelete, n
    <3>2. \A i \in Below : frames[i].query \in Queries \ {Top.query}
      BY <1>3, <2>2 DEF FrameSet
    <3>3. \A q \in Queries \ {Top.query} : Keeps(q)
      BY <3>1 DEF Keeps, ControlType
    <3>4. KeepsFrames(Below)
      BY <3>2, <3>3 DEF KeepsFrames
    <3>5. QED
      BY <1>1, <1>2, <3>4 DEF Pops, n
  <2>3. QED
    BY <2>1, <2>2
<1>6. CASE ReturnFromExecution \/ ReturnFromHook \/ UnwindHook
  <2>1. UNCHANGED <<states, open>>
    BY <1>6 DEF ReturnFromExecution, ReturnFromHook, UnwindHook, nodes
  <2>2. KeepsFrames(Below)
    BY <2>1 DEF KeepsFrames, Keeps
  <2>3. QED
    BY <1>1, <1>2, <2>2 DEF Pops, n
<1>7. QED
  BY <1>4, <1>5, <1>6 DEF Leaving, ReturnFromStart, UnwindStart

LEMMA FrameEffects ==
    ControlType /\ HooksHaveState /\ NestLevelIsDepth /\ FrameInv /\ [Next]_vars =>
        Passes \/ Begins \/ Ceases \/ (\E f \in FrameSet : Pushes(f)) \/ Pops
<1> SUFFICES ASSUME ControlType, HooksHaveState, NestLevelIsDepth, FrameInv, [Next]_vars
             PROVE  Passes \/ Begins \/ Ceases \/ (\E f \in FrameSet : Pushes(f)) \/ Pops
  OBVIOUS
<1>0. nestLevel \in Nat
  BY DepthIsCounted, CountedFinite DEF ControlType, NestLevelIsDepth
<1>1. CASE Starting
  BY <1>0, <1>1, BeginningBegins DEF FrameInv
<1>2. CASE Stopping \/ Elsewhere
  BY <1>2, StoppingCeases, ElsewherePasses
<1>3. ASSUME NEW q \in Queries, Executes(q) \/ ExecutorStart(q) \/ ExecutorEnd(q)
      PROVE  Passes \/ (\E f \in FrameSet : Pushes(f))
  BY <1>3, ExecutingPushes, StartingQueryPushes, EndingPasses
<1>4. CASE TraceExecProcNodeHook \/ TraceExprNodeHook
  BY <1>4, HookPushes
<1>5. CASE Leaving
  BY <1>5, LeavingPops DEF FrameInv
<1>6. QED
  BY <1>1, <1>2, <1>3, <1>4, <1>5, Steps

-----------------------------------------------------------------------------
\* What is true of the frames stays so.

LEMMA PassesFrames ==
    ASSUME ControlType, FrameInv, Passes
    PROVE  FrameInv'
<1> USE DEF Passes, KeepsFrames, Keeps, FrameInv
<1>1. LiveTraced' /\ LiveOnTop' /\ NodesTraced'
  BY DEF LiveTraced, LiveOnTop, NodesTraced
<1>2. OpenFrames' /\ StartAlone' /\ StatesLive'
  BY DEF OpenFrames, StartAlone, StatesLive
<1>3. NodesHaveState' /\ NodesOfExecution'
  BY DEF NodesHaveState, NodesOfExecution, NodesAbove
<1>4. OldQueries' /\ Restarts'
  BY DEF OldQueries, Restarts
<1>5. QED
  BY <1>1, <1>2, <1>3, <1>4

LEMMA BeginsFrames ==
    ASSUME ControlType, NestLevelIsDepth, FrameInv, Begins
    PROVE  FrameInv'
<1> USE DEF Begins, FrameInv
<1>0. \A i \in DOMAIN frames : frames[i].query \in Queries
  BY DEF ControlType, FrameSet
<1>a. \A i \in DOMAIN frames : ~frames[i].live
  BY DEF LiveTraced
<1>1. LiveTraced' /\ LiveOnTop' /\ NodesTraced'
  BY <1>a DEF LiveTraced, LiveOnTop, NodesTraced
<1>2. OpenFrames' /\ StartAlone' /\ StatesLive'
  BY <1>0, <1>a DEF OpenFrames, StartAlone, StatesLive
<1>3. NodesHaveState' /\ NodesOfExecution'
  BY <1>a DEF NodesHaveState, NodesOfExecution, NodesAbove
<1>4. OldQueries'
  BY <1>a DEF OldQueries
<1>5. Restarts'
  <2>1. nestLevel = 0 =>
            \A i \in DOMAIN frames : ~(frames[i].traced /\ frames[i].kind \in Executing)
    <3>1. IsFiniteSet(Counted(frames)) /\ nestLevel = Cardinality(Counted(frames))
      BY CountedFinite, DepthIsCounted DEF NestLevelIsDepth, ControlType
    <3>2. nestLevel = 0 => Counted(frames) = {}
      BY <3>1, FS_EmptySet
    <3>3. QED
      BY <3>2 DEF Counted
  <2>2. QED
    BY <2>1 DEF Restarts
<1>6. QED
  BY <1>1, <1>2, <1>3, <1>4, <1>5

LEMMA CeasesFrames ==
    ASSUME ControlType, FrameInv, Ceases
    PROVE  FrameInv'
<1> USE DEF FrameInv
<1>0. \A i \in DOMAIN frames : frames[i].query \in Queries
  BY DEF ControlType, FrameSet
<1>1. /\ DOMAIN frames' = DOMAIN frames
      /\ \A i \in DOMAIN frames :
            /\ frames'[i].kind = frames[i].kind /\ frames'[i].query = frames[i].query
            /\ frames'[i].traced = frames[i].traced /\ frames'[i].live = FALSE
  BY OrphanedFrames DEF Ceases, ControlType
<1>2. /\ ~context' /\ ~tracing' /\ open' = open
      /\ \A q \in Queries : states'[q] = NoState
  BY DEF Ceases
<1>3. LiveTraced' /\ LiveOnTop' /\ NodesTraced'
  BY <1>1 DEF LiveTraced, LiveOnTop, NodesTraced
<1>4. OpenFrames' /\ StartAlone' /\ StatesLive' /\ NodesHaveState'
  BY <1>0, <1>1, <1>2 DEF OpenFrames, StartAlone, StatesLive, NodesHaveState
<1>5. NodesOfExecution'
  <2>1. ASSUME NEW i \in DOMAIN frames, frames[i].kind \in {"node", "expr"}
        PROVE  \E e \in DOMAIN frames : e < i /\ NodesAbove(frames', i, e)
    <3>1. PICK e \in DOMAIN frames : e < i /\ NodesAbove(frames, i, e)
      BY <2>1 DEF NodesOfExecution
    <3>2. NodesAbove(frames', i, e)
      BY <1>1, <3>1 DEF NodesAbove
    <3>3. QED
      BY <3>1, <3>2
  <2>2. QED
    BY <1>1, <2>1 DEF NodesOfExecution
<1>6. OldQueries' /\ Restarts'
  BY <1>1, <1>2 DEF OldQueries, Restarts
<1>7. QED
  BY <1>3, <1>4, <1>5, <1>6

LEMMA PushesFrames ==
    ASSUME ControlType, HooksHaveState', FrameInv, NEW f \in FrameSet, Pushes(f)
    PROVE  FrameInv'
<1> DEFINE n == Len(frames) + 1
           D == 1 .. Len(frames)
<1>1. /\ DOMAIN frames = D /\ DOMAIN frames' = D \cup {n}
      /\ \A i \in D : frames'[i] = frames[i] /\ i < n /\ i \in Nat
      /\ frames'[n] = f
      /\ n \in Nat
  BY AppendedFrames DEF Pushes, ControlType
<1>2. /\ \A i \in D : Keeps(frames[i].query) /\ frames[i].query \in Queries
      /\ UNCHANGED <<tracing, context, open>> /\ causes \subseteq causes'
      /\ f.query \in Queries
  BY <1>1 DEF Pushes, KeepsFrames, ControlType, FrameSet
<1>3. PushesExecution(f) \/ PushesTriggers(f) \/ PushesStart(f) \/ PushesNode(f)
  BY DEF Pushes
<1>4. /\ f.live => f.traced /\ tracing
      /\ f.traced /\ tracing => f.live
      /\ f.kind \in {"node", "expr"} => f.traced
  BY <1>3 DEF PushesExecution, PushesTriggers, PushesStart, PushesNode, FrameSet
<1> USE DEF FrameInv
<1> DEFINE t == Len(frames)
<1>5. ASSUME PushesNode(f)
      PROVE  /\ t \in D /\ f.query = frames[t].query /\ f.live = frames[t].live
             /\ frames[t].kind \in Executing \cup {"node", "expr"}
             /\ f.query \in open /\ frames[t].traced
  <2>1. t \in D /\ Top = frames[t]
    <3>1. frames # <<>>
      BY <1>5 DEF PushesNode, InPlan, Evaluating
    <3>2. t \in Nat \ {0} /\ Last(frames) = frames[t]
      BY <3>1, FrontFrames DEF ControlType
    <3>3. QED
      BY <3>2 DEF Top
  <2>2. f.query = frames[t].query /\ frames[t].kind \in Executing \cup {"node", "expr"}
    BY <1>5, <2>1 DEF PushesNode, InPlan, Evaluating
  <2>3. f.query \in open
    BY <1>1, <2>1, <2>2 DEF OpenFrames
  <2>4. frames[t].live /\ f.live
    BY <1>1, <1>5, <2>1, <2>2 DEF PushesNode, StatesLive
  <2>a. frames[t].traced
    BY <1>1, <2>1, <2>4 DEF LiveTraced
  <2>5. f.live \in BOOLEAN /\ frames[t].live \in BOOLEAN
    BY <1>1, <2>1 DEF FrameSet, ControlType
  <2>6. QED
    BY <2>1, <2>2, <2>3, <2>4, <2>a, <2>5
<1>a. n = t + 1 /\ t \in Nat
  BY DEF ControlType
<1> HIDE DEF t
<1> HIDE DEF n, D
<1>6. LiveTraced' /\ NodesTraced'
  BY <1>1, <1>2, <1>4 DEF LiveTraced, NodesTraced
<1>7. LiveOnTop'
  <2>1. \A i \in D : frames[i].live => tracing
    BY <1>1 DEF LiveTraced
  <2>2. \A i \in D : ~(n < i)
    BY <1>1
  <2>3. ~(n < n)
    BY <1>1
  <2>4. QED
    BY <1>1, <1>4, <2>1, <2>2, <2>3 DEF LiveOnTop
<1>8. OpenFrames'
  BY <1>1, <1>2, <1>3, <1>5 DEF OpenFrames, PushesExecution, PushesTriggers, PushesStart,
     PushesNode, Keeps
<1>9. StartAlone'
  BY <1>1, <1>2, <1>3, <1>5 DEF StartAlone, PushesExecution, PushesTriggers, PushesStart,
     PushesNode, OpenFrames
<1>10. StatesLive'
  <2>1. ~tracing => \A q \in Queries : states'[q] = NoState
    BY <1>2 DEF HooksHaveState
  <2>2. f.kind # "triggers" /\ tracing => f.live
    BY <1>3 DEF PushesExecution, PushesTriggers, PushesStart, PushesNode
  <2>3. QED
    BY <1>1, <1>2, <2>1, <2>2 DEF StatesLive, Keeps
<1>b. NodesHaveState'
  <2>1. f.kind \in {"node", "expr"} => states'[f.query] # NoState
    BY <1>3 DEF PushesExecution, PushesTriggers, PushesStart, PushesNode, Keeps
  <2>2. QED
    BY <1>1, <1>2, <2>1 DEF NodesHaveState, Keeps
<1>11. OldQueries'
  <2>1. f.live /\ f.kind \in Executing /\ states'[f.query] = NoState => "old query" \in causes'
    BY <1>3 DEF PushesExecution, PushesTriggers, PushesStart, PushesNode, Keeps
  <2>2. QED
    BY <1>1, <1>2, <2>1 DEF OldQueries, Keeps
<1>12. Restarts'
  <2>1. f.kind \in Executing /\ f.traced => f.live
    BY <1>3 DEF PushesExecution, PushesTriggers, PushesStart, PushesNode
  <2>2. QED
    BY <1>1, <1>2, <2>1 DEF Restarts
<1>13. NodesOfExecution'
  <2>1. ASSUME NEW i \in D, frames[i].kind \in {"node", "expr"}
        PROVE  \E e \in D : e < i /\ NodesAbove(frames, i, e) /\ NodesAbove(frames', i, e)
    <3>1. PICK e \in D : e < i /\ NodesAbove(frames, i, e)
      BY <1>1, <2>1 DEF NodesOfExecution
    <3>2. ~(n <= i)
      BY <1>1
    <3>3. NodesAbove(frames', i, e)
      BY <1>1, <3>1, <3>2 DEF NodesAbove
    <3>4. QED
      BY <3>1, <3>3
  <2>2. ASSUME PushesNode(f)
        PROVE  \E e \in D : e < n /\ NodesAbove(frames', n, e)
    <3>1. /\ t \in D /\ f.query = frames[t].query /\ f.live = frames[t].live
          /\ frames[t].kind \in Executing \cup {"node", "expr"}
          /\ frames[t].traced
      BY <1>5, <2>2
    <3>3. CASE frames[t].kind \in Executing
      <4>1. \A j \in D \cup {n} : t < j /\ j <= n => j = n
        <5>1. \A j \in D : j <= t
          BY <1>1, <1>a
        <5>2. QED
          BY <1>1, <1>a, <5>1
      <4>2. NodesAbove(frames', n, t)
        BY <1>1, <2>2, <3>1, <3>3, <4>1 DEF NodesAbove, PushesNode
      <4>3. QED
        BY <1>1, <3>1, <4>2
    <3>4. CASE frames[t].kind \in {"node", "expr"}
      <4>1. PICK e \in D : e < t /\ NodesAbove(frames, t, e)
        BY <1>1, <3>1, <3>4 DEF NodesOfExecution
      <4>2. \A j \in D : j <= t
        BY <1>1, <1>a
      <4>3. NodesAbove(frames', n, e)
        BY <1>1, <2>2, <3>1, <4>1, <4>2 DEF NodesAbove, PushesNode
      <4>4. QED
        BY <1>1, <4>3
    <3>5. QED
      BY <3>1, <3>3, <3>4
  <2>3. f.kind \in {"node", "expr"} => PushesNode(f)
    BY <1>3 DEF PushesExecution, PushesTriggers, PushesStart
  <2>4. QED
    BY <1>1, <2>1, <2>2, <2>3 DEF NodesOfExecution
<1>14. QED
  BY <1>6, <1>7, <1>8, <1>9, <1>10, <1>b, <1>11, <1>12, <1>13

LEMMA PopsFrames ==
    ASSUME ControlType, FrameInv, Pops
    PROVE  FrameInv'
<1> DEFINE D == 1 .. Len(frames) - 1
<1>1. /\ DOMAIN frames' = D /\ D \subseteq DOMAIN frames
      /\ \A i \in D : frames'[i] = frames[i]
      /\ \A i \in D : \A j \in DOMAIN frames : j < i => j \in D
  <2>1. /\ DOMAIN Front(frames) = D /\ DOMAIN frames = D \cup {Len(frames)}
        /\ \A i \in D : Front(frames)[i] = frames[i] /\ i < Len(frames) /\ i \in Nat
        /\ Len(frames) \in Nat
    BY FrontFrames DEF Pops, ControlType
  <2>2. \A i \in D : ~(Len(frames) < i)
    <3>1. \A i, k \in Nat : i < k => ~(k < i)
      OBVIOUS
    <3>2. QED
      BY <2>1, <3>1
  <2>3. QED
    BY <2>1, <2>2 DEF Pops
<1>2. /\ \A i \in D : Keeps(frames[i].query)
      /\ UNCHANGED <<tracing, context>> /\ causes \subseteq causes'
  BY DEF Pops, KeepsFrames
<1> HIDE DEF D
<1> USE DEF FrameInv, Keeps
<1>3. LiveTraced' /\ LiveOnTop' /\ NodesTraced'
  BY <1>1, <1>2 DEF LiveTraced, LiveOnTop, NodesTraced
<1>4. OpenFrames' /\ StartAlone' /\ StatesLive' /\ NodesHaveState'
  BY <1>1, <1>2 DEF OpenFrames, StartAlone, StatesLive, NodesHaveState
<1>5. NodesOfExecution'
  <2>1. ASSUME NEW i \in D, frames[i].kind \in {"node", "expr"}
        PROVE  \E e \in D : e < i /\ NodesAbove(frames', i, e)
    <3>1. PICK e \in DOMAIN frames : e < i /\ NodesAbove(frames, i, e)
      BY <1>1, <2>1 DEF NodesOfExecution
    <3>2. e \in D
      BY <1>1, <3>1
    <3>3. NodesAbove(frames', i, e)
      BY <1>1, <3>1, <3>2 DEF NodesAbove
    <3>4. QED
      BY <3>1, <3>2, <3>3
  <2>2. QED
    BY <1>1, <2>1 DEF NodesOfExecution
<1>6. OldQueries' /\ Restarts'
  BY <1>1, <1>2 DEF OldQueries, Restarts
<1>7. QED
  BY <1>3, <1>4, <1>5, <1>6

LEMMA FrameStep == IInv /\ FrameInv /\ [Next]_vars => FrameInv'
  BY FrameEffects, HooksStep, PassesFrames, BeginsFrames, CeasesFrames, PushesFrames, PopsFrames
     DEF IInv

-----------------------------------------------------------------------------
\* The stack of states.

\* A query or an execution of it is entered with a state.
Entering == Executing \cup {"start"}

\* The state that was current in the k-th frame entered, from 0.
Saved(k) == IF k = Len(stateStack) THEN currentState ELSE stateStack[k + 1]

\* The entries are the states the live frames found, in the order of the frames.
StackInv ==
    tracing /\ outcome = "ok" =>
        /\ Len(stateStack) = Cardinality(LiveIn(frames, Entering))
        /\ Saved(0) = NoState
        /\ \A k \in 1 .. Len(stateStack) :
              \E i \in LiveIn(frames, Entering) :
                 /\ Cardinality(UpTo(frames, Entering, i)) = k
                 /\ Saved(k) = Found(frames[i].query)

StackType ==
    /\ currentState \in Queries \cup {NoState}
    /\ stateStack \in Seq(Queries \cup {NoState})

\* The innermost of the frames is the one that has all of them below it.
LEMMA Innermost ==
    ASSUME ControlType, StackType, StackInv, tracing, outcome = "ok"
    PROVE  /\ LiveIn(frames, Entering) = {} => currentState = NoState /\ stateStack = <<>>
           /\ LiveIn(frames, Entering) # {} =>
                 \E i \in LiveIn(frames, Entering) :
                    /\ \A j \in LiveIn(frames, Entering) : j <= i
                    /\ currentState = Found(frames[i].query)
<1> DEFINE E == LiveIn(frames, Entering)
           n == Len(stateStack)
<1>1. /\ n = Cardinality(E) /\ n \in Nat /\ IsFiniteSet(E)
      /\ Saved(n) = currentState
  BY LiveFinite DEF StackInv, ControlType, Saved
<1>2. CASE E = {}
  <2>1. n = 0
    BY <1>1, <1>2, FS_EmptySet
  <2>2. QED
    BY <1>1, <1>2, <2>1 DEF StackInv, StackType
<1>3. CASE E # {}
  <2>1. n \in 1 .. n
    BY <1>1, <1>3, FS_EmptySet
  <2>2. PICK i \in E : /\ Cardinality(UpTo(frames, Entering, i)) = n
                       /\ Saved(n) = Found(frames[i].query)
    BY <2>1 DEF StackInv
  <2>3. UpTo(frames, Entering, i) = E
    BY <1>1, <2>2, LiveFinite DEF ControlType
  <2>4. \A j \in E : j <= i
    BY <2>3 DEF UpTo
  <2>5. QED
    BY <1>1, <1>3, <2>2, <2>4
<1>4. QED
  BY <1>2, <1>3

LEMMA StackKept ==
    ASSUME StackInv, tracing, outcome = "ok", UNCHANGED <<currentState, stateStack>>,
           LiveIn(frames, Entering)' = LiveIn(frames, Entering),
           \A i \in LiveIn(frames, Entering) :
              /\ UpTo(frames', Entering, i) = UpTo(frames, Entering, i)
              /\ frames'[i].query = frames[i].query
              /\ Keeps(frames[i].query)
    PROVE  StackInv'
<1>1. \A k : Saved(k)' = Saved(k)
  BY DEF Saved
<1>2. \A i \in LiveIn(frames, Entering) : Found(frames[i].query)' = Found(frames[i].query)
  BY DEF Found, Keeps
<1>3. QED
  BY <1>1, <1>2 DEF StackInv

LEMMA StackPushed ==
    ASSUME ControlType, StackType, StackInv, tracing, outcome = "ok",
           NEW f \in FrameSet, f.live, f.kind \in Entering,
           frames' = Append(frames, f), KeepsFrames(DOMAIN frames),
           stateStack' = Append(stateStack, currentState), currentState' = Found(f.query)'
    PROVE  StackInv'
<1> DEFINE E == LiveIn(frames, Entering)
           n == Len(frames) + 1
           m == Len(stateStack)
<1>1. /\ E \subseteq 1 .. Len(frames)
      /\ LiveIn(frames', Entering) = E \cup {n}
      /\ Cardinality(LiveIn(frames', Entering)) = Cardinality(E) + 1
      /\ \A i \in 1 .. Len(frames) : UpTo(frames', Entering, i) = UpTo(frames, Entering, i)
      /\ UpTo(frames', Entering, n) = LiveIn(frames', Entering)
  BY LiveFinite, LiveEntered DEF ControlType
<1>2. /\ \A i \in 1 .. Len(frames) : frames'[i] = frames[i] /\ i \in DOMAIN frames
      /\ frames'[n] = f
  BY AppendedFrames DEF ControlType
<1>3. /\ m \in Nat /\ m = Cardinality(E)
      /\ Len(stateStack') = m + 1
      /\ \A k \in 1 .. m : stateStack'[k] = stateStack[k]
      /\ stateStack'[m + 1] = currentState
  BY DEF StackInv, StackType
<1>4. \A k \in 0 .. m : Saved(k)' = Saved(k)
  <2>1. \A k \in 0 .. m : k # m + 1 /\ (k = m \/ k + 1 \in 1 .. m)
    BY <1>3
  <2> HIDE DEF m
  <2>2. QED
    BY <1>3, <2>1 DEF Saved, m
<1>5. \A k : k = m + 1 => Saved(k)' = Found(f.query)'
  BY <1>3 DEF Saved
<1>6. \A i \in E : Found(frames[i].query)' = Found(frames[i].query)
  BY <1>1, <1>2 DEF Found, Keeps, KeepsFrames
<1>7. Saved(0)' = NoState
  BY <1>3, <1>4 DEF StackInv
<1>8. ASSUME NEW k \in 1 .. m + 1
      PROVE  \E i \in E \cup {n} :
                /\ Cardinality(UpTo(frames', Entering, i)) = k
                /\ Saved(k)' = Found(frames[i].query)'
  <2>1. CASE k = m + 1
    <3>1. \A i : i = n => Found(frames[i].query)' = Found(f.query)'
      BY <1>2 DEF Found
    <3>2. Cardinality(UpTo(frames', Entering, n)) = m + 1
      BY <1>1, <1>3
    <3>3. Saved(k)' = Found(f.query)'
      BY <1>5, <2>1
    <3>4. QED
      BY <2>1, <3>1, <3>2, <3>3
  <2>2. CASE k \in 1 .. m
    <3>1. PICK i \in E : /\ Cardinality(UpTo(frames, Entering, i)) = k
                         /\ Saved(k) = Found(frames[i].query)
      BY <2>2 DEF StackInv
    <3>2. k \in 0 .. m
      BY <1>3, <2>2
    <3>3. Saved(k)' = Found(frames[i].query)'
      BY <1>4, <1>6, <3>1, <3>2
    <3>4. QED
      BY <1>1, <3>1, <3>3
  <2>3. \A l \in Nat : \A j \in 1 .. l + 1 : j = l + 1 \/ j \in 1 .. l
    OBVIOUS
  <2>4. QED
    BY <1>3, <2>1, <2>2, <2>3
<1>9. QED
  BY <1>1, <1>3, <1>7, <1>8 DEF StackInv

LEMMA StackPopped ==
    ASSUME ControlType, StackType, StackInv, tracing, outcome = "ok",
           frames # <<>>, Top.live, Top.kind \in Entering,
           frames' = Front(frames), KeepsFrames(1 .. Len(frames) - 1),
           ExecuteNodesStatePop
    PROVE  StackInv'
<1> DEFINE E == LiveIn(frames, Entering)
           n == Len(frames)
           m == Len(stateStack)
<1>1. /\ E \subseteq 1 .. n /\ IsFiniteSet(E)
      /\ LiveIn(frames', Entering) = E \ {n}
      /\ n \in E
      /\ Cardinality(LiveIn(frames', Entering)) = Cardinality(E) - 1
      /\ \A i \in 1 .. n - 1 : UpTo(frames', Entering, i) = UpTo(frames, Entering, i)
      /\ UpTo(frames, Entering, n) = E
  BY LiveFinite, LiveLeft DEF ControlType, Top
<1>2. /\ n \in Nat /\ \A i \in 1 .. n - 1 : frames'[i] = frames[i]
  BY FrontFrames DEF ControlType
<1>3. m \in Nat \ {0} /\ m = Cardinality(E)
  <2>1. m = Cardinality(E) /\ m \in Nat
    BY DEF StackInv, StackType
  <2>2. Cardinality(E) # 0
    BY <1>1, FS_EmptySet
  <2>3. QED
    BY <2>1, <2>2
<1>4. /\ stateStack # <<>>
      /\ currentState' = stateStack[m]
      /\ Len(stateStack') = m - 1
      /\ \A k \in 1 .. m - 1 : stateStack'[k] = stateStack[k]
  <2>1. stateStack # <<>> /\ stateStack \in Seq(Queries \cup {NoState})
    BY <1>3 DEF StackType
  <2>2. stateStack' = SubSeq(stateStack, 1, m - 1) /\ currentState' = stateStack[m]
    BY <2>1 DEF ExecuteNodesStatePop, Front, Last
  <2>3. QED
    BY <1>3, <2>1, <2>2
<1>5. \A k \in 0 .. m - 1 : Saved(k)' = Saved(k)
  <2>1. \A k \in 0 .. m - 1 : k # m /\ (k = m - 1 \/ k + 1 \in 1 .. m - 1)
    BY <1>3
  <2>2. \A k \in 0 .. m - 1 : Saved(k) = stateStack[k + 1]
    BY <2>1 DEF Saved
  <2>3. m - 1 + 1 = m
    BY <1>3
  <2> HIDE DEF m
  <2>4. QED
    BY <1>4, <2>1, <2>2, <2>3 DEF Saved
<1>6. \A i \in E \ {n} : i \in 1 .. n - 1
  BY <1>1, <1>2
<1>7. \A i \in E \ {n} : Found(frames[i].query)' = Found(frames[i].query)
  BY <1>2, <1>6 DEF Found, Keeps, KeepsFrames
<1>8. Saved(0)' = NoState
  BY <1>3, <1>5 DEF StackInv
<1>9. ASSUME NEW k \in 1 .. m - 1
      PROVE  \E i \in E \ {n} :
                /\ Cardinality(UpTo(frames', Entering, i)) = k
                /\ Saved(k)' = Found(frames[i].query)'
  <2>1. k \in 1 .. m /\ k \in 0 .. m - 1 /\ k # m
    BY <1>3
  <2>2. PICK i \in E : /\ Cardinality(UpTo(frames, Entering, i)) = k
                       /\ Saved(k) = Found(frames[i].query)
    BY <2>1 DEF StackInv
  <2>3. i # n
    BY <1>1, <1>3, <2>1, <2>2
  <2>4. Saved(k)' = Found(frames[i].query)'
    BY <1>5, <1>7, <2>1, <2>2, <2>3
  <2>5. QED
    BY <1>1, <1>6, <2>2, <2>3, <2>4
<1>10. QED
  BY <1>1, <1>3, <1>4, <1>8, <1>9 DEF StackInv

StackStays == UNCHANGED <<currentState, stateStack>>

\* Leaving a start or an execution takes its entry off, or the execution finds no state
\* and crashes.
LEMMA LeavingStates ==
    ASSUME Leaving
    PROVE  /\ outcome = "ok" /\ outcome' \in {"ok", "crashed"}
           /\ outcome' = "crashed" =>
                 /\ Top.kind \in Executing \cup {"triggers"} /\ Top.traced
                 /\ context /\ currentState = NoState /\ StackStays
           /\ \/ (Top.kind \in {"node", "expr"} \/ ~Top.traced) /\ StackStays
              \/ Top.kind = "start" /\ Top.traced /\ ExecuteNodesStatePop
              \/ /\ Top.kind \in Executing \cup {"triggers"}
                 /\ Top.traced
                 /\ \/ ~context /\ StackStays
                    \/ context /\ currentState = NoState /\ outcome' = "crashed" /\ StackStays
                    \/ context /\ currentState # NoState /\ ExecuteNodesStatePop
<1>1. CASE ReturnFromStart
  BY <1>1 DEF ReturnFromStart, Returning, StackStays
<1>2. CASE UnwindStart
  BY <1>2 DEF UnwindStart, Unwinding, StackStays, nodes
<1>3. CASE ReturnFromHook \/ UnwindHook
  BY <1>3 DEF ReturnFromHook, UnwindHook, Returning, Unwinding, StackStays, nodes
<1>4. CASE ReturnFromExecution \/ UnwindExecution
  <2>1. outcome = "ok" /\ Top.kind \in Executing \cup {"triggers"} /\ Finally
    BY <1>4 DEF ReturnFromExecution, UnwindExecution, Returning, Unwinding
  <2>2. QED
    BY <2>1 DEF Finally, AfterExecution, Ends, StackStays
<1>5. QED
  BY <1>1, <1>2, <1>3, <1>4 DEF Leaving

LEMMA PoppedType ==
    ASSUME StackType, ExecuteNodesStatePop
    PROVE  StackType'
<1>1. CASE stateStack = <<>>
  BY <1>1 DEF StackType, ExecuteNodesStatePop
<1>2. CASE stateStack # <<>>
  <2> DEFINE m == Len(stateStack)
             S == Queries \cup {NoState}
  <2>1. /\ stateStack \in Seq(S) /\ stateStack # <<>>
        /\ stateStack' = SubSeq(stateStack, 1, m - 1) /\ currentState' = stateStack[m]
    BY <1>2 DEF ExecuteNodesStatePop, StackType, Front, Last
  <2>2. \A T : \A s \in Seq(T) : s # <<>> =>
            s[Len(s)] \in T /\ SubSeq(s, 1, Len(s) - 1) \in Seq(T)
    <3>1. ASSUME NEW T, NEW s \in Seq(T), s # <<>>
          PROVE  s[Len(s)] \in T /\ SubSeq(s, 1, Len(s) - 1) \in Seq(T)
      <4>1. Len(s) \in Nat \ {0} /\ Len(s) - 1 \in Int /\ s[Len(s)] \in T
        BY <3>1
      <4>2. \A i \in 1 .. Len(s) - 1 : s[i] \in T
        BY <3>1
      <4>3. SubSeq(s, 1, Len(s) - 1) \in Seq(T)
        <5> DEFINE k == Len(s) - 1
        <5>1. k \in Int /\ \A i \in 1 .. k : s[i] \in T
          BY <4>1, <4>2
        <5> HIDE DEF k
        <5>2. SubSeq(s, 1, k) \in Seq(T)
          BY <5>1, SubSeqProperties
        <5>3. QED
          BY <5>2 DEF k
      <4>4. QED
        BY <4>1, <4>3
    <3>2. QED
      BY <3>1
  <2>3. currentState' \in S /\ stateStack' \in Seq(S)
    BY <2>1, <2>2
  <2>4. QED
    BY <2>3 DEF StackType
<1>3. QED
  BY <1>1, <1>2

LEMMA StackTypeStep == ControlType /\ StackType /\ [Next]_vars => StackType'
<1> SUFFICES ASSUME ControlType, StackType, [Next]_vars PROVE StackType'
  OBVIOUS
<1>0. StackStays => StackType'
  BY DEF StackStays, StackType
<1>a. <<>> \in Seq(Queries \cup {NoState})
  OBVIOUS
<1>1. CASE Starting
  <2>1. \/ ExecutorTraceUprobesGet
        \/ StackStays
    BY <1>1, StartingCases DEF StackStays, nodes
  <2>2. QED
    BY <1>0, <1>a, <2>1 DEF ExecutorTraceUprobesGet, StackType
<1>2. CASE Stopping
  <2>1. ExecuteNodesStateClean \/ StackStays
    BY <1>2, StoppingCases DEF StackStays, nodes
  <2>2. QED
    BY <1>0, <1>a, <2>1 DEF ExecuteNodesStateClean, StackType
<1>3. CASE Elsewhere
  BY <1>0, <1>3, ElsewhereStays DEF StackStays, nodes
<1>4. ASSUME NEW q \in Queries, Executes(q)
      PROVE  StackType'
  <2>1. UNCHANGED nodes \/ ExecuteNodesStatePush(q)
    BY <1>4 DEF Executes, Execute, BeforeExecution
  <2>2. QED
    BY <1>0, <2>1 DEF ExecuteNodesStatePush, StackType, StackStays, nodes, Found
<1>5. ASSUME NEW q \in Queries, ExecutorStart(q)
      PROVE  StackType'
  <2>1. UNCHANGED nodes \/ ExecuteNodesStateNew(q)
    BY <1>5 DEF ExecutorStart
  <2>2. QED
    BY <1>0, <2>1 DEF ExecuteNodesStateNew, StackType, StackStays, nodes
<1>6. ASSUME NEW q \in Queries, ExecutorEnd(q)
      PROVE  StackStays
  BY <1>6 DEF ExecutorEnd, StackStays
<1>7. CASE TraceExecProcNodeHook \/ TraceExprNodeHook
  BY <1>0, <1>7 DEF TraceExecProcNodeHook, TraceExprNodeHook, Hook, nodes, StackStays
<1>8. CASE Leaving
  BY <1>0, <1>8, LeavingStates, PoppedType
<1>9. QED
  BY <1>0, <1>1, <1>2, <1>3, <1>4, <1>5, <1>6, <1>7, <1>8, Steps

\* A frame is entered or left that has no entry.
LEMMA StackKeptByPush ==
    ASSUME ControlType, StackInv, tracing, outcome = "ok", StackStays,
           NEW f \in FrameSet, ~(f.live /\ f.kind \in Entering),
           frames' = Append(frames, f), KeepsFrames(DOMAIN frames)
    PROVE  StackInv'
<1>1. LiveIn(frames', Entering) = LiveIn(frames, Entering)
  <2>1. frames \in Seq(FrameSet)
    BY DEF ControlType
  <2>2. LiveIn(Append(frames, f), Entering) =
           LiveIn(frames, Entering)
              \cup IF f.live /\ f.kind \in Entering THEN {Len(frames) + 1} ELSE {}
    BY <2>1, LiveEntered
  <2>3. QED
    BY <2>2
<1>2. ASSUME NEW i \in LiveIn(frames, Entering)
      PROVE  /\ UpTo(frames', Entering, i) = UpTo(frames, Entering, i)
             /\ frames'[i].query = frames[i].query
             /\ Keeps(frames[i].query)
  <2>1. i \in DOMAIN frames /\ DOMAIN frames = 1 .. Len(frames)
    BY DEF LiveIn, ControlType
  <2>2. QED
    BY <2>1, LiveEntered, AppendedFrames DEF ControlType, KeepsFrames
<1>3. QED
  BY <1>1, <1>2, StackKept DEF StackStays

LEMMA StackKeptByPop ==
    ASSUME ControlType, StackInv, tracing, outcome = "ok", StackStays,
           frames # <<>>, ~(Top.live /\ Top.kind \in Entering),
           frames' = Front(frames), KeepsFrames(1 .. Len(frames) - 1)
    PROVE  StackInv'
<1> DEFINE n == Len(frames)
<1>1. /\ LiveIn(frames', Entering) = LiveIn(frames, Entering) \ {n}
      /\ n \notin LiveIn(frames, Entering)
      /\ \A i \in 1 .. n - 1 : UpTo(frames', Entering, i) = UpTo(frames, Entering, i)
  BY LiveLeft DEF ControlType, Top
<1>2. LiveIn(frames', Entering) = LiveIn(frames, Entering)
  BY <1>1
<1>3. ASSUME NEW i \in LiveIn(frames, Entering)
      PROVE  /\ UpTo(frames', Entering, i) = UpTo(frames, Entering, i)
             /\ frames'[i].query = frames[i].query
             /\ Keeps(frames[i].query)
  <2>1. i \in 1 .. n - 1
    <3>1. i \in (1 .. n - 1) \cup {n} /\ i # n
      BY <1>1, FrontFrames DEF ControlType, LiveIn
    <3>2. QED
      BY <3>1
  <2>2. frames'[i] = frames[i]
    BY <2>1, FrontFrames DEF ControlType
  <2>3. QED
    BY <1>1, <2>1, <2>2 DEF KeepsFrames
<1>4. QED
  BY <1>2, <1>3, StackKept DEF StackStays

\* When a frame of an earlier trace is on top, nothing was entered under this one.
LEMMA NoneAboveOrphan ==
    ASSUME ControlType, FrameInv, frames # <<>>, Top.traced, ~Top.live, NEW kinds
    PROVE  LiveIn(frames, kinds) = {}
<1> DEFINE n == Len(frames)
<1>1. /\ n \in DOMAIN frames /\ Top = frames[n]
      /\ \A i \in DOMAIN frames : i < n \/ i = n
  <2>1. /\ DOMAIN frames = (1 .. n - 1) \cup {n} /\ Last(frames) = frames[n]
        /\ \A i \in 1 .. n - 1 : i < n
    BY FrontFrames DEF ControlType
  <2>2. QED
    BY <2>1 DEF Top
<1> HIDE DEF n
<1>2. \A i \in DOMAIN frames : ~frames[i].live
  BY <1>1 DEF FrameInv, LiveOnTop
<1>3. QED
  BY <1>2 DEF LiveIn

LEMMA StackLeft ==
    ASSUME IInv, StackType, FrameInv, StackInv, Leaving, Pops, tracing, outcome' = "ok"
    PROVE  StackInv'
<1>1. /\ ControlType /\ outcome = "ok" /\ frames # <<>> /\ frames' = Front(frames)
      /\ KeepsFrames(1 .. Len(frames) - 1)
      /\ context
      /\ Top \in FrameSet
  <2>1. Top \in FrameSet
    BY FrontFrames DEF Top, Pops, IInv, ControlType
  <2>2. QED
    BY <2>1, LeavingStates DEF Pops, FrameInv, Restarts, IInv
<1>2. CASE StackStays
  <2>1. CASE Top.live /\ Top.kind \in Entering
    <3>1. Top.traced
      <4>1. Len(frames) \in DOMAIN frames /\ Top = frames[Len(frames)]
        BY <1>1, FrontFrames DEF Top, ControlType
      <4>2. QED
        BY <2>1, <4>1 DEF FrameInv, LiveTraced
    <3>2. ExecuteNodesStatePop
      BY <1>1, <2>1, <3>1, LeavingStates DEF Entering
    <3>3. QED
      BY <1>1, <2>1, <3>2, StackPopped
  <2>2. QED
    BY <1>1, <1>2, <2>1, StackKeptByPop
<1>3. CASE ExecuteNodesStatePop /\ Top.traced /\ ~Top.live
  <2>1. LiveIn(frames, Entering) = {}
    BY <1>1, <1>3, NoneAboveOrphan
  <2>2. currentState = NoState /\ stateStack = <<>>
    BY <1>1, <2>1, Innermost
  <2>3. StackStays
    BY <1>3, <2>2 DEF ExecuteNodesStatePop, StackStays
  <2>4. QED
    BY <1>1, <1>3, <2>3, StackKeptByPop
<1>4. CASE ExecuteNodesStatePop /\ Top.traced /\ Top.live /\ Top.kind \in Entering
  BY <1>1, <1>4, StackPopped
<1>5. QED
  BY <1>1, <1>2, <1>3, <1>4, LeavingStates DEF Entering, FrameSet

LEMMA StackStep ==
    IInv /\ StackType /\ FrameInv /\ StackInv /\ [Next]_vars => StackInv'
<1> SUFFICES ASSUME IInv, StackType, FrameInv, StackInv, [Next]_vars,
                    tracing', outcome' = "ok"
             PROVE  StackInv'
  BY DEF StackInv
<1>0. ControlType /\ HooksHaveState /\ Idle
  BY DEF IInv
<1>1. CASE Starting
  <2>0. outcome = "ok"
    BY <1>1 DEF Starting, start_session_trace, StartPending, Calling
  <2>1. CASE tracing
    BY <1>1, <2>0, <2>1, StartingCases DEF StackInv, Saved, Found, nodes
  <2>2. CASE ~tracing
    <3>1. ExecutorTraceUprobesGet /\ frames' = frames
      BY <1>1, <2>2, StartingCases
    <3>2. LiveIn(frames', Entering) = {}
      BY <2>2, <3>1 DEF LiveIn, FrameInv, LiveTraced
    <3>3. Len(stateStack') = 0 /\ Saved(0)' = NoState /\ 1 .. 0 = {}
      BY <3>1 DEF ExecutorTraceUprobesGet, Saved
    <3>4. QED
      BY <3>2, <3>3, FS_EmptySet DEF StackInv
  <2>3. QED
    BY <2>1, <2>2
<1>2. CASE Stopping
  <2>1. /\ UNCHANGED <<tracing, nodes, frames>>
        /\ outcome = "ok"
    BY <1>2, StoppingCases DEF Stopping, stop_session_trace, StopPending, Calling
  <2>2. QED
    BY <2>1 DEF StackInv, Saved, Found, nodes
<1>3. CASE Elsewhere
  <2>1. UNCHANGED <<tracing, nodes, frames>>
    BY <1>3, ElsewhereStays
  <2>2. outcome = "ok"
    BY <1>3 DEF Elsewhere, SigHandler, Error, Catch, ParseOrPlan, ParseOrPlanFails, Wait,
                LockBuffer, PGSemaphoreLock, RaiseLimit, TraceNotNormalShutdown,
                ExecutorRewind, Calling, vars, control
  <2>3. QED
    BY <2>1, <2>2 DEF StackInv, Saved, Found, nodes
<1>4. ASSUME NEW q \in Queries, Executes(q)
      PROVE  StackInv'
  <2>1. PICK f \in FrameSet :
            /\ Pushes(f) /\ f.query = q /\ f.kind \in Executing \cup {"triggers"}
            /\ IF f.live THEN BeforeExecution(q) ELSE UNCHANGED <<nodes, statistics>>
    BY <1>0, <1>4, ExecutingPushes
  <2>2. /\ tracing /\ outcome = "ok"
        /\ frames' = Append(frames, f) /\ KeepsFrames(DOMAIN frames)
    BY <1>4, <2>1 DEF Pushes, Executes
  <2>3. CASE ~f.live
    <3>1. StackStays
      BY <2>1, <2>3 DEF StackStays, nodes
    <3>2. QED
      BY <1>0, <2>2, <2>3, <3>1, StackKeptByPush
  <2>4. CASE f.live
    <3>1. f.kind \in Entering /\ Keeps(f.query)
      BY <2>1, <2>4 DEF Pushes, PushesExecution, PushesStart, PushesNode, PushesTriggers,
                        Entering
    <3>2. ExecuteNodesStatePush(q)
      BY <2>1, <2>4 DEF BeforeExecution
    <3>3. /\ stateStack' = Append(stateStack, currentState)
          /\ currentState' = Found(f.query)'
      BY <2>1, <3>1, <3>2 DEF ExecuteNodesStatePush, Found, Keeps
    <3>4. QED
      BY <1>0, <2>2, <2>4, <3>1, <3>3, StackPushed
  <2>5. QED
    BY <2>3, <2>4
<1>5. ASSUME NEW q \in Queries, ExecutorStart(q)
      PROVE  StackInv'
  <2>1. PICK f \in FrameSet : Pushes(f) /\ f.query = q /\ f.kind = "start"
    BY <1>0, <1>5, StartingQueryPushes
  <2>2. /\ tracing /\ outcome = "ok"
        /\ frames' = Append(frames, f) /\ KeepsFrames(DOMAIN frames)
    BY <1>5, <2>1 DEF Pushes, ExecutorStart, Calling
  <2>3. f.live
    BY <2>1, <2>2 DEF Pushes, PushesExecution, PushesStart, PushesNode, PushesTriggers
  <2>4. ExecuteNodesStateNew(q)
    BY <1>5, <2>2 DEF ExecutorStart
  <2>5. /\ stateStack' = Append(stateStack, currentState)
        /\ currentState' = Found(f.query)'
    BY <1>0, <2>1, <2>4, ExecuteNodesAssumption DEF ExecuteNodesStateNew, Found, ControlType
  <2>6. f.kind \in Entering
    BY <2>1 DEF Entering
  <2>7. QED
    BY <1>0, <2>2, <2>3, <2>5, <2>6, StackPushed
<1>6. ASSUME NEW q \in Queries, ExecutorEnd(q)
      PROVE  StackInv'
  <2>1. Passes /\ StackStays /\ outcome = "ok"
    BY <1>0, <1>6, EndingPasses DEF ExecutorEnd, StackStays, Calling
  <2>2. /\ frames' = frames /\ tracing
        /\ \A i \in LiveIn(frames, Entering) : Keeps(frames[i].query)
    BY <2>1 DEF Passes, KeepsFrames, LiveIn
  <2>3. LiveIn(frames, Entering)' = LiveIn(frames, Entering)
    BY <2>2 DEF LiveIn
  <2>4. QED
    BY <2>1, <2>2, <2>3, StackKept DEF StackStays
<1>7. CASE TraceExecProcNodeHook \/ TraceExprNodeHook
  <2>1. StackStays /\ outcome = "ok" /\ UNCHANGED <<tracing, nodes>>
    BY <1>7 DEF TraceExecProcNodeHook, TraceExprNodeHook, Hook, nodes, StackStays, Returning,
                trace
  <2>2. CASE Passes
    BY <2>1, <2>2 DEF StackInv, Saved, Found, nodes, Passes
  <2>3. ASSUME NEW f \in FrameSet, Pushes(f), f.kind \in {"node", "expr"}
        PROVE  StackInv'
    <3>1. /\ frames' = Append(frames, f) /\ KeepsFrames(DOMAIN frames)
          /\ f.kind \notin Entering
      BY <2>3 DEF Pushes, Entering
    <3>2. QED
      BY <1>0, <2>1, <3>1, StackKeptByPush
  <2>4. QED
    BY <1>0, <1>7, <2>2, <2>3, HookPushes
<1>8. CASE Leaving
  BY <1>0, <1>8, LeavingPops, StackLeft DEF FrameInv, Pops
<1>9. QED
  BY <1>1, <1>2, <1>3, <1>4, <1>5, <1>6, <1>7, <1>8, Steps

StackIInv == IInv /\ StackType /\ FrameInv /\ StackInv

\* A saved or current state is that of a frame; the one on top found the current one.
LEMMA StackHasStates ==
    ASSUME StackIInv, tracing, outcome = "ok"
    PROVE  /\ \A k \in 0 .. Len(stateStack) : Saved(k) # NoState =>
                 \E i \in LiveIn(frames, Entering) :
                    /\ Cardinality(UpTo(frames, Entering, i)) = k
                    /\ Saved(k) = frames[i].query
                    /\ states[Saved(k)] # NoState
           /\ \A q \in Range(stateStack) \cup {currentState} :
                 \E k \in 0 .. Len(stateStack) : q = Saved(k)
<1> USE DEF StackIInv
<1> DEFINE m == Len(stateStack)
<1>1. m \in Nat /\ stateStack \in Seq(Queries \cup {NoState})
  BY DEF StackType
<1>2. ASSUME NEW k \in 0 .. m, Saved(k) # NoState
      PROVE  \E i \in LiveIn(frames, Entering) :
                /\ Cardinality(UpTo(frames, Entering, i)) = k
                /\ Saved(k) = frames[i].query
                /\ states[Saved(k)] # NoState
  <2>1. k \in 1 .. m
    <3>1. k # 0
      BY <1>2 DEF StackInv
    <3>2. QED
      BY <1>1, <3>1
  <2>2. QED
    BY <1>2, <2>1 DEF StackInv, Found
<1>3. ASSUME NEW q \in Range(stateStack) \cup {currentState}
      PROVE  \E k \in 0 .. m : q = Saved(k)
  <2>1. CASE q = currentState
    <3>1. m \in 0 .. m
      BY <1>1
    <3>2. QED
      BY <2>1, <3>1 DEF Saved
  <2>2. ASSUME NEW j \in 1 .. m, q = stateStack[j]
        PROVE  \E k \in 0 .. m : q = Saved(k)
    <3>1. j - 1 \in 0 .. m /\ j - 1 # m /\ j - 1 + 1 = j
      BY <1>1
    <3>2. QED
      BY <2>2, <3>1 DEF Saved
  <2>3. q # currentState => \E j \in 1 .. m : q = stateStack[j]
    <3>1. DOMAIN stateStack = 1 .. m
      BY <1>1
    <3>2. QED
      BY <3>1 DEF Range
  <2>4. QED
    BY <2>1, <2>2, <2>3
<1>4. QED
  BY <1>2, <1>3

LEMMA TracedStates ==
    ASSUME StackIInv, outcome = "ok"
    PROVE  NoFreedState
<1>1. CASE tracing
  BY <1>1, StackHasStates DEF NoFreedState
<1>2. CASE ~tracing
  <2>1. currentState = NoState /\ Range(stateStack) = {}
    BY <1>2 DEF StackIInv, IInv, Idle, Range
  <2>2. QED
    BY <2>1 DEF NoFreedState
<1>3. QED
  BY <1>1, <1>2

\* What a live frame on top has for its current state.
LEMMA CurrentOfTop ==
    ASSUME StackIInv, tracing, outcome = "ok", frames # <<>>, Top.live,
           Top.kind \in Entering \cup {"node", "expr"}
    PROVE  currentState = Found(Top.query)
<1> DEFINE n == Len(frames)
<1> USE DEF StackIInv
<1>1. /\ ControlType /\ n \in DOMAIN frames /\ Top = frames[n] /\ n \in Nat
      /\ \A i \in DOMAIN frames : i \in Nat /\ i <= n
  <2>1. ControlType /\ frames \in Seq(FrameSet) /\ DOMAIN frames = 1 .. n
    BY DEF IInv, ControlType
  <2>2. n \in Nat \ {0} /\ Top = frames[n]
    BY <2>1, FrontFrames DEF Top
  <2>3. \A k \in Nat \ {0} : k \in 1 .. k /\ \A i \in 1 .. k : i \in Nat /\ i <= k
    OBVIOUS
  <2>4. QED
    BY <2>1, <2>2, <2>3
<1>2. \E e \in LiveIn(frames, Entering) :
         /\ \A j \in DOMAIN frames : e < j => j \notin LiveIn(frames, Entering)
         /\ frames[e].query = Top.query
  <2>1. CASE Top.kind \in Entering
    <3>1. n \in LiveIn(frames, Entering)
      BY <1>1, <2>1 DEF LiveIn
    <3>2. \A j \in DOMAIN frames : ~(n < j)
      BY <1>1
    <3>3. QED
      BY <1>1, <3>1, <3>2
  <2>2. CASE Top.kind \in {"node", "expr"}
    <3>1. PICK e \in DOMAIN frames : NodesAbove(frames, n, e)
      BY <1>1, <2>2 DEF FrameInv, NodesOfExecution
    <3>2. e \in LiveIn(frames, Entering)
      BY <1>1, <3>1 DEF NodesAbove, LiveIn, Entering
    <3>3. \A j \in DOMAIN frames : e < j => j \notin LiveIn(frames, Entering)
      BY <1>1, <3>1 DEF NodesAbove, LiveIn, Entering
    <3>4. QED
      BY <1>1, <3>1, <3>2, <3>3 DEF NodesAbove
  <2>3. QED
    BY <2>1, <2>2
<1> HIDE DEF n
<1>3. PICK i \in LiveIn(frames, Entering) :
         /\ \A j \in LiveIn(frames, Entering) : j <= i
         /\ currentState = Found(frames[i].query)
  BY <1>1, <1>2, Innermost
<1>4. PICK e \in LiveIn(frames, Entering) :
         /\ \A j \in DOMAIN frames : e < j => j \notin LiveIn(frames, Entering)
         /\ frames[e].query = Top.query
  BY <1>2
<1>5. e <= i /\ ~(e < i) /\ e \in Nat /\ i \in Nat
  BY <1>1, <1>3, <1>4 DEF LiveIn
<1>6. e = i
  BY <1>5
<1>7. QED
  BY <1>3, <1>4, <1>6

\* A hook always finds the state of its query.
LEMMA HookFinds ==
    ASSUME StackIInv, TraceExecProcNodeHook \/ TraceExprNodeHook
    PROVE  /\ currentState = Top.query
           /\ outcome' = "ok" /\ outcome = "ok" /\ tracing
           /\ storages' = IF perNode THEN storages + 1 ELSE storages
           /\ \E f \in FrameSet : Pushes(f) /\ f.kind \in {"node", "expr"}
<1> USE DEF StackIInv, IInv
<1>1. PICK kind \in {"node", "expr"} :
         Hook(kind) /\ Evaluating /\ kind \in hooked[Top.query] /\ outcome = "ok"
  BY DEF TraceExecProcNodeHook, TraceExprNodeHook, Returning, Evaluating
<1>2. /\ Top.query \in Queries /\ frames # <<>>
      /\ Len(frames) \in DOMAIN frames /\ Top = frames[Len(frames)]
  BY <1>1, FrontFrames DEF InPlan, Evaluating, Top, FrameSet, ControlType
<1>3. states[Top.query] # NoState /\ tracing
  BY <1>1, <1>2 DEF HooksHaveState, ControlType
<1>4. Top.live
  BY <1>1, <1>2, <1>3 DEF FrameInv, StatesLive, InPlan, Evaluating
<1>5. Top.kind \in Entering \cup {"node", "expr"}
  BY <1>1 DEF InPlan, Evaluating, Entering
<1>6. currentState = Top.query
  BY <1>1, <1>2, <1>3, <1>4, <1>5, CurrentOfTop DEF Found
<1>7. Top.query # NoState
  BY <1>2, ExecuteNodesAssumption
<1>8. outcome' = "ok" /\ storages' = IF perNode THEN storages + 1 ELSE storages
  BY <1>1, <1>6, <1>7 DEF Hook, LockOnBuffersTraceStatPush
<1>9. \E f \in FrameSet : Pushes(f) /\ f.kind \in {"node", "expr"}
  <2>1. frames' # frames
    <3>1. frames' = Append(frames, Frame(kind, Top.query, TRUE))
      BY <1>1, <1>6, <1>7 DEF Hook, Enter
    <3>2. Frame(kind, Top.query, TRUE) \in FrameSet
      BY <1>2 DEF Frame, FrameSet
    <3>3. Len(frames') = Len(frames) + 1 /\ Len(frames) \in Nat
      BY <3>1, <3>2, AppendedFrames DEF ControlType
    <3>4. QED
      BY <3>3
  <2>2. QED
    BY <2>1, HookPushes DEF Passes
<1>10. QED
  BY <1>1, <1>3, <1>6, <1>8, <1>9

\* An execution that crashes when it is left was not known or not begun by this trace.
LEMMA CrashHasCause ==
    ASSUME StackIInv, Leaving, outcome' = "crashed"
    PROVE  causes \cap {"old query", "restarted"} # {}
<1> USE DEF StackIInv, IInv
<1>1. /\ Top.kind \in Executing \cup {"triggers"} /\ Top.traced
      /\ context /\ currentState = NoState /\ outcome = "ok"
  BY LeavingStates
<1>2. /\ frames # <<>> /\ Top \in FrameSet
      /\ Len(frames) \in DOMAIN frames /\ Top = frames[Len(frames)]
  BY LeaveStack, FrontFrames DEF Top, ControlType
<1>3. Top.kind \in Executing
  BY <1>1, <1>2 DEF FrameSet
<1>4. CASE Top.live
  <2>1. tracing
    BY <1>2, <1>4 DEF FrameInv, LiveTraced
  <2>2. Found(Top.query) = NoState
    BY <1>1, <1>2, <1>3, <1>4, <2>1, CurrentOfTop DEF Entering
  <2>3. states[Top.query] = NoState
    BY <1>2, <2>2, ExecuteNodesAssumption DEF Found, FrameSet
  <2>4. QED
    BY <1>2, <1>3, <1>4, <2>3 DEF FrameInv, OldQueries
<1>5. CASE ~Top.live
  BY <1>1, <1>2, <1>3, <1>5 DEF FrameInv, Restarts
<1>6. QED
  BY <1>4, <1>5

\* Nothing happens after the end of the session.
LEMMA Over == [Next]_vars /\ outcome # "ok" => UNCHANGED vars
<1> SUFFICES ASSUME [Next]_vars, ~UNCHANGED vars PROVE outcome = "ok"
  OBVIOUS
<1>1. CASE Starting \/ Stopping
  BY <1>1 DEF Starting, Stopping, start_session_trace, stop_session_trace, StartPending,
              StopPending, Calling
<1>2. CASE Elsewhere
  BY <1>2 DEF Elsewhere, SigHandler, Error, Catch, ParseOrPlan, ParseOrPlanFails, Wait,
              LockBuffer, PGSemaphoreLock, RaiseLimit, TraceNotNormalShutdown, ExecutorRewind,
              Calling
<1>3. ASSUME NEW q \in Queries, Executes(q) \/ ExecutorStart(q) \/ ExecutorEnd(q)
      PROVE  outcome = "ok"
  BY <1>3 DEF Executes, ExecutorStart, ExecutorEnd, Calling
<1>4. CASE TraceExecProcNodeHook \/ TraceExprNodeHook
  BY <1>4 DEF TraceExecProcNodeHook, TraceExprNodeHook, Returning
<1>5. CASE Leaving
  BY <1>5, LeavingStates
<1>6. QED
  BY <1>1, <1>2, <1>3, <1>4, <1>5, Steps

-----------------------------------------------------------------------------
\* States at the end.

\* The step that ends a session frees no state that is on the stack.
LEMMA EndStep ==
    StackIInv /\ (outcome # "ok" => NoFreedState) /\ [Next]_vars =>
        (outcome # "ok" => NoFreedState)'
<1> SUFFICES ASSUME StackIInv, outcome # "ok" => NoFreedState, [Next]_vars, outcome' # "ok"
             PROVE  NoFreedState'
  OBVIOUS
<1>0. NoFreedState
  BY TracedStates
<1>a. UNCHANGED nodes => NoFreedState'
  BY <1>0 DEF NoFreedState, nodes
<1>b. Idle' /\ ~tracing' => NoFreedState'
  BY DEF Idle, NoFreedState, Range
<1>1. CASE outcome # "ok"
  BY <1>1, <1>a, Over DEF vars, nodes
<1>2. CASE outcome = "ok" /\ Starting
  <2>1. UNCHANGED nodes \/ ExecutorTraceUprobesGet
    BY <1>2, StartingCases
  <2>2. ExecutorTraceUprobesGet => NoFreedState'
    BY DEF ExecutorTraceUprobesGet, NoFreedState, Range
  <2>3. QED
    BY <1>a, <2>1, <2>2
<1>3. CASE outcome = "ok" /\ Elsewhere
  BY <1>3, <1>a, ElsewhereStays
<1>4. CASE outcome = "ok" /\ Leaving
  <2>1. /\ outcome' = "crashed" /\ currentState = NoState
        /\ UNCHANGED <<currentState, stateStack>>
    BY <1>4, LeavingStates DEF StackStays
  <2>2. Pops
    BY <1>4, LeavingPops DEF StackIInv, IInv, FrameInv
  <2>3. CASE ~tracing
    <3>1. ~tracing'
      BY <2>2, <2>3 DEF Pops
    <3>2. Idle'
      BY <2>1, <2>3, <3>1 DEF StackIInv, IInv, Idle
    <3>3. QED
      BY <1>b, <3>1, <3>2
  <2>4. CASE tracing
    <3> DEFINE m == Len(stateStack)
               n == Len(frames)
    <3>1. /\ m = Cardinality(LiveIn(frames, Entering)) /\ m \in Nat
          /\ Saved(m) = currentState
      BY <1>4, <2>4 DEF StackIInv, StackInv, StackType, Saved
    <3>2. ASSUME NEW q \in Range(stateStack) \cup {currentState}, q # NoState
          PROVE  states'[q] # NoState
      <4>1. PICK k \in 0 .. m : q = Saved(k)
        BY <1>4, <2>4, StackHasStates
      <4>2. k # m
        BY <2>1, <3>1, <3>2, <4>1
      <4>3. PICK i \in LiveIn(frames, Entering) :
               /\ Cardinality(UpTo(frames, Entering, i)) = k
               /\ q = frames[i].query /\ states[q] # NoState
        BY <1>4, <2>4, <3>2, <4>1, StackHasStates
      <4>4. i # n
        <5>1. ControlType /\ frames # <<>>
          BY <2>2 DEF StackIInv, IInv, Pops
        <5>2. UpTo(frames, Entering, n) = LiveIn(frames, Entering)
          BY <5>1, LiveLeft DEF ControlType
        <5>3. QED
          BY <3>1, <4>2, <4>3, <5>2
      <4>5. i \in 1 .. n - 1
        <5>1. frames \in Seq(FrameSet) /\ frames # <<>>
          BY <2>2 DEF StackIInv, IInv, ControlType, Pops
        <5>2. i \in (1 .. n - 1) \cup {n}
          BY <5>1, FrontFrames DEF LiveIn
        <5>3. QED
          BY <4>4, <5>2
      <4>6. QED
        BY <2>2, <4>3, <4>5 DEF Pops, KeepsFrames, Keeps
    <3>3. QED
      BY <2>1, <3>2 DEF NoFreedState
  <2>5. QED
    BY <2>3, <2>4
<1>5. CASE outcome = "ok" /\ Stopping
  BY <1>5 DEF Stopping, stop_session_trace, StopPending, SessionTraceStop
<1>6. ASSUME NEW q \in Queries, outcome = "ok",
             Executes(q) \/ ExecutorStart(q) \/ ExecutorEnd(q)
      PROVE  FALSE
  BY <1>6 DEF Executes, Execute, ExecutorStart, ExecutorEnd, control
<1>7. CASE TraceExecProcNodeHook \/ TraceExprNodeHook
  BY <1>7, HookFinds
<1>8. QED
  BY <1>1, <1>2, <1>3, <1>4, <1>5, <1>6, <1>7, Steps

-----------------------------------------------------------------------------
\* The list of storages.

Nodes == {"node", "expr"}

\* The storages of frames, and the one of a frame.
Held(fr, per) ==
    Cardinality(LiveIn(fr, Executing)) + IF per THEN Cardinality(LiveIn(fr, Nodes)) ELSE 0
Own(f, per) ==
    IF f.live /\ (f.kind \in Executing \/ (per /\ f.kind \in Nodes)) THEN 1 ELSE 0

LEMMA HeldNat == ASSUME NEW fr \in Seq(FrameSet), NEW per \in BOOLEAN PROVE Held(fr, per) \in Nat
<1>1. Cardinality(LiveIn(fr, Executing)) \in Nat /\ Cardinality(LiveIn(fr, Nodes)) \in Nat
  BY LiveFinite
<1>2. QED
  BY <1>1 DEF Held

LEMMA HeldNone ==
    ASSUME NEW fr, NEW per \in BOOLEAN, \A kinds : LiveIn(fr, kinds) = {}
    PROVE  Held(fr, per) = 0
  BY FS_EmptySet DEF Held

LEMMA HeldEntered ==
    ASSUME NEW fr \in Seq(FrameSet), NEW f \in FrameSet, NEW per \in BOOLEAN
    PROVE  Held(Append(fr, f), per) = Held(fr, per) + Own(f, per)
<1>1. /\ Cardinality(LiveIn(Append(fr, f), Executing)) =
             Cardinality(LiveIn(fr, Executing)) + IF f.live /\ f.kind \in Executing THEN 1 ELSE 0
      /\ Cardinality(LiveIn(Append(fr, f), Nodes)) =
             Cardinality(LiveIn(fr, Nodes)) + IF f.live /\ f.kind \in Nodes THEN 1 ELSE 0
  BY LiveEntered
<1>2. Cardinality(LiveIn(fr, Executing)) \in Nat /\ Cardinality(LiveIn(fr, Nodes)) \in Nat
  BY LiveFinite
<1>3. ~(f.kind \in Executing /\ f.kind \in Nodes)
  BY DEF Nodes
<1> HIDE DEF Executing, Nodes
<1>4. QED
  BY <1>1, <1>2, <1>3 DEF Held, Own

LEMMA HeldLeft ==
    ASSUME NEW fr \in Seq(FrameSet), fr # <<>>, NEW per \in BOOLEAN
    PROVE  Held(fr, per) = Held(Front(fr), per) + Own(Last(fr), per)
<1> DEFINE f == Last(fr)
<1>1. /\ Cardinality(LiveIn(Front(fr), Executing)) =
             Cardinality(LiveIn(fr, Executing)) - IF f.live /\ f.kind \in Executing THEN 1 ELSE 0
      /\ Cardinality(LiveIn(Front(fr), Nodes)) =
             Cardinality(LiveIn(fr, Nodes)) - IF f.live /\ f.kind \in Nodes THEN 1 ELSE 0
  BY LiveLeft
<1>2. Cardinality(LiveIn(fr, Executing)) \in Nat /\ Cardinality(LiveIn(fr, Nodes)) \in Nat
  BY LiveFinite
<1>3. ~(f.kind \in Executing /\ f.kind \in Nodes)
  BY DEF Nodes
<1> HIDE DEF Executing, Nodes, f
<1>4. QED
  BY <1>1, <1>2, <1>3 DEF Held, Own, f

StorageType == storages \in Nat /\ orphans \in Nat /\ perNode \in BOOLEAN

StorageInv == tracing /\ outcome = "ok" => storages = 1 + Held(frames, perNode) + orphans

LEMMA PopStep ==
    ASSUME NEW n \in Nat
    PROVE  /\ LockOnBuffersTraceStatPush(n) = n + 1
           /\ LockOnBuffersTraceStatPush(n) \in Nat /\ LockOnBuffersTraceStatPop(n) \in Nat
           /\ WrittenAndCleaned(n) \in Nat
           /\ n > 0 => LockOnBuffersTraceStatPop(n) = n - 1
           /\ n > 1 => WrittenAndCleaned(LockOnBuffersTraceStatPop(n)) = n - 1
  BY DEF LockOnBuffersTraceStatPush, LockOnBuffersTraceStatPop, WrittenAndCleaned

\* What leaving does to the storages.
LEMMA LeavingStorages ==
    ASSUME Leaving
    PROVE  /\ UNCHANGED perNode
           /\ \/ Top.kind = "start" /\ UNCHANGED <<storages, orphans>>
              \/ /\ Top.kind \in Executing \cup {"triggers"}
                 /\ ~Top.traced \/ ~context \/ outcome' # "ok"
                 /\ UNCHANGED <<storages, orphans>>
              \/ /\ Top.kind \in Executing \cup {"triggers"}
                 /\ Top.traced /\ currentState # NoState
                 /\ storages' = WrittenAndCleaned(LockOnBuffersTraceStatPop(storages))
                 /\ UNCHANGED orphans
              \/ /\ Top.kind \in Nodes
                 /\ storages' = IF perNode /\ currentState # NoState
                                THEN LockOnBuffersTraceStatPop(storages) ELSE storages
                 /\ UNCHANGED orphans
              \/ /\ Top.kind \in Nodes
                 /\ UNCHANGED storages
                 /\ orphans' = IF Top.live /\ perNode THEN orphans + 1 ELSE orphans
<1> USE DEF Nodes
<1>1. CASE ReturnFromStart \/ UnwindStart
  BY <1>1 DEF ReturnFromStart, UnwindStart, statistics, trace, history
<1>2. CASE ReturnFromHook
  BY <1>2 DEF ReturnFromHook, trace, history
<1>3. CASE UnwindHook
  BY <1>3 DEF UnwindHook, statistics, trace
<1>4. CASE ReturnFromExecution \/ UnwindExecution
  <2>1. /\ Top.kind \in Executing \cup {"triggers"} /\ Finally
        /\ UNCHANGED <<perNode, orphans>>
    BY <1>4 DEF ReturnFromExecution, UnwindExecution, trace, history
  <2>2. CASE ~Top.traced
    BY <2>1, <2>2 DEF Finally, statistics
  <2>3. CASE Top.traced
    BY <2>1, <2>3 DEF Finally, AfterExecution, statistics, Ends
  <2>4. QED
    BY <2>2, <2>3
<1>5. QED
  BY <1>1, <1>2, <1>3, <1>4 DEF Leaving

\* What the other steps do to the storages.
LEMMA StartingStorages ==
    ASSUME Starting
    PROVE  \/ UNCHANGED <<storages, orphans, perNode, tracing, frames>>
           \/ /\ ~tracing /\ storages' \in {0, 1} /\ orphans' = 0 /\ perNode' \in BOOLEAN \cup {perNode}
              /\ UNCHANGED frames
              /\ tracing' => storages' = 1
           \/ ~tracing /\ ~tracing' /\ UNCHANGED <<storages, orphans, perNode>>
<1>1. PICK ok : SessionTraceStart(ok)
  BY DEF Starting, start_session_trace, StartPending
<1>2. StoragesAtStart = 1
  BY DEF StoragesAtStart, LockOnBuffersTraceStatPush
<1>3. CASE tracing
  BY <1>1, <1>3 DEF SessionTraceStart, statistics, trace, history
<1>4. CASE ~tracing /\ StartSucceeds
  BY <1>2, <1>4 DEF StartSucceeds
<1>5. CASE ~tracing /\ StartCannotOpen
  BY <1>5 DEF StartCannotOpen, statistics
<1>6. CASE ~tracing /\ StartCannotAttach
  <2>1. /\ storages' \in {0, 1} /\ orphans' = 0
        /\ UNCHANGED <<tracing, perNode, frames>>
    BY <1>2, <1>6 DEF StartCannotAttach
  <2>2. QED
    BY <1>6, <2>1
<1>7. QED
  BY <1>1, <1>3, <1>4, <1>5, <1>6 DEF SessionTraceStart

LEMMA StoppingStorages ==
    ASSUME Stopping
    PROVE  /\ UNCHANGED perNode
           /\ \/ UNCHANGED <<storages, orphans, tracing, frames>>
              \/ ~tracing' /\ storages' = 0 /\ orphans' = 0
  BY DEF Stopping, stop_session_trace, StopPending, SessionTraceStop, statistics, trace, history

LEMMA ElsewhereStorages ==
    ASSUME StorageType, Elsewhere
    PROVE  /\ UNCHANGED perNode
           /\ \/ UNCHANGED <<storages, orphans>>
              \/ storages' = storages + 1 /\ orphans' = orphans + 1
<1> USE DEF statistics, trace, history, control
<1>1. ASSUME NEW s, SigHandler(s)
      PROVE  UNCHANGED <<storages, orphans, perNode>>
  BY <1>1 DEF SigHandler
<1>2. CASE Error \/ Catch
  BY <1>2 DEF Error, Catch
<1>3. CASE ParseOrPlan
  <2>1. LockOnBuffersTraceStatPop(LockOnBuffersTraceStatPush(storages)) = storages
    BY DEF LockOnBuffersTraceStatPop, LockOnBuffersTraceStatPush, StorageType
  <2>2. storages' = storages
    BY <1>3, <2>1 DEF ParseOrPlan, RawParser, Planner, GetCachedPlan
  <2>3. QED
    BY <1>3, <2>2 DEF ParseOrPlan
<1>4. CASE ParseOrPlanFails
  BY <1>4 DEF ParseOrPlanFails, CallFails, LockOnBuffersTraceStatPush
<1>5. ASSUME NEW hasEvent, Wait(hasEvent)
      PROVE  UNCHANGED <<storages, orphans, perNode>>
  BY <1>5 DEF Wait, WaitFunction
<1>6. CASE LockBuffer \/ PGSemaphoreLock
  BY <1>6 DEF LockBuffer, PGSemaphoreLock, SignalWaitEvent
<1>7. CASE RaiseLimit \/ TraceNotNormalShutdown
  BY <1>7 DEF RaiseLimit, TraceNotNormalShutdown
<1>8. CASE UNCHANGED vars
  BY <1>8 DEF vars
<1>9. ASSUME NEW q, ExecutorRewind(q)
      PROVE  UNCHANGED <<storages, orphans, perNode>>
  BY <1>9 DEF ExecutorRewind
<1>10. QED
  BY <1>1, <1>2, <1>3, <1>4, <1>5, <1>6, <1>7, <1>8, <1>9 DEF Elsewhere

\* Entering an execution or a node pushes a storage for it.
LEMMA EnteringStorages ==
    ASSUME StackIInv, StorageType,
           \/ \E q \in Queries : Executes(q) \/ ExecutorStart(q)
           \/ TraceExecProcNodeHook \/ TraceExprNodeHook
    PROVE  /\ UNCHANGED <<orphans, perNode>>
           /\ \E f \in FrameSet : Pushes(f) /\ storages' = storages + Own(f, perNode)
<1> USE DEF StackIInv, IInv
<1>0. storages \in Nat
  BY DEF StorageType
<1>1. ASSUME NEW q \in Queries, Executes(q)
      PROVE  /\ UNCHANGED <<orphans, perNode>>
             /\ \E f \in FrameSet : Pushes(f) /\ storages' = storages + Own(f, perNode)
  <2>1. PICK f \in FrameSet :
            /\ Pushes(f) /\ f.query = q /\ f.kind \in Executing \cup {"triggers"}
            /\ IF f.live THEN BeforeExecution(q) ELSE UNCHANGED <<nodes, statistics>>
    BY <1>1, ExecutingPushes
  <2>2. UNCHANGED <<orphans, perNode>>
    BY <1>1 DEF Executes, Execute, trace
  <2>3. CASE f.live
    <3>1. f.kind \in Executing
      BY <2>1, <2>3 DEF Pushes, PushesExecution, PushesStart, PushesNode, PushesTriggers
    <3>2. Own(f, perNode) = 1
      BY <2>3, <3>1 DEF Own
    <3>3. storages' = storages + 1
      BY <2>1, <2>3 DEF BeforeExecution, LockOnBuffersTraceStatPush
    <3>4. QED
      BY <2>1, <2>2, <3>2, <3>3
  <2>4. CASE ~f.live
    <3>1. Own(f, perNode) = 0 /\ storages' = storages
      BY <2>1, <2>4 DEF Own, statistics
    <3>2. QED
      BY <1>0, <2>1, <2>2, <3>1
  <2>5. QED
    BY <2>3, <2>4
<1>2. ASSUME NEW q \in Queries, ExecutorStart(q)
      PROVE  /\ UNCHANGED <<orphans, perNode>>
             /\ \E f \in FrameSet : Pushes(f) /\ storages' = storages + Own(f, perNode)
  <2>1. PICK f \in FrameSet : Pushes(f) /\ f.kind = "start"
    BY <1>2, StartingQueryPushes
  <2>2. UNCHANGED <<storages, orphans, perNode>>
    BY <1>2 DEF ExecutorStart, statistics, trace, history
  <2>3. Own(f, perNode) = 0
    BY <2>1 DEF Own, Nodes
  <2>4. QED
    BY <1>0, <2>1, <2>2, <2>3
<1>3. CASE TraceExecProcNodeHook \/ TraceExprNodeHook
  <2>1. PICK f \in FrameSet : Pushes(f) /\ f.kind \in {"node", "expr"}
    BY <1>3, HookFinds
  <2>2. storages' = IF perNode THEN storages + 1 ELSE storages
    BY <1>3, HookFinds
  <2>3. UNCHANGED <<orphans, perNode>>
    BY <1>3 DEF TraceExecProcNodeHook, TraceExprNodeHook, Hook, trace, history
  <2>4. f.live
    BY <2>1 DEF Pushes, PushesExecution, PushesStart, PushesNode, PushesTriggers
  <2>5. Own(f, perNode) = IF perNode THEN 1 ELSE 0
    BY <2>1, <2>4 DEF Own, Nodes
  <2>6. QED
    BY <1>0, <2>1, <2>2, <2>3, <2>5
<1>4. QED
  BY <1>1, <1>2, <1>3

LEMMA StorageTypeStep ==
    StackIInv /\ StorageType /\ [Next]_vars => StorageType'
<1> SUFFICES ASSUME StackIInv, StorageType, [Next]_vars PROVE StorageType'
  OBVIOUS
<1> USE DEF StorageType
<1>1. CASE Starting
  BY <1>1, StartingStorages
<1>2. CASE Stopping
  BY <1>2, StoppingStorages
<1>3. CASE Elsewhere
  BY <1>3, ElsewhereStorages
<1>4. CASE \/ \E q \in Queries : Executes(q) \/ ExecutorStart(q)
           \/ TraceExecProcNodeHook \/ TraceExprNodeHook
  <2>1. PICK f \in FrameSet : storages' = storages + Own(f, perNode)
    BY <1>4, EnteringStorages
  <2>2. Own(f, perNode) \in Nat
    BY DEF Own
  <2>3. QED
    BY <1>4, <2>1, <2>2, EnteringStorages
<1>5. ASSUME NEW q \in Queries, ExecutorEnd(q)
      PROVE  StorageType'
  BY <1>5 DEF ExecutorEnd, statistics, trace, history
<1>6. CASE Leaving
  <2>1. LockOnBuffersTraceStatPop(storages) \in Nat
    BY PopStep
  <2>2. WrittenAndCleaned(LockOnBuffersTraceStatPop(storages)) \in Nat
    BY <2>1, PopStep
  <2>3. QED
    BY <1>6, <2>1, <2>2, LeavingStorages
<1>7. QED
  BY <1>1, <1>2, <1>3, <1>4, <1>5, <1>6, Steps

\* Leaving takes off the storage of the frame, or counts it as left behind.
LEMMA StorageLeft ==
    ASSUME StackIInv, StorageType, StorageInv, Leaving, tracing', outcome' = "ok"
    PROVE  StorageInv'
<1> USE DEF StackIInv, IInv, StorageType
<1>1. Pops
  BY LeavingPops DEF FrameInv
<1>2. /\ tracing /\ outcome = "ok" /\ context /\ UNCHANGED perNode
      /\ frames # <<>> /\ frames' = Front(frames)
  BY <1>1, LeavingStates, LeavingStorages DEF Pops, FrameInv, Restarts
<1>3. /\ Top \in FrameSet /\ Len(frames) \in DOMAIN frames /\ Top = frames[Len(frames)]
  BY <1>2, FrontFrames DEF Top, ControlType
<1>4. /\ Held(frames, perNode) = Held(frames', perNode) + Own(Top, perNode)
      /\ Held(frames', perNode) \in Nat
  BY <1>2, HeldLeft, HeldNat, FrontFrames DEF Top, ControlType
<1>5. storages = 1 + Held(frames', perNode) + Own(Top, perNode) + orphans
  BY <1>2, <1>4 DEF StorageInv, Own
<1>a. SUFFICES storages' = 1 + Held(frames', perNode) + orphans'
  BY <1>2 DEF StorageInv
<1>6. CASE Own(Top, perNode) = 0 /\ UNCHANGED <<storages, orphans>>
  BY <1>4, <1>5, <1>6
<1>7. Top.live => Top.traced
  BY <1>3 DEF FrameInv, LiveTraced
<1>8. currentState # NoState /\ Top.traced => Top.live
  <2>1. Top.traced /\ ~Top.live => LiveIn(frames, Entering) = {}
    BY <1>2, NoneAboveOrphan
  <2>2. QED
    BY <1>2, <2>1, Innermost
<1>9. CASE Top.kind = "start"
  BY <1>6, <1>9, LeavingStorages DEF Own, Nodes
<1>10. CASE Top.kind \in Executing \cup {"triggers"}
  <2>1. CASE ~Top.traced /\ UNCHANGED <<storages, orphans>>
    BY <1>6, <1>7, <2>1 DEF Own
  <2>2. CASE /\ Top.traced /\ currentState # NoState
             /\ storages' = WrittenAndCleaned(LockOnBuffersTraceStatPop(storages))
             /\ UNCHANGED orphans
    <3>1. Own(Top, perNode) = 1
      BY <1>3, <1>8, <1>10, <2>2 DEF Own, FrameSet
    <3>2. storages > 1
      BY <1>4, <1>5, <3>1
    <3>3. storages' = storages - 1
      BY <2>2, <3>2, PopStep
    <3>4. QED
      BY <1>4, <1>5, <2>2, <3>1, <3>3
  <2>3. QED
    BY <1>2, <1>10, <2>1, <2>2, LeavingStorages DEF Nodes
<1>11. CASE Top.kind \in Nodes
  <2>1. Top.traced
    BY <1>3, <1>11 DEF FrameInv, NodesTraced, Nodes
  <2>2. Own(Top, perNode) = IF Top.live /\ perNode THEN 1 ELSE 0
    BY <1>11 DEF Own, Nodes
  <2>3. CASE /\ UNCHANGED storages
             /\ orphans' = IF Top.live /\ perNode THEN orphans + 1 ELSE orphans
    BY <1>4, <1>5, <2>2, <2>3
  <2>4. CASE /\ storages' = IF perNode /\ currentState # NoState
                            THEN LockOnBuffersTraceStatPop(storages) ELSE storages
             /\ UNCHANGED orphans
    <3>1. CASE Top.live
      <4>1. currentState = Found(Top.query)
        BY <1>2, <1>11, <3>1, CurrentOfTop DEF Nodes
      <4>2. currentState # NoState
        BY <1>3, <1>11, <3>1, <4>1, ExecuteNodesAssumption
           DEF Found, FrameInv, NodesHaveState, Nodes, FrameSet
      <4>3. CASE perNode
        <5>0. Own(Top, perNode) = 1
          BY <2>2, <3>1, <4>3
        <5>1. storages > 0
          BY <1>4, <1>5, <5>0
        <5>2. storages' = storages - 1
          BY <2>4, <4>2, <4>3, <5>1, PopStep
        <5>3. QED
          BY <1>4, <1>5, <2>4, <5>0, <5>2
      <4>4. CASE ~perNode
        BY <1>6, <2>2, <2>4, <4>4
      <4>5. QED
        BY <4>3, <4>4
    <3>2. CASE ~Top.live
      BY <1>6, <1>8, <2>1, <2>2, <2>4, <3>2
    <3>3. QED
      BY <3>1, <3>2
  <2>5. QED
    BY <1>11, <2>3, <2>4, LeavingStorages DEF Nodes
<1>12. QED
  BY <1>9, <1>10, <1>11, LeavingStorages DEF Nodes

LEMMA StorageStep ==
    StackIInv /\ StorageType /\ StorageInv /\ [Next]_vars => StorageInv'
<1> SUFFICES ASSUME StackIInv, StorageType, StorageInv, [Next]_vars, tracing', outcome' = "ok"
             PROVE  StorageInv'
  BY DEF StorageInv
<1> USE DEF StackIInv, IInv, StorageType
<1>0. outcome = "ok"
  BY Over DEF vars, control
<1>1. CASE Starting
  <2>1. CASE UNCHANGED <<storages, orphans, perNode, tracing, frames>>
    BY <1>0, <2>1 DEF StorageInv
  <2>2. CASE ~tracing /\ storages' = 1 /\ orphans' = 0 /\ frames' = frames
    <3>1. \A kinds : LiveIn(frames', kinds) = {}
      BY <2>2 DEF LiveIn, FrameInv, LiveTraced
    <3>2. perNode' \in BOOLEAN
      BY StorageTypeStep
    <3>3. Held(frames', perNode') = 0
      BY <3>1, <3>2, HeldNone
    <3>4. QED
      BY <2>2, <3>3 DEF StorageInv
  <2>3. QED
    BY <1>1, <2>1, <2>2, StartingStorages
<1>2. CASE Stopping
  BY <1>0, <1>2, StoppingStorages DEF StorageInv
<1>3. CASE Elsewhere
  <2>1. UNCHANGED <<tracing, frames, perNode>>
    BY <1>3, ElsewhereStays, ElsewhereStorages
  <2>2. Held(frames, perNode) \in Nat
    BY HeldNat DEF ControlType
  <2>3. storages = 1 + Held(frames, perNode) + orphans
    BY <1>0, <2>1 DEF StorageInv
  <2>4. storages' = 1 + Held(frames, perNode) + orphans'
    BY <1>3, <2>2, <2>3, ElsewhereStorages
  <2>5. QED
    BY <2>1, <2>4 DEF StorageInv
<1>4. CASE \/ \E q \in Queries : Executes(q) \/ ExecutorStart(q)
           \/ TraceExecProcNodeHook \/ TraceExprNodeHook
  <2>1. PICK f \in FrameSet : Pushes(f) /\ storages' = storages + Own(f, perNode)
    BY <1>4, EnteringStorages
  <2>2. UNCHANGED <<orphans, perNode, tracing>> /\ frames' = Append(frames, f)
    BY <1>4, <2>1, EnteringStorages DEF Pushes
  <2>3. storages = 1 + Held(frames, perNode) + orphans
    BY <1>0, <2>2 DEF StorageInv
  <2>4. Held(frames', perNode) = Held(frames, perNode) + Own(f, perNode)
    BY <2>2, HeldEntered DEF ControlType
  <2>5. Held(frames, perNode) \in Nat /\ Own(f, perNode) \in Nat
    BY HeldNat DEF ControlType, Own
  <2>6. storages' = 1 + Held(frames', perNode) + orphans
    BY <2>1, <2>3, <2>4, <2>5
  <2>7. QED
    BY <2>2, <2>6 DEF StorageInv
<1>5. ASSUME NEW q \in Queries, ExecutorEnd(q)
      PROVE  StorageInv'
  BY <1>0, <1>5 DEF ExecutorEnd, statistics, trace, history, control, StorageInv
<1>6. CASE Leaving
  BY <1>6, StorageLeft
<1>7. QED
  BY <1>1, <1>2, <1>3, <1>4, <1>5, <1>6, Steps

-----------------------------------------------------------------------------
\* What SessionSurvives excepts.

\* A wait event that is left behind is one of PGSemaphoreLock.
WaitInv == waitEvent # "none" => "slept" \in causes

LEMMA WaitFunctions ==
    \A w : /\ TraceWaitEventsClearStat(w) # "none" => w # "none"
           /\ TraceWaitEventDumpStat(w) # "none" => w # "none"
           /\ TraceWaitEventsUprobesGet(w) # "none" => w # "none"
  BY DEF TraceWaitEventsClearStat, TraceWaitEventDumpStat, TraceWaitEventsUprobesGet

LEMMA WaitStep == WaitInv /\ [Next]_vars => WaitInv'
<1> SUFFICES ASSUME WaitInv, [Next]_vars PROVE WaitInv'
  OBVIOUS
<1> USE DEF WaitInv, statistics, history
<1>1. CASE Starting
  <2>1. PICK ok : SessionTraceStart(ok)
    BY <1>1 DEF Starting, start_session_trace, StartPending
  <2>2. CASE tracing
    BY <2>1, <2>2 DEF SessionTraceStart
  <2>3. CASE ~tracing /\ StartSucceeds
    BY <2>3, WaitFunctions DEF StartSucceeds
  <2>4. CASE ~tracing /\ StartCannotOpen
    BY <2>4 DEF StartCannotOpen
  <2>5. CASE ~tracing /\ StartCannotAttach
    <3>1. waitEvent' # "none" => waitEvent # "none"
      BY <2>5, WaitFunctions DEF StartCannotAttach
    <3>2. causes \subseteq causes'
      BY <2>5 DEF StartCannotAttach, Because
    <3>3. QED
      BY <3>1, <3>2
  <2>6. QED
    BY <2>1, <2>2, <2>3, <2>4, <2>5 DEF SessionTraceStart
<1>2. CASE Stopping
  BY <1>2 DEF Stopping, stop_session_trace, StopPending, SessionTraceStop
<1>3. CASE Elsewhere
  <2> USE DEF control
  <2>1. ASSUME NEW s, SigHandler(s)
        PROVE  WaitInv'
    BY <2>1 DEF SigHandler
  <2>2. CASE Error \/ Catch
    BY <2>2 DEF Error, Catch
  <2>3. CASE ParseOrPlan \/ ParseOrPlanFails
    BY <2>3 DEF ParseOrPlan, RawParser, Planner, GetCachedPlan, ParseOrPlanFails, CallFails
  <2>4. ASSUME NEW hasEvent, Wait(hasEvent)
        PROVE  WaitInv'
    BY <2>4 DEF Wait, WaitFunction
  <2>5. CASE LockBuffer \/ PGSemaphoreLock
    BY <2>5 DEF LockBuffer, PGSemaphoreLock, Because
  <2>6. CASE RaiseLimit \/ TraceNotNormalShutdown
    BY <2>6 DEF RaiseLimit, TraceNotNormalShutdown, Because
  <2>7. CASE UNCHANGED vars
    BY <2>7 DEF vars
  <2>8. ASSUME NEW q, ExecutorRewind(q)
        PROVE  WaitInv'
    BY <2>8 DEF ExecutorRewind, Because
  <2>9. QED
    BY <1>3, <2>1, <2>2, <2>3, <2>4, <2>5, <2>6, <2>7, <2>8 DEF Elsewhere
<1>4. ASSUME NEW q \in Queries, Executes(q)
      PROVE  WaitInv'
  <2>1. PICK kind, hook : Execute(kind, q, hook)
    BY <1>4 DEF Executes
  <2>2. causes \subseteq causes'
    BY <2>1 DEF Execute
  <2>3. CASE hook
    <3>1. waitEvent' = TraceWaitEventsClearStat(waitEvent)
      BY <2>1, <2>3 DEF Execute, BeforeExecution
    <3>2. QED
      BY <2>2, <3>1, WaitFunctions
  <2>4. CASE ~hook
    BY <2>1, <2>2, <2>4 DEF Execute
  <2>5. QED
    BY <2>3, <2>4
<1>5. ASSUME NEW q \in Queries, ExecutorStart(q) \/ ExecutorEnd(q)
      PROVE  WaitInv'
  BY <1>5 DEF ExecutorStart, ExecutorEnd
<1>6. CASE TraceExecProcNodeHook \/ TraceExprNodeHook
  BY <1>6 DEF TraceExecProcNodeHook, TraceExprNodeHook, Hook
<1>7. CASE Leaving
  <2>1. CASE ReturnFromStart \/ UnwindStart
    BY <2>1 DEF ReturnFromStart, UnwindStart
  <2>2. CASE ReturnFromHook \/ UnwindHook
    BY <2>2 DEF ReturnFromHook, UnwindHook
  <2>3. CASE ReturnFromExecution \/ UnwindExecution
    <3>1. Finally /\ UNCHANGED causes
      BY <2>3 DEF ReturnFromExecution, UnwindExecution
    <3>2. waitEvent' = waitEvent \/ waitEvent' = TraceWaitEventDumpStat(waitEvent)
      BY <3>1 DEF Finally, AfterExecution
    <3>3. QED
      BY <3>1, <3>2, WaitFunctions
  <2>4. QED
    BY <1>7, <2>1, <2>2, <2>3 DEF Leaving
<1>8. QED
  BY <1>1, <1>2, <1>3, <1>4, <1>5, <1>6, <1>7, Steps

\* The slots are counted by the starts.
ExitsInv == exits \in 0 .. MaxExits

LEMMA ExitsStep == ExitsInv /\ [Next]_vars => ExitsInv'
<1> SUFFICES ASSUME ExitsInv, [Next]_vars PROVE ExitsInv'
  OBVIOUS
<1>a. exits' = exits => ExitsInv'
  BY DEF ExitsInv
<1> USE DEF trace
<1>1. CASE Starting
  <2>1. PICK ok : SessionTraceStart(ok)
    BY <1>1 DEF Starting, start_session_trace, StartPending
  <2>2. CASE StartSucceeds /\ exits < MaxExits
    <3>1. exits' = exits + 1
      BY <2>2 DEF StartSucceeds
    <3>2. QED
      BY <2>2, <3>1, SessionTraceAssumption DEF ExitsInv
  <2>3. CASE StartSucceeds /\ ~(exits < MaxExits)
    BY <1>a, <2>3 DEF StartSucceeds
  <2>4. CASE ~StartSucceeds
    BY <1>a, <2>1, <2>4 DEF SessionTraceStart, StartCannotOpen, StartCannotAttach
  <2>5. QED
    BY <2>2, <2>3, <2>4
<1>2. CASE Stopping
  BY <1>a, <1>2 DEF Stopping, stop_session_trace, StopPending, SessionTraceStop
<1>3. CASE Elsewhere
  <2>1. exits' = exits
    BY <1>3 DEF Elsewhere, SigHandler, Error, Catch, ParseOrPlan, ParseOrPlanFails, Wait,
                LockBuffer, PGSemaphoreLock, RaiseLimit, TraceNotNormalShutdown,
                ExecutorRewind, vars
  <2>2. QED
    BY <1>a, <2>1
<1>4. ASSUME NEW q \in Queries, Executes(q) \/ ExecutorStart(q) \/ ExecutorEnd(q)
      PROVE  ExitsInv'
  BY <1>a, <1>4 DEF Executes, Execute, ExecutorStart, ExecutorEnd
<1>5. CASE TraceExecProcNodeHook \/ TraceExprNodeHook
  BY <1>a, <1>5 DEF TraceExecProcNodeHook, TraceExprNodeHook, Hook
<1>6. CASE Leaving
  BY <1>a, <1>6 DEF Leaving, ReturnFromStart, UnwindStart, ReturnFromExecution, UnwindExecution,
                    ReturnFromHook, UnwindHook
<1>7. QED
  BY <1>1, <1>2, <1>3, <1>4, <1>5, <1>6, Steps

\* The session ends in the ways that are excepted, or by its client.
LEMMA SurvivalStep ==
    /\ StackIInv /\ StorageType /\ StorageInv /\ WaitInv /\ ExitsInv
    /\ SessionSurvives /\ [Next]_vars
    => SessionSurvives'
<1> SUFFICES ASSUME StackIInv, StorageType, StorageInv, WaitInv, ExitsInv, SessionSurvives,
                    [Next]_vars
             PROVE  SessionSurvives'
  OBVIOUS
<1> USE DEF history
<1>a. CASE outcome # "ok"
  BY <1>a, Over DEF SessionSurvives, vars, control, trace
<1>b. CASE outcome' = "ok" \/ outcome' = "exited"
  BY <1>b DEF SessionSurvives
<1>0. SUFFICES ASSUME outcome = "ok", outcome' # "ok", outcome' # "exited"
               PROVE  SessionSurvives'
  BY <1>a, <1>b
<1>1. CASE Starting
  <2>1. PICK ok : SessionTraceStart(ok)
    BY <1>1 DEF Starting, start_session_trace, StartPending
  <2>2. CASE StartSucceeds
    <3>1. outcome' = "fatal" /\ exits' = exits /\ ~(exits < MaxExits)
      BY <1>0, <2>2 DEF StartSucceeds, Ends
    <3>2. exits = MaxExits
      BY <3>1, SessionTraceAssumption DEF ExitsInv
    <3>3. QED
      BY <3>1, <3>2 DEF SessionSurvives
  <2>3. CASE ~StartSucceeds
    <3>1. outcome' = "crashed" /\ "failed start" \in causes'
      BY <1>0, <2>1, <2>3 DEF SessionTraceStart, StartCannotOpen, StartCannotAttach, Ends, Because
    <3>2. QED
      BY <3>1 DEF SessionSurvives
  <2>4. QED
    BY <2>2, <2>3
<1>2. CASE Stopping
  BY <1>0, <1>2 DEF Stopping, stop_session_trace, StopPending, SessionTraceStop
<1>3. CASE Elsewhere
  <2> USE DEF control
  <2>1. ASSUME NEW hasEvent, Wait(hasEvent)
        PROVE  SessionSurvives'
    <3>1. outcome' = "wild write" /\ waitEvent = "freed" /\ UNCHANGED causes
      BY <1>0, <2>1 DEF Wait, Ends
    <3>2. QED
      BY <3>1 DEF WaitInv, SessionSurvives
  <2>2. CASE LockBuffer
    <3>1. storages = 0 /\ tracing
      BY <1>0, <2>2 DEF LockBuffer
    <3>2. storages = 1 + Held(frames, perNode) + orphans
      BY <1>0, <3>1 DEF StorageInv
    <3>3. Held(frames, perNode) \in Nat /\ orphans \in Nat
      BY HeldNat DEF StackIInv, IInv, ControlType, StorageType
    <3>4. QED
      BY <3>1, <3>2, <3>3
  <2>3. ASSUME NEW q, ExecutorRewind(q)
        PROVE  SessionSurvives'
    <3>1. outcome' \in {"crashed", "wrong result"} /\ "rewound" \in causes'
      <4> DEFINE wrong == "wrong result"
      <4>1. outcome' = CASE currentState = q       -> outcome
                         [] currentState = NoState -> "crashed"
                         [] OTHER                  -> wrong
        BY <2>3 DEF ExecutorRewind
      <4> HIDE DEF wrong
      <4>2. outcome' \in {"crashed", wrong}
        BY <1>0, <4>1
      <4>3. "rewound" \in causes'
        BY <2>3 DEF ExecutorRewind, Because
      <4>4. QED
        BY <4>2, <4>3 DEF wrong
    <3>2. QED
      BY <3>1 DEF SessionSurvives
  <2>4. QED
    BY <1>0, <1>3, <2>1, <2>2, <2>3
       DEF Elsewhere, SigHandler, Error, Catch, ParseOrPlan, ParseOrPlanFails, PGSemaphoreLock,
           RaiseLimit, TraceNotNormalShutdown, vars, Ends
<1>4. ASSUME NEW q \in Queries, Executes(q) \/ ExecutorStart(q) \/ ExecutorEnd(q)
      PROVE  FALSE
  BY <1>0, <1>4 DEF Executes, Execute, ExecutorStart, ExecutorEnd, control
<1>5. CASE TraceExecProcNodeHook \/ TraceExprNodeHook
  BY <1>0, <1>5, HookFinds
<1>6. CASE Leaving
  <2>1. outcome' = "crashed" /\ UNCHANGED causes
    BY <1>0, <1>6, LeavingStates
       DEF Leaving, ReturnFromStart, UnwindStart, ReturnFromExecution, UnwindExecution,
           ReturnFromHook, UnwindHook
  <2>2. QED
    BY <1>6, <2>1, CrashHasCause DEF SessionSurvives
<1>7. QED
  BY <1>1, <1>2, <1>3, <1>4, <1>5, <1>6, Steps

-----------------------------------------------------------------------------
\* The invariant of stack and storages.

Inv ==
    /\ StackIInv
    /\ StorageType /\ StorageInv
    /\ WaitInv /\ ExitsInv /\ SessionSurvives
    /\ outcome # "ok" => NoFreedState

LEMMA InitStack == Init => Inv
<1> SUFFICES ASSUME Init PROVE Inv
  OBVIOUS
<1>1. /\ frames = <<>> /\ DOMAIN frames = {} /\ tracing = FALSE /\ context = FALSE
      /\ outcome = "ok" /\ perNode = TRUE /\ orphans = 0
      /\ storages = 0 /\ waitEvent = "none"
      /\ currentState = NoState /\ stateStack = <<>>
  BY DEF Init, NodesInit, StatisticsInit
<1>2. FrameInv
  BY <1>1 DEF FrameInv, LiveTraced, LiveOnTop, NodesTraced, OpenFrames, StartAlone, StatesLive,
              NodesHaveState, NodesOfExecution, OldQueries, Restarts
<1>3. StackType
  <2>1. <<>> \in Seq(Queries \cup {NoState})
    OBVIOUS
  <2>2. QED
    BY <1>1, <2>1 DEF StackType
<1>4. StackInv /\ StorageType /\ StorageInv /\ WaitInv /\ SessionSurvives
  BY <1>1 DEF StackInv, StorageType, StorageInv, WaitInv, SessionSurvives
<1>5. ExitsInv
  BY SessionTraceAssumption DEF Init, ExitsInv
<1>6. QED
  BY <1>1, <1>2, <1>3, <1>4, <1>5, InitInv DEF Inv, StackIInv

LEMMA InvStep == Inv /\ [Next]_vars => Inv'
<1> SUFFICES ASSUME Inv, [Next]_vars PROVE Inv'
  OBVIOUS
<1>1. IInv'
  BY ControlStep, IdleStep, HooksStep, NestStep, FileStep DEF Inv, StackIInv, IInv
<1>2. StackType'
  BY StackTypeStep DEF Inv, StackIInv, IInv
<1>3. FrameInv'
  BY FrameStep DEF Inv, StackIInv
<1>4. StackInv'
  BY StackStep DEF Inv, StackIInv
<1>5. StorageType' /\ StorageInv' /\ WaitInv' /\ ExitsInv' /\ SessionSurvives'
  BY StorageTypeStep, StorageStep, WaitStep, ExitsStep, SurvivalStep DEF Inv
<1>6. (outcome # "ok" => NoFreedState)'
  BY EndStep DEF Inv
<1>7. QED
  BY <1>1, <1>2, <1>3, <1>4, <1>5, <1>6 DEF Inv, StackIInv

\* The invariant the theorems below follow from.
THEOREM StackInvariance == Spec => []Inv
<1>1. Init => Inv
  BY InitStack
<1>2. Inv /\ [Next]_vars => Inv'
  BY InvStep
<1>3. QED
  BY <1>1, <1>2, PTL DEF Spec

\* No pointer to a state outlives it, in the current state or on the stack of the
\* executor hooks: queries that end or fail, starts and stops between them and the
\* crash of an execution included.
THEOREM StatesAreKnown == Spec => []NoFreedState
<1>1. Inv => NoFreedState
  BY TracedStates DEF Inv
<1>2. QED
  BY <1>1, StackInvariance, PTL

\* The stack of traceExecuteNodesState follows the calls: its length is the number of
\* frames entered under this trace and the current state the innermost one's, also
\* when errors skip returns and functions stop and start the trace.
THEOREM StatesFollowCalls == Spec => []CurrentStateIsInnermost
<1>1. ASSUME Inv
      PROVE  CurrentStateIsInnermost
  <2>1. SUFFICES ASSUME tracing, outcome = "ok"
                 PROVE  LET entered == LiveIn(frames, Entering)
                        IN  /\ Len(stateStack) = Cardinality(entered)
                            /\ currentState =
                                  IF entered = {} THEN NoState
                                  ELSE LET innermost == CHOOSE i \in entered :
                                                            \A j \in entered : j <= i
                                       IN  Found(frames[innermost].query)
    BY DEF CurrentStateIsInnermost, Live, LiveIn, Entering
  <2> DEFINE E == LiveIn(frames, Entering)
  <2>2. Len(stateStack) = Cardinality(E)
    BY <1>1, <2>1 DEF Inv, StackIInv, StackInv
  <2>3. ControlType /\ StackType /\ StackInv
    BY <1>1 DEF Inv, StackIInv, IInv
  <2>4. CASE E = {}
    BY <2>1, <2>2, <2>3, <2>4, Innermost
  <2>5. CASE E # {}
    <3>1. PICK i \in E : (\A j \in E : j <= i) /\ currentState = Found(frames[i].query)
      BY <2>1, <2>3, <2>5, Innermost
    <3>2. DEFINE m == CHOOSE k \in E : \A j \in E : j <= k
    <3>3. m \in E /\ \A j \in E : j <= m
      BY <3>1
    <3>4. E \subseteq Nat
      <4>1. DOMAIN frames = 1 .. Len(frames) /\ Len(frames) \in Nat
        BY <2>3 DEF ControlType
      <4>2. QED
        BY <4>1 DEF LiveIn
    <3>5. m <= i /\ i <= m /\ m \in Nat /\ i \in Nat
      BY <3>1, <3>3, <3>4
    <3>6. m = i
      BY <3>5
    <3>7. currentState = Found(frames[m].query)
      BY <3>1, <3>6
    <3> HIDE DEF m, E
    <3>8. currentState = IF E = {} THEN NoState ELSE Found(frames[m].query)
      BY <2>5, <3>7
    <3>9. QED
      BY <2>2, <3>8 DEF m, E
  <2>6. QED
    BY <2>4, <2>5
<1>2. QED
  BY <1>1, StackInvariance, PTL

\* Each execution and, if they have their own, each node and expression on the stack
\* has its storage of buffer lock statistics on the list, above the one of the session;
\* what else is there was left by an error.
THEOREM StoragesFollowCalls == Spec => []StorageForEachFrame
<1>1. Inv => StorageForEachFrame
  <2>1. /\ Live(Executing) = LiveIn(frames, Executing)
        /\ Live({"node", "expr"}) = LiveIn(frames, Nodes)
    BY DEF Live, LiveIn, Nodes
  <2>2. SUFFICES ASSUME Inv, tracing, outcome = "ok"
                 PROVE  storages = 1 + Cardinality(LiveIn(frames, Executing)) + orphans
                              + IF perNode THEN Cardinality(LiveIn(frames, Nodes)) ELSE 0
    BY <2>1 DEF StorageForEachFrame
  <2>3. storages = 1 + Held(frames, perNode) + orphans
    BY <2>2 DEF Inv, StorageInv
  <2>4. /\ Cardinality(LiveIn(frames, Executing)) \in Nat
        /\ Cardinality(LiveIn(frames, Nodes)) \in Nat
        /\ orphans \in Nat
    BY <2>2, LiveFinite DEF Inv, StackIInv, IInv, ControlType, StorageType
  <2>5. QED
    BY <2>3, <2>4 DEF Held
<1>2. QED
  BY <1>1, StackInvariance, PTL

\* A trace crashes its session only for a query started before it, in an execution that
\* an earlier trace began, after a failed start or for a cursor rewound outside of FETCH;
\* only there a hook returns NULL in place of a value.  It writes to a freed map only
\* after PGSemaphoreLock slept, and no start is fatal before all slots are taken.
THEOREM TracedSessionSurvives == Spec => []SessionSurvives
<1>1. Inv => SessionSurvives
  BY DEF Inv
<1>2. QED
  BY <1>1, StackInvariance, PTL
=================================================================================
