----------------------------- MODULE ExecuteNodes -----------------------------
(***************************************************************************)
(* trace_execute_nodes.c: a traced query has a state with the lists of its *)
(* plan nodes and expressions whose functions were replaced by hooks.  The *)
(* hooks know no query: they look in currentState, which the executor      *)
(* hooks push and pop around the execution of a query.                     *)
(***************************************************************************)
EXTENDS SequencesExt

CONSTANTS
    Queries,        \* QueryDescs
    NoState         \* the NULL state

ASSUME ExecuteNodesAssumption == NoState \notin Queries \cup {"new", "inited"}

VARIABLES
    states,         \* traceExecuteNodesStateList: "inited" is nodeDataIsInited
    currentState,   \* the query whose state it is
    stateStack,     \* traceExecuteNodesStateStack
    hooked          \* what is replaced in the executor's own tree of a query

nodes == <<states, currentState, stateStack, hooked>>

NodesTypeOK ==
    /\ states \in [Queries -> {NoState, "new", "inited"}]
    /\ currentState \in Queries \cup {NoState}
    /\ stateStack \in Seq(Queries \cup {NoState})
    /\ hooked \in [Queries -> SUBSET {"node", "expr"}]

NodesInit ==
    /\ states = [q \in Queries |-> NoState]
    /\ currentState = NoState
    /\ stateStack = <<>>
    /\ hooked = [q \in Queries |-> {}]

\* ExecutorTraceUprobesGet, at the start of a trace.
ExecutorTraceUprobesGet ==
    /\ states' = [q \in Queries |-> NoState]
    /\ currentState' = NoState
    /\ stateStack' = <<>>
    /\ UNCHANGED hooked

ExecuteNodesStateNew(q) ==
    /\ stateStack' = Append(stateStack, currentState)
    /\ currentState' = q
    /\ states' = [states EXCEPT ![q] = "new"]
    /\ UNCHANGED hooked

\* ListPopLast of an empty or missing list returns NULL.
ExecuteNodesStatePop ==
    /\ currentState' = IF stateStack = <<>> THEN NoState ELSE Last(stateStack)
    /\ stateStack' = IF stateStack = <<>> THEN <<>> ELSE Front(stateStack)

\* The probe on ExecInitExpr hooks what ExecutorStart of q initializes.
ExecInitExprRetFunc(q) ==
    hooked' = IF currentState = q /\ states[q] = "new"
              THEN [hooked EXCEPT ![q] = @ \cup {"expr"}] ELSE hooked

\* ListFind: NULL for a query started before the trace.
Found(q) == IF states[q] = NoState THEN NoState ELSE q

ExecuteNodesStatePush(q) ==
    /\ stateStack' = Append(stateStack, currentState)
    /\ currentState' = Found(q)

InitExecutorNode(q) == hooked' = [hooked EXCEPT ![q] = @ \cup {"node"}]

\* The walk over the plan happens at the first execution after ExecutorStart.
InitExecutorNodes(q) ==
    IF states[q] = "new"
    THEN /\ states' = [states EXCEPT ![q] = "inited"]
         /\ InitExecutorNode(q)
    ELSE UNCHANGED <<states, hooked>>

\* The replaced functions are put back before a state is freed.
ExecutorTraceClearStat(S) == hooked' = [q \in Queries |-> IF q \in S THEN {} ELSE hooked[q]]

WithState == {q \in Queries : states[q] # NoState}

\* Mutant: the functions are not put back.
ExecuteNodesStateForget(q) ==
    /\ states' = [states EXCEPT ![q] = NoState]
    /\ UNCHANGED hooked

\* Called when the memory of the query is freed; its state may be gone already.
ExecuteNodesStateDelete(q) ==
    /\ ExecutorTraceClearStat(WithState \cap {q})
    /\ states' = [states EXCEPT ![q] = NoState]

\* Mutant: only what the state at hand has is put back.
ExecuteNodesStateCleanCurrent ==
    /\ ExecutorTraceClearStat(WithState \cap {currentState})
    /\ states' = [q \in Queries |-> NoState]
    /\ currentState' = NoState
    /\ stateStack' = <<>>

\* At the end of a trace, for every state that is left.
ExecuteNodesStateClean ==
    /\ ExecutorTraceClearStat(WithState)
    /\ states' = [q \in Queries |-> NoState]
    /\ currentState' = NoState
    /\ stateStack' = <<>>
=============================================================================
