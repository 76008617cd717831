---------------------------- MODULE MessageBuffer ----------------------------
(***************************************************************************)
(* The shared-memory message buffer through which every backend (a         *)
(* producer) sends statistics to the one collector process.                *)
(*                                                                         *)
(* The buffer is a stretch of memory that holds messages back to back,     *)
(* two counters that are read without the lock and written under it, an    *)
(* LWLock, a condition variable and a flag that is set when the collector  *)
(* ends.  Each step of this module is one access to that shared state, so  *)
(* that every interleaving of the processes is a behaviour.                *)
(*                                                                         *)
(* A message keeps the address it has in its array: a sender's array and   *)
(* the shared memory are both walked by adding the size of a message to    *)
(* its address, and whether that walk finds the messages is a question the *)
(* properties ask.                                                         *)
(***************************************************************************)
EXTENDS Integers, Sequences, FiniteSets

CONSTANTS
    Producers,      \* backends that send messages
    Collector,      \* the process that receives them
    NoProc,         \* no process: the value of a free lock
    Capacity,       \* bytes of message memory (MESSAGEBUFFER_SIZE)
    WaitSpace,      \* a sender waits for more free bytes than this
    SymbolSize,     \* bytes of the message that names the traced function
    Arrays,         \* arrays a caller may pass, as sequences of [size, at]
    MaxSent         \* bound: messages a producer sends in a behaviour

Procs == Producers \cup {Collector}


EndOf(s)   == IF s = <<>> THEN 0 ELSE s[Len(s)].at + s[Len(s)].size

\* The messages of s lie back to back from address 0.
Contiguous(s) ==
    \A i \in DOMAIN s :
        s[i].at = IF i = 1 THEN 0 ELSE s[i - 1].at + s[i - 1].size

\* Where a message lies in its array.
Slot == [size : Nat \ {0}, at : Nat]

\* The sizes the code fixes: the head-room a sender waits for is larger than
\* a symbol message and any single message together.
ASSUME MessageBufferAssumption ==
    /\ Collector \notin Producers
    /\ NoProc \notin Procs
    /\ Capacity \in Nat
    /\ WaitSpace \in Nat
    /\ WaitSpace < Capacity
    /\ SymbolSize \in Nat \ {0}
    /\ MaxSent \in Nat
    /\ \A a \in Arrays :
          /\ a \in Seq(Slot)
          /\ a # <<>>
          /\ Contiguous(a)
          /\ \A i \in DOMAIN a : SymbolSize + a[i].size <= WaitSpace + 1

VARIABLES
    buffer,         \* the messages in the shared memory, with their addresses
    numMessages,    \* published number of messages
    freeSpace,      \* published number of free bytes
    deleted,        \* the collector has gone; nobody should wait any more
    lock,           \* holder of the LWLock
    cvQueue,        \* processes in the wait queue of the condition variable
    pc,             \* where each process is
    seen,           \* the counter value a process read last
    result,         \* counters the lock holder is about to publish
    pending,        \* what is left of the array a producer is sending
    sent,           \* how many messages a producer has started to send
    batch           \* the array the collector received last

shared == <<buffer, numMessages, freeSpace, deleted>>
sync   == <<lock, cvQueue>>
client == <<pending, sent, batch>>
vars   == <<shared, sync, pc, seen, result, client>>

Message ==
    [type : {"SYMBOL", "CUSTOM"}, symbol : Producers, id : Nat,
     size : Nat, at : Int]

\* Process states in which a process is past the wait loop and owns the lock.
Critical == {"copy", "writeNum", "writeFree", "release"}
\* The collector's way out: signal handler, broadcast, exit.
Leaving  == {"delBroadcast", "exiting"}

PcStates ==
    {"idle", "enter", "prepare", "read", "check", "sleep", "lock", "locked",
     "retry", "broadcast", "exited"} \cup Critical \cup Leaving

TypeOK ==
    /\ buffer \in Seq(Message)
    /\ numMessages \in Nat
    /\ freeSpace \in Int
    /\ deleted \in BOOLEAN
    /\ lock \in Procs \cup {NoProc}
    /\ cvQueue \subseteq Procs
    /\ pc \in [Procs -> PcStates]
    /\ seen \in [Procs -> Int]
    /\ result \in [num : Nat, free : Int]
    /\ pending \in [Producers -> Seq(Message)]
    /\ sent \in [Producers -> 0 .. MaxSent]
    /\ batch \in Seq(Message)

NoResult == [num |-> 0, free |-> 0]

\* MessageBufferInit
Init ==
    /\ buffer = <<>>
    /\ numMessages = 0
    /\ freeSpace = Capacity
    /\ deleted = FALSE
    /\ lock = NoProc
    /\ cvQueue = {}
    /\ pc = [p \in Procs |-> "idle"]
    /\ seen = [p \in Procs |-> 0]
    /\ result = NoResult
    /\ pending = [p \in Producers |-> <<>>]
    /\ sent = [p \in Producers |-> 0]
    /\ batch = <<>>

\* A local variable of p goes out of scope.
Unsee(p) == seen' = [seen EXCEPT ![p] = 0]

Goto(p, l) == pc' = [pc EXCEPT ![p] = l]
At(p, l)   == pc[p] = l

-----------------------------------------------------------------------------
\* The callers.

\* memmove of what follows the first k messages to the start of the array.
MemMove(s, k, bytes) ==
    [i \in 1 .. Len(s) - k |-> [s[i + k] EXCEPT !.at = @ - bytes]]

\* A backend builds an array of messages and starts to send it.
CallPut(p) ==
    /\ At(p, "idle")
    /\ \E a \in Arrays :
          /\ sent[p] + Len(a) <= MaxSent
          /\ pending' = [pending EXCEPT ![p] =
                [i \in 1 .. Len(a) |->
                   [type |-> "CUSTOM", symbol |-> p, id |-> sent[p] + i,
                    size |-> a[i].size, at |-> a[i].at]]]
          /\ sent' = [sent EXCEPT ![p] = @ + Len(a)]
    /\ Goto(p, "enter")
    /\ UNCHANGED <<shared, sync, seen, result, batch>>

\* The collector has processed what it received and asks for more.
CallGet ==
    /\ At(Collector, "idle")
    /\ batch' = <<>>
    /\ Goto(Collector, "enter")
    /\ UNCHANGED <<shared, sync, seen, result, pending, sent>>

\* Put answers "all n stored" when it stored none: the caller's messages are gone.
Forget(p) == pending' = [q \in Producers |-> IF q = p THEN <<>> ELSE pending[q]]

\* The test of deleted at the head of MessageBufferPut and MessageBufferGet.
Enter(p) ==
    /\ At(p, "enter")
    /\ \/ /\ deleted
          /\ Forget(p)
          /\ Goto(p, "idle")
       \/ /\ ~deleted
          /\ Goto(p, "prepare")
          /\ UNCHANGED pending
    /\ UNCHANGED <<shared, sync, seen, result, sent, batch>>

-----------------------------------------------------------------------------
\* The wait loop, the same for senders (WaitUntillMessageBufferHasSpace) and
\* the collector (WaitUntilMessageBufferNotEmpty) but for the counter.

Counter(p)    == IF p = Collector THEN numMessages ELSE freeSpace
MustSleep(p, v) == IF p = Collector THEN v = 0 ELSE v < WaitSpace
\* Mutant: a sender enters with any room at all.
MayEnterAnyRoom(p, v) == v # 0

MayEnter(p, v)  == IF p = Collector THEN v # 0 ELSE v > WaitSpace

\* ConditionVariablePrepareToSleep
Prepare(p) ==
    /\ At(p, "prepare")
    /\ cvQueue' = cvQueue \cup {p}
    /\ Goto(p, "read")
    /\ UNCHANGED <<shared, lock, seen, result, client>>

ReadCounter(p) ==
    /\ At(p, "read")
    /\ seen' = [seen EXCEPT ![p] = Counter(p)]
    /\ Goto(p, "check")
    /\ UNCHANGED <<shared, sync, result, client>>

\* Mutant: whether the buffer is deleted is not looked at before sleeping.
CheckCounterOnly(p) ==
    /\ At(p, "check")
    /\ Goto(p, IF MustSleep(p, seen[p]) THEN "sleep" ELSE "lock")
    /\ Unsee(p)
    /\ UNCHANGED <<shared, sync, result, client>>

Check(p) ==
    /\ At(p, "check")
    /\ Goto(p, IF MustSleep(p, seen[p]) /\ ~deleted THEN "sleep" ELSE "lock")
    /\ Unsee(p)
    /\ UNCHANGED <<shared, sync, result, client>>

\* ConditionVariableSleep returns once a broadcast took the process out of the
\* queue, and puts it back for the next round.  The counter read here is read
\* again under the lock before it is used.
Awake(p) ==
    /\ At(p, "sleep")
    /\ p \notin cvQueue
    /\ cvQueue' = cvQueue \cup {p}
    /\ Goto(p, "lock")
    /\ UNCHANGED <<shared, lock, seen, result, client>>

\* A cancelled query leaves the sleep by an error; abort takes the process out
\* of the queue.
Interrupt(p) ==
    /\ At(p, "sleep")
    /\ p # Collector
    /\ cvQueue' = cvQueue \ {p}
    /\ Forget(p)
    /\ Goto(p, "idle")
    /\ UNCHANGED <<shared, lock, seen, result, sent, batch>>

\* Mutant: the lock is taken in shared mode.
AcquireShared(p) ==
    /\ At(p, "lock")
    /\ lock' = p
    /\ seen' = [seen EXCEPT ![p] = Counter(p)]
    /\ Goto(p, "locked")
    /\ UNCHANGED <<shared, cvQueue, result, client>>

Acquire(p) ==
    /\ At(p, "lock")
    /\ lock = NoProc
    /\ lock' = p
    /\ seen' = [seen EXCEPT ![p] = Counter(p)]
    /\ Goto(p, "locked")
    /\ UNCHANGED <<shared, cvQueue, result, client>>

\* Under the lock: go on with it, or release it and look at deleted.
Recheck(p) ==
    /\ At(p, "locked")
    /\ \/ /\ MayEnter(p, seen[p])
          /\ cvQueue' = cvQueue \ {p}
          /\ Unsee(p)
          /\ Goto(p, "copy")
          /\ UNCHANGED lock
       \/ /\ ~MayEnter(p, seen[p])
          /\ lock' = NoProc
          /\ Goto(p, "retry")
          /\ UNCHANGED <<cvQueue, seen>>
    /\ UNCHANGED <<shared, result, client>>

\* Mutant: the loop does not end when the buffer is deleted.
RetryForever(p) ==
    /\ At(p, "retry")
    /\ Goto(p, "check")
    /\ UNCHANGED <<shared, sync, seen, result, client>>

Retry(p) ==
    /\ At(p, "retry")
    /\ \/ /\ ~deleted
          /\ Goto(p, "check")
          /\ UNCHANGED <<cvQueue, seen, pending>>
       \/ /\ deleted
          /\ cvQueue' = cvQueue \ {p}
          /\ Unsee(p)
          /\ Forget(p)
          /\ Goto(p, "idle")
    /\ UNCHANGED <<shared, lock, result, sent, batch>>

-----------------------------------------------------------------------------
\* The two operations, under the lock.

Header(p, at) ==
    [type |-> "SYMBOL", symbol |-> p, id |-> 0, size |-> SymbolSize, at |-> at]

\* The bytes of the first k messages of an array.
Bytes(s, k) == IF k = 0 THEN 0 ELSE s[k].at + s[k].size

\* How many of the first n messages the copy loops take: they stop at the
\* first that does not fit.
Fitting(s, n, bytes) ==
    {k \in 0 .. n :
        /\ \A j \in 1 .. k : Bytes(s, j) <= bytes
        /\ k < n => Bytes(s, k + 1) > bytes}

\* Mutant: the messages are fitted before the symbol is accounted for.
RoomBeforeSymbol == freeSpace

\* What is left for messages behind the symbol.
Room == freeSpace - SymbolSize

\* Mutant: the symbol is written only into an empty buffer.
NameOnce(p, base) == IF buffer = <<>> THEN <<Header(p, base)>> ELSE <<>>

Name(p, base) == <<Header(p, base)>>

\* MessageBufferPut: the symbol first, then as many messages as there is room
\* for.  The caller moves the rest to the front of its array and calls again.
Store(p) ==
    /\ At(p, "copy")
    /\ p # Collector
    /\ \E k \in Fitting(pending[p], Len(pending[p]), Room) :
        LET base == Capacity - freeSpace
            used == Bytes(pending[p], k)
        IN  /\ buffer' = buffer \o Name(p, base) \o
                  [i \in 1 .. k |->
                     [pending[p][i] EXCEPT !.at = base + SymbolSize + @]]
            /\ result' = [num |-> numMessages + 1 + k, free |-> Room - used]
            /\ pending' = [pending EXCEPT ![p] = MemMove(@, k, used)]
    /\ Goto(p, "writeNum")
    /\ UNCHANGED <<numMessages, freeSpace, deleted, sync, seen, sent, batch>>

\* MessageBufferGet with a destination as large as the buffer.
Take ==
    /\ At(Collector, "copy")
    /\ \E k \in Fitting(buffer, numMessages, Capacity) :
        LET used == Bytes(buffer, k)
        IN  /\ batch' = SubSeq(buffer, 1, k)
            /\ buffer' = MemMove(buffer, k, used)
            /\ result' = [num |-> numMessages - k, free |-> freeSpace + used]
    /\ Goto(Collector, "writeNum")
    /\ UNCHANGED <<numMessages, freeSpace, deleted, sync, seen, pending, sent>>

\* Mutant: the number is subtracted from the counter, as a number taken out would be.
SubtractNumMessages(p) ==
    /\ At(p, "writeNum")
    /\ numMessages' = numMessages - result.num
    /\ Goto(p, "writeFree")
    /\ UNCHANGED <<buffer, freeSpace, deleted, sync, seen, result, client>>

\* EndMessageBufferOperation: publish the counters, release, broadcast.
WriteNumMessages(p) ==
    /\ At(p, "writeNum")
    /\ numMessages' = result.num
    /\ Goto(p, "writeFree")
    /\ UNCHANGED <<buffer, freeSpace, deleted, sync, seen, result, client>>

WriteFreeSpace(p) ==
    /\ At(p, "writeFree")
    /\ freeSpace' = result.free
    /\ Goto(p, "release")
    /\ UNCHANGED <<buffer, numMessages, deleted, sync, seen, result, client>>

Release(p) ==
    /\ At(p, "release")
    /\ lock' = NoProc
    /\ result' = NoResult
    /\ Goto(p, "broadcast")
    /\ UNCHANGED <<shared, cvQueue, seen, client>>

\* Mutant: one sleeper is woken instead of all.
SignalOne(p) ==
    /\ At(p, "broadcast")
    /\ cvQueue' = IF cvQueue = {} THEN {} ELSE cvQueue \ {CHOOSE q \in cvQueue : TRUE}
    /\ Goto(p, IF p # Collector /\ pending[p] # <<>> THEN "enter" ELSE "idle")
    /\ UNCHANGED <<shared, lock, seen, result, client>>

\* Mutant: only the collector, which makes room, wakes the others.
BroadcastWhenFreed(p) ==
    /\ At(p, "broadcast")
    /\ cvQueue' = IF p = Collector THEN {} ELSE cvQueue
    /\ Goto(p, IF p # Collector /\ pending[p] # <<>> THEN "enter" ELSE "idle")
    /\ UNCHANGED <<shared, lock, seen, result, client>>

\* A sender that has messages left calls MessageBufferPut again.
Broadcast(p) ==
    /\ At(p, "broadcast")
    /\ cvQueue' = {}
    /\ Goto(p, IF p # Collector /\ pending[p] # <<>> THEN "enter" ELSE "idle")
    /\ UNCHANGED <<shared, lock, seen, result, client>>

-----------------------------------------------------------------------------
\* SIGTERM in the collector, at any instruction: the handler deletes the
\* buffer (flag, then broadcast) and exits, which gives back the lock.

Terminate ==
    /\ pc[Collector] \notin Leaving \cup {"exited"}
    /\ deleted' = TRUE
    /\ Goto(Collector, "delBroadcast")
    /\ UNCHANGED <<buffer, numMessages, freeSpace, sync, seen, result, client>>

DeleteBroadcast ==
    /\ At(Collector, "delBroadcast")
    /\ cvQueue' = {}
    /\ Goto(Collector, "exiting")
    /\ UNCHANGED <<shared, lock, seen, result, client>>

Exit ==
    /\ At(Collector, "exiting")
    /\ lock' = IF lock = Collector THEN NoProc ELSE lock
    /\ Goto(Collector, "exited")
    /\ UNCHANGED <<shared, cvQueue, seen, result, client>>

-----------------------------------------------------------------------------
\* One step of a process inside an operation.
WaitStep(p) ==
    \/ Enter(p) \/ Prepare(p) \/ ReadCounter(p) \/ Check(p) \/ Awake(p)
    \/ Acquire(p) \/ Recheck(p) \/ Retry(p)

EndStep(p) ==
    \/ WriteNumMessages(p) \/ WriteFreeSpace(p) \/ Release(p) \/ Broadcast(p)

Step(p) == WaitStep(p) \/ EndStep(p)

Next ==
    \/ \E p \in Producers : CallPut(p) \/ Store(p) \/ Interrupt(p)
    \/ \E p \in Procs : Step(p)
    \/ CallGet \/ Take
    \/ Terminate \/ DeleteBroadcast \/ Exit

Spec == Init /\ [][Next]_vars

\* A process that runs goes on; LWLock queues its waiters, so a process that
\* wants the lock again and again free gets it.  Nothing makes a backend send,
\* a user cancel, or an administrator stop the server.
Fairness ==
    /\ \A p \in Producers : WF_vars(Store(p))
    /\ \A p \in Procs : WF_vars(Step(p)) /\ SF_vars(Acquire(p))
    /\ WF_vars(CallGet) /\ WF_vars(Take)
    /\ WF_vars(DeleteBroadcast) /\ WF_vars(Exit)

FairSpec == Spec /\ Fairness
-----------------------------------------------------------------------------
\* Properties.

\* A process between the wait loop and the end of EndMessageBufferOperation is
\* the holder of the lock: no two processes move messages at once.
LockDiscipline ==
    \A p \in Procs :
        /\ pc[p] \in Critical \cup {"locked"} => lock = p
        /\ lock = p => pc[p] \in Critical \cup Leaving \cup {"locked"}

\* The memory is being changed, or was when the collector was stopped in the
\* middle of MessageBufferGet.
Torn == deleted \/ \E p \in Procs : pc[p] \in {"writeNum", "writeFree"}

\* Whoever gets the lock finds numMessages messages back to back from the start
\* of the memory and freeSpace bytes behind them: the walk by message sizes
\* in MessageBufferGet finds the messages that MessageBufferPut stored.
BufferLayout ==
    ~Torn => /\ Contiguous(buffer)
             /\ numMessages = Len(buffer)
             /\ freeSpace = Capacity - EndOf(buffer)

\* No message is ever stored across the end of the memory and the counter of
\* free bytes never wraps below zero, also after the collector was stopped
\* halfway through an operation.
InBounds ==
    /\ freeSpace \in 0 .. Capacity
    /\ \A i \in DOMAIN buffer :
          buffer[i].at >= 0 /\ buffer[i].at + buffer[i].size <= Capacity

\* A process announces a wake-up it has not sent yet.
WillBroadcast ==
    \E p \in Procs : pc[p] \in {"writeFree", "release", "broadcast", "delBroadcast"}

\* A process that sleeps, or is about to, and whose condition has come true or
\* whose buffer was deleted will be woken: it is out of the queue already or
\* someone is on the way to a broadcast.  The counter is read and the flag is
\* tested without the lock, so this is what ConditionVariablePrepareToSleep
\* before the first read is for.
NoLostWakeup ==
    \A p \in Procs :
        (pc[p] = "sleep" /\ p \in cvQueue) =>
            \/ WillBroadcast
            \/ MustSleep(p, Counter(p)) /\ ~deleted

\* Each statistics message follows the name of the symbol it belongs to with no
\* other name between them: the collector keeps a current symbol and adds what
\* follows to it.
Attributed(s) ==
    \A i \in DOMAIN s : s[i].type = "CUSTOM" =>
        \E j \in 1 .. i - 1 :
            /\ s[j].type = "SYMBOL" /\ s[j].symbol = s[i].symbol
            /\ \A l \in j + 1 .. i : s[l].type = "CUSTOM"

Attribution == Attributed(buffer) /\ Attributed(batch)

\* Every call of MessageBufferPut ends: a waiting sender gets room, or is told
\* that the buffer is deleted.
PutReturns == \A p \in Producers : pc[p] # "idle" ~> pc[p] = "idle"

\* What is in the buffer is taken out, unless the collector is stopped.
Drained == numMessages > 0 ~> numMessages = 0 \/ deleted

\* The buffer implements the queue: the queue holds the messages without their
\* addresses, and a sender's remaining array is what it has to send.
Strip(s) ==
    [i \in DOMAIN s |-> [type |-> s[i].type, symbol |-> s[i].symbol, id |-> s[i].id]]

Queue == INSTANCE BatchQueue WITH
    queue  <- Strip(buffer),
    todo   <- [p \in Producers |-> Strip(pending[p])],
    batch  <- Strip(batch),
    closed <- deleted

ImplementsQueue == Queue!Spec
=============================================================================
