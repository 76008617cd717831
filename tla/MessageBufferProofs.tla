-------------------------- MODULE MessageBufferProofs --------------------------
(***************************************************************************)
(* Proofs about the message buffer, for any set of backends, any sizes and *)
(* any arrays of messages: first the calls, the counters and the condition *)
(* variable; then what lies in the memory, where the messages are and what *)
(* they follow, and that the whole implements the queue of BatchQueue.     *)
(***************************************************************************)
EXTENDS MessageBuffer, SequenceTheorems, SetInduction

\* The collector is on its way out exactly when the buffer is deleted.
GoneInv == deleted <=> pc[Collector] \in Leaving \cup {"exited"}

\* numMessages counts the messages in the memory, but for the moment between
\* moving messages and publishing their number.
CountInv ==
    ~deleted =>
        /\ \A p \in Procs : pc[p] = "writeNum" => result.num = Len(buffer)
        /\ (\A p \in Procs : pc[p] # "writeNum") => numMessages = Len(buffer)

\* What a process decides to sleep on is still true when it falls asleep, or
\* somebody is about to wake it.  This is what makes NoLostWakeup inductive.
WakeInv ==
    /\ \A p \in Procs : pc[p] = "locked" => seen[p] = Counter(p)
    /\ \A p \in Procs : (pc[p] \in {"check", "retry"} /\ p \in cvQueue) =>
          \/ WillBroadcast
          \/ MustSleep(p, seen[p]) => MustSleep(p, Counter(p))
    /\ NoLostWakeup

IInv == TypeOK /\ LockDiscipline /\ GoneInv /\ CountInv /\ WakeInv

USE DEF Procs, At

\* What the assumption says of the processes and the sizes.
LEMMA ConstantFacts ==
    /\ Collector \notin Producers
    /\ NoProc \notin Procs
    /\ Capacity \in Nat
    /\ WaitSpace \in Nat
    /\ SymbolSize \in Nat
    /\ MaxSent \in Nat
  BY MessageBufferAssumption

-----------------------------------------------------------------------------

\* A process that moves on changes its own place only.
LEMMA GotoMoves ==
    ASSUME pc \in [Procs -> PcStates], NEW p \in Procs, NEW l \in PcStates,
           Goto(p, l)
    PROVE  /\ pc' \in [Procs -> PcStates]
           /\ pc'[p] = l
           /\ \A q \in Procs : q # p => pc'[q] = pc[q]
  BY DEF Goto

\* The initial state satisfies the invariant.
LEMMA InitInv == Init => IInv
<1> SUFFICES ASSUME Init PROVE IInv
  OBVIOUS
<1>1. TypeOK
  <2>1. /\ buffer \in Seq(Message) /\ batch \in Seq(Message)
        /\ pending \in [Producers -> Seq(Message)]
    BY DEF Init
  <2>2. sent \in [Producers -> 0 .. MaxSent] /\ freeSpace \in Int
    BY ConstantFacts DEF Init
  <2>3. pc \in [Procs -> PcStates] /\ seen \in [Procs -> Int]
    BY DEF Init, PcStates
  <2>4. QED
    BY <2>1, <2>2, <2>3 DEF Init, TypeOK, NoResult
<1>2. \A p \in Procs : pc[p] = "idle"
  BY DEF Init
<1>3. LockDiscipline
  BY <1>2, ConstantFacts DEF Init, LockDiscipline, Critical, Leaving
<1>4. GoneInv
  BY <1>2 DEF Init, GoneInv, Leaving
<1>5. CountInv
  BY <1>2 DEF Init, CountInv
<1>6. WakeInv
  BY <1>2 DEF Init, WakeInv, NoLostWakeup
<1>7. QED
  BY <1>1, <1>3, <1>4, <1>5, <1>6 DEF IInv

\* Two arrays one after the other.
LEMMA ConcatMessages ==
    ASSUME NEW s \in Seq(Message), NEW t \in Seq(Message)
    PROVE  s \o t \in Seq(Message) /\ Len(s \o t) = Len(s) + Len(t)
  BY ConcatProperties

\* A message at another address is a message.
LEMMA MoveMessage ==
    ASSUME NEW m \in Message, NEW a \in Int
    PROVE  [m EXCEPT !.at = a] \in Message
  BY DEF Message

\* Moving the rest of an array to its start leaves an array of messages.
LEMMA MemMoveType ==
    ASSUME NEW s \in Seq(Message), NEW k \in 0 .. Len(s), NEW b \in Int
    PROVE  MemMove(s, k, b) \in Seq(Message) /\ Len(MemMove(s, k, b)) = Len(s) - k
<1>1. Len(s) - k \in Nat
  OBVIOUS
<1>2. ASSUME NEW i \in 1 .. Len(s) - k
      PROVE  [s[i + k] EXCEPT !.at = @ - b] \in Message
  <2>1. s[i + k] \in Message
    OBVIOUS
  <2>2. s[i + k].at - b \in Int
    BY <2>1 DEF Message
  <2>3. QED
    BY <2>1, <2>2, MoveMessage
<1>3. [i \in 1 .. Len(s) - k |-> [s[i + k] EXCEPT !.at = @ - b]] \in
          [1 .. Len(s) - k -> Message]
  BY <1>2
<1>4. \A n \in Nat : \A f \in [1 .. n -> Message] :
         f \in Seq(Message) /\ Len(f) = n
  OBVIOUS
<1>5. MemMove(s, k, b) \in [1 .. Len(s) - k -> Message]
  BY <1>3 DEF MemMove
<1>6. QED
  BY <1>1, <1>4, <1>5

\* A sender that gives up leaves an array of messages, the empty one.
LEMMA ForgetType ==
    ASSUME pending \in [Producers -> Seq(Message)], NEW p, Forget(p)
    PROVE  pending' \in [Producers -> Seq(Message)]
  BY DEF Forget

\* The size of a prefix of an array is a number.
LEMMA BytesType ==
    ASSUME NEW s \in Seq(Message), NEW k \in 0 .. Len(s)
    PROVE  Bytes(s, k) \in Int
<1>1. CASE k = 0
  BY <1>1 DEF Bytes
<1>2. CASE k # 0
  <2>1. s[k] \in Message
    BY <1>2
  <2>2. QED
    BY <1>2, <2>1 DEF Bytes, Message
<1>3. QED
  BY <1>1, <1>2

\* What storing k messages does to the memory, the counters to be published and
\* the sender's array.
StoreEffect(p, k) ==
    /\ buffer' \in Seq(Message)
    /\ Len(buffer') = Len(buffer) + 1 + k
    /\ pending' \in [Producers -> Seq(Message)]
    /\ result' \in [num : Nat, free : Int]
    /\ result'.num = numMessages + 1 + k

LEMMA StoreFacts ==
    ASSUME TypeOK, NEW p \in Producers, Store(p)
    PROVE  \E k \in 0 .. Len(pending[p]) : StoreEffect(p, k)
<1>0. /\ buffer \in Seq(Message) /\ numMessages \in Nat /\ freeSpace \in Int
      /\ pending \in [Producers -> Seq(Message)]
  BY DEF TypeOK
<1> DEFINE base == Capacity - freeSpace
<1> DEFINE moved(k) == [i \in 1 .. k |->
                          [pending[p][i] EXCEPT !.at = base + SymbolSize + @]]
<1>1. PICK k \in Fitting(pending[p], Len(pending[p]), Room) :
        /\ buffer' = buffer \o Name(p, base) \o moved(k)
        /\ result' = [num |-> numMessages + 1 + k,
                       free |-> Room - Bytes(pending[p], k)]
        /\ pending' = [pending EXCEPT ![p] = MemMove(@, k, Bytes(pending[p], k))]
  BY DEF Store
<1>2. pending[p] \in Seq(Message) /\ k \in 0 .. Len(pending[p])
  BY <1>0 DEF Fitting
<1>3. Room \in Int /\ base \in Int /\ Bytes(pending[p], k) \in Int
  BY <1>0, <1>2, BytesType, ConstantFacts DEF Room
<1> HIDE DEF base
<1>4. Name(p, base) \in Seq(Message) /\ Len(Name(p, base)) = 1
  <2>1. Header(p, base) \in Message
    BY <1>3, ConstantFacts DEF Header, Message
  <2>2. QED
    BY <2>1 DEF Name
<1>5. ASSUME NEW i \in 1 .. k
      PROVE  [pending[p][i] EXCEPT !.at = base + SymbolSize + @] \in Message
  <2>1. pending[p][i] \in Message
    BY <1>2
  <2>2. pending[p][i].at \in Int
    BY <2>1 DEF Message
  <2>3. base + SymbolSize + pending[p][i].at \in Int
    BY <1>3, <2>2, ConstantFacts
  <2>4. QED
    BY <2>1, <2>3, MoveMessage
<1>6. moved(k) \in Seq(Message) /\ Len(moved(k)) = k
  <2>1. moved(k) \in [1 .. k -> Message]
    BY <1>5
  <2>2. k \in Nat
    BY <1>2
  <2> HIDE DEF moved
  <2>3. QED
    BY <2>1, <2>2
<1>7. buffer' = buffer \o Name(p, base) \o moved(k)
  BY <1>1
<1> HIDE DEF moved
<1>8. buffer' \in Seq(Message) /\ Len(buffer') = Len(buffer) + 1 + k
  <2>1. /\ buffer \o Name(p, base) \in Seq(Message)
        /\ Len(buffer \o Name(p, base)) = Len(buffer) + 1
    BY <1>0, <1>4, ConcatMessages
  <2>2. QED
    BY <1>2, <1>6, <1>7, <2>1, ConcatMessages
<1>9. pending' \in [Producers -> Seq(Message)]
  BY <1>0, <1>1, <1>2, <1>3, MemMoveType
<1>10. result' \in [num : Nat, free : Int] /\ result'.num = numMessages + 1 + k
  BY <1>0, <1>1, <1>2, <1>3
<1>11. QED
  BY <1>2, <1>8, <1>9, <1>10 DEF StoreEffect

\* The collector that is about to take the messages is told how many there are.
LEMMA TakeSeesAll ==
    ASSUME IInv, pc[Collector] = "copy"
    PROVE  ~deleted /\ numMessages = Len(buffer)
<1>1. ~deleted
  BY DEF IInv, GoneInv, Leaving
<1>2. \A p \in Procs : pc[p] # "writeNum"
  BY DEF IInv, LockDiscipline, Critical
<1>3. QED
  BY <1>1, <1>2 DEF IInv, CountInv

\* The invariant's types survive every step.
LEMMA TypeStep == IInv /\ [Next]_vars => TypeOK'
<1> SUFFICES ASSUME IInv, [Next]_vars PROVE TypeOK'
  OBVIOUS
<1> USE DEF TypeOK, Goto, PcStates, Critical, Leaving, Forget, Unsee, shared, sync, client
<1>0. TypeOK
  BY DEF IInv
<1>1. ASSUME NEW p \in Producers, CallPut(p) PROVE TypeOK'
  <2>1. PICK a \in Arrays :
          /\ sent[p] + Len(a) <= MaxSent
          /\ pending' = [pending EXCEPT ![p] =
                [i \in 1 .. Len(a) |->
                   [type |-> "CUSTOM", symbol |-> p, id |-> sent[p] + i,
                    size |-> a[i].size, at |-> a[i].at]]]
          /\ sent' = [sent EXCEPT ![p] = @ + Len(a)]
    BY <1>1 DEF CallPut
  <2>2. a \in Seq(Slot) /\ Len(a) \in Nat
    BY MessageBufferAssumption
  <2>3. \A i \in 1 .. Len(a) :
           [type |-> "CUSTOM", symbol |-> p, id |-> sent[p] + i,
            size |-> a[i].size, at |-> a[i].at] \in Message
    <3> SUFFICES ASSUME NEW i \in 1 .. Len(a)
                 PROVE  [type |-> "CUSTOM", symbol |-> p, id |-> sent[p] + i,
                         size |-> a[i].size, at |-> a[i].at] \in Message
      OBVIOUS
    <3>1. a[i] \in Slot
      BY <2>2
    <3>2. sent[p] \in 0 .. MaxSent /\ MaxSent \in Nat
      BY <1>0, ConstantFacts
    <3>3. QED
      BY <2>2, <3>1, <3>2 DEF Message, Slot
  <2>4. pending' \in [Producers -> Seq(Message)]
    BY <1>0, <2>1, <2>2, <2>3
  <2>5. sent' \in [Producers -> 0 .. MaxSent]
    BY <1>0, <2>1, <2>2, ConstantFacts
  <2>6. pc' \in [Procs -> PcStates]
    BY <1>0, <1>1 DEF CallPut
  <2>7. QED
    BY <1>0, <1>1, <2>4, <2>5, <2>6 DEF CallPut
<1>2. ASSUME NEW p \in Producers, Store(p) PROVE TypeOK'
  <2>1. PICK k \in 0 .. Len(pending[p]) : StoreEffect(p, k)
    BY <1>0, <1>2, StoreFacts
  <2>2. pc' \in [Procs -> PcStates]
    BY <1>0, <1>2 DEF Store
  <2>3. QED
    BY <1>0, <1>2, <2>1, <2>2 DEF Store, StoreEffect
<1>3. ASSUME NEW p \in Producers, Interrupt(p) PROVE TypeOK'
  BY <1>0, <1>3 DEF Interrupt
<1>4. ASSUME NEW p \in Procs, WaitStep(p) PROVE TypeOK'
  <2>1. CASE Enter(p)
    BY <1>0, <2>1, ForgetType DEF Enter
  <2>2. CASE Prepare(p)
    BY <1>0, <2>2 DEF Prepare
  <2>3. CASE ReadCounter(p)
    BY <1>0, <2>3 DEF ReadCounter, Counter
  <2>4. CASE Check(p)
    BY <1>0, <2>4 DEF Check
  <2>5. CASE Awake(p)
    BY <1>0, <2>5 DEF Awake
  <2>6. CASE Acquire(p)
    BY <1>0, <2>6 DEF Acquire, Counter
  <2>7. CASE Recheck(p)
    <3>1. CASE MayEnter(p, seen[p])
      <4>1. cvQueue' \subseteq Procs
        BY <1>0, <2>7, <3>1 DEF Recheck
      <4>2. seen' \in [Procs -> Int]
        BY <1>0, <2>7, <3>1 DEF Recheck
      <4>3. pc' \in [Procs -> PcStates]
        BY <1>0, <2>7, <3>1 DEF Recheck
      <4>4. UNCHANGED <<shared, lock, result, client>>
        BY <2>7, <3>1 DEF Recheck
      <4>5. QED
        BY <1>0, <4>1, <4>2, <4>3, <4>4
    <3>2. CASE ~MayEnter(p, seen[p])
      BY <1>0, <2>7, <3>2 DEF Recheck
    <3>3. QED
      BY <3>1, <3>2
  <2>8. CASE Retry(p)
    <3>1. CASE deleted
      <4>1. cvQueue' \subseteq Procs
        BY <1>0, <2>8, <3>1 DEF Retry
      <4>2. seen' \in [Procs -> Int]
        BY <1>0, <2>8, <3>1 DEF Retry
      <4>3. pc' \in [Procs -> PcStates]
        BY <1>0, <2>8, <3>1 DEF Retry
      <4>4. pending' \in [Producers -> Seq(Message)]
        <5>1. Forget(p)
          BY <2>8, <3>1 DEF Retry
        <5>2. QED
          BY <1>0, <5>1, ForgetType
      <4>5. UNCHANGED <<shared, lock, result, sent, batch>>
        BY <2>8, <3>1 DEF Retry
      <4>6. QED
        BY <1>0, <4>1, <4>2, <4>3, <4>4, <4>5
    <3>2. CASE ~deleted
      BY <1>0, <2>8, <3>2 DEF Retry
    <3>3. QED
      BY <3>1, <3>2
  <2>9. QED
    BY <1>4, <2>1, <2>2, <2>3, <2>4, <2>5, <2>6, <2>7, <2>8 DEF WaitStep
<1>5. ASSUME NEW p \in Procs, EndStep(p) PROVE TypeOK'
  <2>1. CASE WriteNumMessages(p)
    BY <1>0, <2>1 DEF WriteNumMessages
  <2>2. CASE WriteFreeSpace(p)
    BY <1>0, <2>2 DEF WriteFreeSpace
  <2>3. CASE Release(p)
    BY <1>0, <2>3 DEF Release, NoResult
  <2>4. CASE Broadcast(p)
    BY <1>0, <2>4 DEF Broadcast
  <2>5. QED
    BY <1>5, <2>1, <2>2, <2>3, <2>4 DEF EndStep
<1>6. CASE CallGet
  BY <1>0, <1>6 DEF CallGet
<1>7. CASE Take
  <2>1. PICK k \in Fitting(buffer, numMessages, Capacity) :
          /\ batch' = SubSeq(buffer, 1, k)
          /\ buffer' = MemMove(buffer, k, Bytes(buffer, k))
          /\ result' = [num |-> numMessages - k,
                         free |-> freeSpace + Bytes(buffer, k)]
    BY <1>7 DEF Take
  <2>2. numMessages = Len(buffer)
    BY <1>7, TakeSeesAll DEF Take
  <2>3. k \in 0 .. Len(buffer)
    BY <2>2 DEF Fitting
  <2>4. batch' \in Seq(Message)
    BY <1>0, <2>1, <2>3
  <2>5. Bytes(buffer, k) \in Int
    BY <1>0, <2>3, BytesType
  <2>6. buffer' \in Seq(Message)
    BY <1>0, <2>1, <2>3, <2>5, MemMoveType
  <2>7. result' \in [num : Nat, free : Int]
    BY <1>0, <2>1, <2>2, <2>3, <2>5
  <2>8. pc' \in [Procs -> PcStates]
    BY <1>0, <1>7 DEF Take
  <2>9. QED
    BY <1>0, <1>7, <2>4, <2>6, <2>7, <2>8 DEF Take
<1>8. CASE Terminate
  BY <1>0, <1>8 DEF Terminate
<1>9. CASE DeleteBroadcast
  BY <1>0, <1>9 DEF DeleteBroadcast
<1>10. CASE Exit
  BY <1>0, <1>10 DEF Exit
<1>11. CASE UNCHANGED vars
  BY <1>0, <1>11 DEF vars
<1>12. QED
  BY <1>1, <1>2, <1>3, <1>4, <1>5, <1>6, <1>7, <1>8, <1>9, <1>10, <1>11
     DEF Next, Step

\* Only the holder of the lock is past the wait loop.
LEMMA LockStep == IInv /\ [Next]_vars => LockDiscipline'
<1> SUFFICES ASSUME IInv, [Next]_vars PROVE LockDiscipline'
  OBVIOUS
<1> USE DEF LockDiscipline, TypeOK, Goto, PcStates, Critical, Leaving, shared, sync, client
<1>0. TypeOK /\ LockDiscipline
  BY DEF IInv
<1>1. ASSUME NEW p \in Producers, CallPut(p) PROVE LockDiscipline'
  BY <1>0, <1>1 DEF CallPut
<1>2. ASSUME NEW p \in Producers, Store(p) PROVE LockDiscipline'
  BY <1>0, <1>2 DEF Store
<1>3. ASSUME NEW p \in Producers, Interrupt(p) PROVE LockDiscipline'
  BY <1>0, <1>3 DEF Interrupt
<1>4. ASSUME NEW p \in Procs, WaitStep(p) PROVE LockDiscipline'
  <2>1. CASE Enter(p)
    BY <1>0, <2>1 DEF Enter
  <2>2. CASE Prepare(p)
    BY <1>0, <2>2 DEF Prepare
  <2>3. CASE ReadCounter(p)
    BY <1>0, <2>3 DEF ReadCounter
  <2>4. CASE Check(p)
    BY <1>0, <2>4 DEF Check
  <2>5. CASE Awake(p)
    BY <1>0, <2>5 DEF Awake
  <2>6. CASE Acquire(p)
    BY <1>0, <2>6, ConstantFacts DEF Acquire
  <2>7. CASE Recheck(p)
    BY <1>0, <2>7, ConstantFacts DEF Recheck
  <2>8. CASE Retry(p)
    BY <1>0, <2>8 DEF Retry
  <2>9. QED
    BY <1>4, <2>1, <2>2, <2>3, <2>4, <2>5, <2>6, <2>7, <2>8 DEF WaitStep
<1>5. ASSUME NEW p \in Procs, EndStep(p) PROVE LockDiscipline'
  <2>1. CASE WriteNumMessages(p)
    BY <1>0, <2>1 DEF WriteNumMessages
  <2>2. CASE WriteFreeSpace(p)
    BY <1>0, <2>2 DEF WriteFreeSpace
  <2>3. CASE Release(p)
    BY <1>0, <2>3, ConstantFacts DEF Release
  <2>4. CASE Broadcast(p)
    BY <1>0, <2>4 DEF Broadcast
  <2>5. QED
    BY <1>5, <2>1, <2>2, <2>3, <2>4 DEF EndStep
<1>6. CASE CallGet
  BY <1>0, <1>6 DEF CallGet
<1>7. CASE Take
  BY <1>0, <1>7 DEF Take
<1>8. CASE Terminate
  BY <1>0, <1>8 DEF Terminate
<1>9. CASE DeleteBroadcast
  BY <1>0, <1>9 DEF DeleteBroadcast
<1>10. CASE Exit
  BY <1>0, <1>10, ConstantFacts DEF Exit
<1>11. CASE UNCHANGED vars
  BY <1>0, <1>11 DEF vars
<1>12. QED
  BY <1>1, <1>2, <1>3, <1>4, <1>5, <1>6, <1>7, <1>8, <1>9, <1>10, <1>11
     DEF Next, Step

\* The flag is set by the collector's first step out.
LEMMA GoneStep == IInv /\ [Next]_vars => GoneInv'
<1> SUFFICES ASSUME IInv, [Next]_vars PROVE GoneInv'
  OBVIOUS
<1> USE DEF GoneInv, TypeOK, Goto, PcStates, Critical, Leaving, shared, sync, client
<1>0. TypeOK /\ GoneInv
  BY DEF IInv
<1>1. ASSUME NEW p \in Producers, CallPut(p) PROVE GoneInv'
  BY <1>0, <1>1 DEF CallPut
<1>2. ASSUME NEW p \in Producers, Store(p) PROVE GoneInv'
  BY <1>0, <1>2 DEF Store
<1>3. ASSUME NEW p \in Producers, Interrupt(p) PROVE GoneInv'
  BY <1>0, <1>3 DEF Interrupt
<1>4. ASSUME NEW p \in Procs, WaitStep(p) PROVE GoneInv'
  <2>1. CASE Enter(p)
    BY <1>0, <2>1 DEF Enter
  <2>2. CASE Prepare(p)
    BY <1>0, <2>2 DEF Prepare
  <2>3. CASE ReadCounter(p)
    BY <1>0, <2>3 DEF ReadCounter
  <2>4. CASE Check(p)
    BY <1>0, <2>4 DEF Check
  <2>5. CASE Awake(p)
    BY <1>0, <2>5 DEF Awake
  <2>6. CASE Acquire(p)
    BY <1>0, <2>6 DEF Acquire
  <2>7. CASE Recheck(p)
    BY <1>0, <2>7 DEF Recheck
  <2>8. CASE Retry(p)
    BY <1>0, <2>8 DEF Retry
  <2>9. QED
    BY <1>4, <2>1, <2>2, <2>3, <2>4, <2>5, <2>6, <2>7, <2>8 DEF WaitStep
<1>5. ASSUME NEW p \in Procs, EndStep(p) PROVE GoneInv'
  <2>1. CASE WriteNumMessages(p)
    BY <1>0, <2>1 DEF WriteNumMessages
  <2>2. CASE WriteFreeSpace(p)
    BY <1>0, <2>2 DEF WriteFreeSpace
  <2>3. CASE Release(p)
    BY <1>0, <2>3 DEF Release
  <2>4. CASE Broadcast(p)
    BY <1>0, <2>4 DEF Broadcast
  <2>5. QED
    BY <1>5, <2>1, <2>2, <2>3, <2>4 DEF EndStep
<1>6. CASE CallGet
  BY <1>0, <1>6 DEF CallGet
<1>7. CASE Take
  BY <1>0, <1>7 DEF Take
<1>8. CASE Terminate
  BY <1>0, <1>8 DEF Terminate
<1>9. CASE DeleteBroadcast
  BY <1>0, <1>9 DEF DeleteBroadcast
<1>10. CASE Exit
  BY <1>0, <1>10 DEF Exit
<1>11. CASE UNCHANGED vars
  BY <1>0, <1>11 DEF vars
<1>12. QED
  BY <1>1, <1>2, <1>3, <1>4, <1>5, <1>6, <1>7, <1>8, <1>9, <1>10, <1>11
     DEF Next, Step

\* The published number follows the number of messages.
LEMMA CountStep == IInv /\ [Next]_vars => CountInv'
<1> SUFFICES ASSUME IInv, [Next]_vars PROVE CountInv'
  OBVIOUS
<1> USE DEF CountInv, TypeOK, Goto, PcStates, Critical, Leaving, shared, sync, client
<1>0. TypeOK /\ LockDiscipline /\ GoneInv /\ CountInv
  BY DEF IInv
<1>1. ASSUME NEW p \in Producers, CallPut(p) PROVE CountInv'
  BY <1>0, <1>1 DEF CallPut
<1>2. ASSUME NEW p \in Producers, Store(p) PROVE CountInv'
  <2>1. \A q \in Procs : pc[q] # "writeNum"
    BY <1>0, <1>2 DEF Store, LockDiscipline
  <2>2. PICK k \in 0 .. Len(pending[p]) : StoreEffect(p, k)
    BY <1>0, <1>2, StoreFacts
  <2>3. ~deleted => result'.num = Len(buffer')
    BY <1>0, <2>1, <2>2 DEF StoreEffect
  <2>4. QED
    BY <1>0, <1>2, <2>3 DEF Store
<1>3. ASSUME NEW p \in Producers, Interrupt(p) PROVE CountInv'
  BY <1>0, <1>3 DEF Interrupt
<1>4. ASSUME NEW p \in Procs, WaitStep(p) PROVE CountInv'
  <2>1. CASE Enter(p)
    BY <1>0, <2>1 DEF Enter
  <2>2. CASE Prepare(p)
    BY <1>0, <2>2 DEF Prepare
  <2>3. CASE ReadCounter(p)
    BY <1>0, <2>3 DEF ReadCounter
  <2>4. CASE Check(p)
    BY <1>0, <2>4 DEF Check
  <2>5. CASE Awake(p)
    BY <1>0, <2>5 DEF Awake
  <2>6. CASE Acquire(p)
    BY <1>0, <2>6 DEF Acquire
  <2>7. CASE Recheck(p)
    BY <1>0, <2>7 DEF Recheck
  <2>8. CASE Retry(p)
    BY <1>0, <2>8 DEF Retry
  <2>9. QED
    BY <1>4, <2>1, <2>2, <2>3, <2>4, <2>5, <2>6, <2>7, <2>8 DEF WaitStep
<1>5. ASSUME NEW p \in Procs, EndStep(p) PROVE CountInv'
  <2>1. CASE WriteNumMessages(p)
    BY <1>0, <2>1 DEF WriteNumMessages
  <2>2. CASE WriteFreeSpace(p)
    BY <1>0, <2>2 DEF WriteFreeSpace
  <2>3. CASE Release(p)
    BY <1>0, <2>3 DEF Release, LockDiscipline
  <2>4. CASE Broadcast(p)
    BY <1>0, <2>4 DEF Broadcast
  <2>5. QED
    BY <1>5, <2>1, <2>2, <2>3, <2>4 DEF EndStep
<1>6. CASE CallGet
  BY <1>0, <1>6 DEF CallGet
<1>7. CASE Take
  <2>1. numMessages = Len(buffer)
    BY <1>7, TakeSeesAll DEF Take
  <2>2. PICK k \in Fitting(buffer, numMessages, Capacity) :
          /\ buffer' = MemMove(buffer, k, Bytes(buffer, k))
          /\ result' = [num |-> numMessages - k,
                         free |-> freeSpace + Bytes(buffer, k)]
    BY <1>7 DEF Take
  <2>3. k \in 0 .. Len(buffer) /\ buffer \in Seq(Message)
    BY <1>0, <2>1 DEF Fitting
  <2>4. Len(buffer') = Len(buffer) - k
    BY <2>2, <2>3, BytesType, MemMoveType
  <2>5. result'.num = Len(buffer')
    BY <2>1, <2>2, <2>4
  <2>6. QED
    BY <1>0, <1>7, <2>5 DEF Take
<1>8. CASE Terminate
  BY <1>0, <1>8 DEF Terminate
<1>9. CASE DeleteBroadcast
  BY <1>0, <1>9 DEF DeleteBroadcast
<1>10. CASE Exit
  BY <1>0, <1>10 DEF Exit
<1>11. CASE UNCHANGED vars
  BY <1>0, <1>11 DEF vars
<1>12. QED
  BY <1>1, <1>2, <1>3, <1>4, <1>5, <1>6, <1>7, <1>8, <1>9, <1>10, <1>11
     DEF Next, Step

\* A sleeper is woken when its condition comes true.
LEMMA WakeStep == IInv /\ [Next]_vars => WakeInv'
<1> SUFFICES ASSUME IInv, [Next]_vars PROVE WakeInv'
  OBVIOUS
<1> USE DEF WakeInv, NoLostWakeup, WillBroadcast, Counter, Unsee, TypeOK, Goto, PcStates, Critical, Leaving, shared, sync, client
<1>0. TypeOK /\ LockDiscipline /\ GoneInv /\ WakeInv
  BY DEF IInv
<1>1. ASSUME NEW p \in Producers, CallPut(p) PROVE WakeInv'
  BY <1>0, <1>1 DEF CallPut
<1>2. ASSUME NEW p \in Producers, Store(p) PROVE WakeInv'
  BY <1>0, <1>2 DEF Store
<1>3. ASSUME NEW p \in Producers, Interrupt(p) PROVE WakeInv'
  BY <1>0, <1>3 DEF Interrupt
<1>4. ASSUME NEW p \in Procs, WaitStep(p) PROVE WakeInv'
  <2>1. CASE Enter(p)
    BY <1>0, <2>1 DEF Enter
  <2>2. CASE Prepare(p)
    BY <1>0, <2>2 DEF Prepare
  <2>3. CASE ReadCounter(p)
    BY <1>0, <2>3 DEF ReadCounter
  <2>4. CASE Check(p)
    <3>1. CASE MustSleep(p, seen[p]) /\ ~deleted
      <4>1. pc'[p] = "sleep" /\ \A q \in Procs : q # p => pc'[q] = pc[q]
        BY <1>0, <2>4, <3>1 DEF Check
      <4>2. UNCHANGED <<numMessages, freeSpace, deleted, cvQueue>>
        BY <2>4 DEF Check
      <4>3. WillBroadcast => WillBroadcast'
        BY <1>0, <2>4, <4>1 DEF Check
      <4>4. p \in cvQueue => WillBroadcast' \/ MustSleep(p, Counter(p))
        BY <1>0, <2>4, <3>1, <4>3 DEF Check
      <4>5. \A q \in Procs : q # p => seen'[q] = seen[q]
        BY <1>0, <2>4 DEF Check
      <4>6. NoLostWakeup'
        BY <1>0, <3>1, <4>1, <4>2, <4>3, <4>4 DEF MustSleep
      <4>7. QED
        BY <1>0, <4>1, <4>2, <4>3, <4>5, <4>6 DEF MustSleep
    <3>2. CASE ~(MustSleep(p, seen[p]) /\ ~deleted)
      BY <1>0, <2>4, <3>2 DEF Check
    <3>3. QED
      BY <3>1, <3>2
  <2>5. CASE Awake(p)
    BY <1>0, <2>5 DEF Awake
  <2>6. CASE Acquire(p)
    BY <1>0, <2>6 DEF Acquire
  <2>7. CASE Recheck(p)
    <3>1. CASE MayEnter(p, seen[p])
      BY <1>0, <2>7, <3>1 DEF Recheck
    <3>2. CASE ~MayEnter(p, seen[p])
      BY <1>0, <2>7, <3>2 DEF Recheck
    <3>3. QED
      BY <3>1, <3>2
  <2>8. CASE Retry(p)
    <3>1. CASE deleted
      BY <1>0, <2>8, <3>1 DEF Retry
    <3>2. CASE ~deleted
      BY <1>0, <2>8, <3>2 DEF Retry
    <3>3. QED
      BY <3>1, <3>2
  <2>9. QED
    BY <1>4, <2>1, <2>2, <2>3, <2>4, <2>5, <2>6, <2>7, <2>8 DEF WaitStep
<1>5. ASSUME NEW p \in Procs, EndStep(p) PROVE WakeInv'
  <2>1. CASE WriteNumMessages(p)
    <3>1. \A q \in Procs : pc'[q] # "locked"
      BY <1>0, <2>1 DEF WriteNumMessages, LockDiscipline
    <3>2. WillBroadcast'
      BY <1>0, <2>1 DEF WriteNumMessages
    <3>3. QED
      BY <3>1, <3>2
  <2>2. CASE WriteFreeSpace(p)
    <3>1. \A q \in Procs : pc'[q] # "locked"
      BY <1>0, <2>2 DEF WriteFreeSpace, LockDiscipline
    <3>2. WillBroadcast'
      BY <1>0, <2>2 DEF WriteFreeSpace
    <3>3. QED
      BY <3>1, <3>2
  <2>3. CASE Release(p)
    BY <1>0, <2>3 DEF Release
  <2>4. CASE Broadcast(p)
    BY <1>0, <2>4 DEF Broadcast
  <2>5. QED
    BY <1>5, <2>1, <2>2, <2>3, <2>4 DEF EndStep
<1>6. CASE CallGet
  BY <1>0, <1>6 DEF CallGet
<1>7. CASE Take
  BY <1>0, <1>7 DEF Take
<1>8. CASE Terminate
  BY <1>0, <1>8 DEF Terminate
<1>9. CASE DeleteBroadcast
  BY <1>0, <1>9 DEF DeleteBroadcast
<1>10. CASE Exit
  BY <1>0, <1>10 DEF Exit
<1>11. CASE UNCHANGED vars
  BY <1>0, <1>11 DEF vars
<1>12. QED
  BY <1>1, <1>2, <1>3, <1>4, <1>5, <1>6, <1>7, <1>8, <1>9, <1>10, <1>11
     DEF Next, Step

\* The invariant the theorems below follow from.
THEOREM Invariance == Spec => []IInv
<1>1. Init => IInv
  BY InitInv
<1>2. IInv /\ [Next]_vars => IInv'
  BY TypeStep, LockStep, GoneStep, CountStep, WakeStep DEF IInv
<1>3. QED
  BY <1>1, <1>2, PTL DEF Spec

\* Every reachable state is well typed, whatever the number of backends, the
\* sizes and the arrays sent (MessageBuffer's variables and process places).
THEOREM TypeCorrect == Spec => []TypeOK
<1>1. IInv => TypeOK
  BY DEF IInv
<1>2. QED
  BY <1>1, Invariance, PTL

\* LWLock exclusion: messages are moved by one process at a time.
THEOREM Exclusion == Spec => []LockDiscipline
<1>1. IInv => LockDiscipline
  BY DEF IInv
<1>2. QED
  BY <1>1, Invariance, PTL

\* No sender and no collector sleeps through the moment its condition comes
\* true, or through the deletion of the buffer.
THEOREM NoWakeupLost == Spec => []NoLostWakeup
<1>1. IInv => NoLostWakeup
  BY DEF IInv, WakeInv
<1>2. QED
  BY <1>1, Invariance, PTL

-----------------------------------------------------------------------------
\* What lies in the memory.

\* A process in a call that has not moved messages yet.
Waiting == {"enter", "prepare", "read", "check", "sleep", "lock", "locked", "retry", "copy"}

\* A process that has moved messages and publishes the counters.
Moving == {"writeNum", "writeFree"}

\* A sender in a call has something to send, laid out as an array, and each of
\* its messages fits into the room a sender waits for.
ArrayInv ==
    \A p \in Producers :
        /\ Contiguous(pending[p])
        /\ \A i \in DOMAIN pending[p] :
              /\ pending[p][i].type = "CUSTOM"
              /\ pending[p][i].symbol = p
              /\ SymbolSize + pending[p][i].size <= WaitSpace + 1
        /\ pc[p] = "idle" => pending[p] = <<>>
        /\ pc[p] \in Waiting => pending[p] # <<>>

\* What a process was let past the wait loop for is still there.
EntryInv ==
    /\ \A p \in Procs : pc[p] = "copy" => MayEnter(p, Counter(p))
    /\ pc[Collector] \in Waiting => batch = <<>>

\* The messages are in the memory; unless the collector was stopped they are
\* back to back and the number of free bytes, or the one about to be
\* published, is what they leave.
SpaceInv ==
    /\ InBounds
    /\ \A p \in Procs : pc[p] \in Moving => result.free \in 0 .. Capacity
    /\ ~deleted =>
          /\ Contiguous(buffer)
          /\ \A p \in Procs : pc[p] \in Moving => result.free = Capacity - EndOf(buffer)
          /\ (\A p \in Procs : pc[p] \notin Moving) => freeSpace = Capacity - EndOf(buffer)

LInv == IInv /\ ArrayInv /\ EntryInv /\ SpaceInv /\ Attribution

USE DEF Procs, At

-----------------------------------------------------------------------------
\* The steps, by what they do to the messages.

\* A sender that is told to go away, or goes away.
GivesUp(p) ==
    /\ pc[p] \in Waiting
    /\ pc' = [pc EXCEPT ![p] = "idle"]
    /\ Forget(p)
    /\ UNCHANGED <<shared, result, sent, batch>>

\* The steps that move nothing and publish nothing.
Elsewhere ==
    /\ UNCHANGED <<shared, client>>
    /\ \A p \in Procs :
          /\ pc'[p] = "copy" => pc[p] = "copy" \/ MayEnter(p, Counter(p))
          /\ pc'[p] \in Moving <=> pc[p] \in Moving
          /\ pc[p] \in Moving => result' = result
    /\ \A p \in Producers :
          /\ pc'[p] = "idle" => pc[p] = "idle" \/ pending[p] = <<>>
          /\ pc'[p] \in Waiting => pc[p] \in Waiting \/ pending[p] # <<>>
    /\ pc'[Collector] \in Waiting => pc[Collector] \in Waiting

\* Every step of a process inside an operation is one of four.
LEMMA StepCases ==
    ASSUME IInv, NEW p \in Procs, Step(p)
    PROVE  \/ Elsewhere
           \/ p \in Producers /\ GivesUp(p)
           \/ WriteNumMessages(p) \/ WriteFreeSpace(p)
<1> USE DEF TypeOK, Goto, PcStates, Critical, Leaving, Unsee, shared, sync, client,
            Waiting, Moving, Elsewhere
<1>0. TypeOK /\ LockDiscipline /\ GoneInv /\ WakeInv
  BY DEF IInv
<1>1. CASE Enter(p)
  <2>1. CASE deleted
    BY <1>0, <1>1, <2>1 DEF Enter, GivesUp, GoneInv
  <2>2. CASE ~deleted
    BY <1>0, <1>1, <2>2 DEF Enter
  <2>3. QED
    BY <2>1, <2>2
<1>2. CASE Prepare(p)
  BY <1>0, <1>2 DEF Prepare
<1>3. CASE ReadCounter(p)
  BY <1>0, <1>3 DEF ReadCounter
<1>4. CASE Check(p)
  BY <1>0, <1>4 DEF Check
<1>5. CASE Awake(p)
  BY <1>0, <1>5 DEF Awake
<1>6. CASE Acquire(p)
  BY <1>0, <1>6 DEF Acquire
<1>7. CASE Recheck(p)
  <2>1. CASE MayEnter(p, seen[p])
    <3>1. MayEnter(p, Counter(p))
      BY <1>0, <1>7, <2>1 DEF Recheck, WakeInv
    <3>2. QED
      BY <1>0, <1>7, <2>1, <3>1 DEF Recheck
  <2>2. CASE ~MayEnter(p, seen[p])
    BY <1>0, <1>7, <2>2 DEF Recheck
  <2>3. QED
    BY <2>1, <2>2
<1>8. CASE Retry(p)
  <2>1. CASE deleted
    BY <1>0, <1>8, <2>1 DEF Retry, GivesUp, GoneInv
  <2>2. CASE ~deleted
    BY <1>0, <1>8, <2>2 DEF Retry
  <2>3. QED
    BY <2>1, <2>2
<1>9. CASE Release(p)
  <2>1. \A q \in Procs : pc[q] \notin Moving
    BY <1>0, <1>9 DEF Release, LockDiscipline
  <2>2. QED
    BY <1>0, <1>9, <2>1 DEF Release
<1>10. CASE Broadcast(p)
  BY <1>0, <1>10, ConstantFacts DEF Broadcast
<1>11. QED
  BY <1>1, <1>2, <1>3, <1>4, <1>5, <1>6, <1>7, <1>8, <1>9, <1>10 DEF Step, WaitStep, EndStep

\* Every step is one of these.
LEMMA NextCases ==
    ASSUME IInv, [Next]_vars
    PROVE  \/ \E p \in Producers : CallPut(p) \/ Store(p) \/ GivesUp(p)
           \/ \E p \in Procs : WriteNumMessages(p) \/ WriteFreeSpace(p)
           \/ CallGet \/ Take \/ Terminate
           \/ Elsewhere
<1> USE DEF TypeOK, Goto, PcStates, Critical, Leaving, shared, sync, client, Waiting, Moving
<1>0. TypeOK
  BY DEF IInv
<1>1. ASSUME NEW p \in Producers, Interrupt(p) PROVE GivesUp(p)
  BY <1>0, <1>1 DEF Interrupt, GivesUp
<1>2. CASE DeleteBroadcast
  BY <1>0, <1>2 DEF DeleteBroadcast, Elsewhere
<1>3. CASE Exit
  BY <1>0, <1>3 DEF Exit, Elsewhere
<1>4. CASE UNCHANGED vars
  BY <1>0, <1>4 DEF vars, Elsewhere
<1>5. QED
  BY <1>1, <1>2, <1>3, <1>4, StepCases DEF Next

-----------------------------------------------------------------------------
\* What the steps that move messages do to each of them.

\* The elements of two sequences one after the other.
LEMMA ConcatElements ==
    ASSUME NEW T, NEW s \in Seq(T), NEW t \in Seq(T)
    PROVE  /\ s \o t \in Seq(T)
           /\ Len(s \o t) = Len(s) + Len(t)
           /\ \A i \in 1 .. Len(s) : (s \o t)[i] = s[i]
           /\ \A i \in 1 .. Len(t) : (s \o t)[Len(s) + i] = t[i]
<1>1. s \o t \in Seq(T) /\ Len(s \o t) = Len(s) + Len(t)
  BY ConcatProperties
<1>2. \A i \in 1 .. Len(s) : (s \o t)[i] = s[i]
  OBVIOUS
<1>3. \A i \in 1 .. Len(t) : (s \o t)[Len(s) + i] = t[i]
  OBVIOUS
<1>4. QED
  BY <1>1, <1>2, <1>3

\* A message at its new address.
Moved(m, by) == [m EXCEPT !.at = by + @]

LEMMA MovedFields ==
    ASSUME NEW m \in Message, NEW by \in Int
    PROVE  /\ Moved(m, by) \in Message
           /\ Moved(m, by).at = by + m.at
           /\ Moved(m, by).size = m.size
           /\ Moved(m, by).type = m.type
           /\ Moved(m, by).symbol = m.symbol
           /\ Moved(m, by).id = m.id
  BY DEF Moved, Message

LEMMA MovedBackFields ==
    ASSUME NEW m \in Message, NEW by \in Int
    PROVE  LET n == [m EXCEPT !.at = @ - by]
           IN  /\ n \in Message
               /\ n.at = m.at - by
               /\ n.size = m.size
               /\ n.type = m.type
               /\ n.symbol = m.symbol
               /\ n.id = m.id
  BY DEF Message

\* The rest of an array, moved to its start, message by message.
LEMMA MemMoveElements ==
    ASSUME NEW s \in Seq(Message), NEW k \in 0 .. Len(s), NEW b \in Int
    PROVE  /\ MemMove(s, k, b) \in Seq(Message)
           /\ Len(MemMove(s, k, b)) = Len(s) - k
           /\ \A i \in 1 .. Len(s) - k :
                 /\ s[i + k] \in Message
                 /\ MemMove(s, k, b)[i] \in Message
                 /\ MemMove(s, k, b)[i].at = s[i + k].at - b
                 /\ MemMove(s, k, b)[i].size = s[i + k].size
                 /\ MemMove(s, k, b)[i].type = s[i + k].type
                 /\ MemMove(s, k, b)[i].symbol = s[i + k].symbol
                 /\ MemMove(s, k, b)[i].id = s[i + k].id
<1>1. MemMove(s, k, b) \in Seq(Message) /\ Len(MemMove(s, k, b)) = Len(s) - k
  BY MemMoveType
<1>2. ASSUME NEW i \in 1 .. Len(s) - k
      PROVE  /\ s[i + k] \in Message
             /\ MemMove(s, k, b)[i] = [s[i + k] EXCEPT !.at = @ - b]
  BY DEF MemMove
<1>3. ASSUME NEW i \in 1 .. Len(s) - k
      PROVE  /\ MemMove(s, k, b)[i] \in Message
             /\ MemMove(s, k, b)[i].at = s[i + k].at - b
             /\ MemMove(s, k, b)[i].size = s[i + k].size
             /\ MemMove(s, k, b)[i].type = s[i + k].type
             /\ MemMove(s, k, b)[i].symbol = s[i + k].symbol
             /\ MemMove(s, k, b)[i].id = s[i + k].id
  <2>1. PICK m \in Message : m = s[i + k]
    BY <1>2
  <2>2. MemMove(s, k, b)[i] = [m EXCEPT !.at = @ - b]
    BY <1>2, <2>1
  <2>3. QED
    BY <2>1, <2>2, MovedBackFields
<1>4. QED
  BY <1>1, <1>2, <1>3

\* Storing k messages of p behind its name.
Stored(p, k) ==
    LET base == Capacity - freeSpace
    IN  /\ k \in Fitting(pending[p], Len(pending[p]), Room)
        /\ buffer' \in Seq(Message)
        /\ Len(buffer') = Len(buffer) + 1 + k
        /\ \A i \in 1 .. Len(buffer) : buffer'[i] = buffer[i]
        /\ buffer'[Len(buffer) + 1] = Header(p, base)
        /\ \A i \in 1 .. k :
              buffer'[Len(buffer) + 1 + i] = Moved(pending[p][i], base + SymbolSize)
        /\ result'.free = Room - Bytes(pending[p], k)
        /\ pending' = [pending EXCEPT ![p] = MemMove(@, k, Bytes(@, k))]

LEMMA StoreStores ==
    ASSUME TypeOK, NEW p \in Producers, Store(p)
    PROVE  \E k \in 0 .. Len(pending[p]) : Stored(p, k)
<1> DEFINE base == Capacity - freeSpace
<1> DEFINE moved(k) == [i \in 1 .. k |->
                          [pending[p][i] EXCEPT !.at = base + SymbolSize + @]]
<1>0. /\ buffer \in Seq(Message) /\ numMessages \in Nat /\ freeSpace \in Int
      /\ pending[p] \in Seq(Message) /\ pending \in [Producers -> Seq(Message)]
  BY DEF TypeOK
<1>1. PICK k \in Fitting(pending[p], Len(pending[p]), Room) :
        /\ buffer' = buffer \o Name(p, base) \o moved(k)
        /\ result' = [num |-> numMessages + 1 + k,
                       free |-> Room - Bytes(pending[p], k)]
        /\ pending' = [pending EXCEPT ![p] = MemMove(@, k, Bytes(pending[p], k))]
  BY DEF Store
<1>2. k \in 0 .. Len(pending[p])
  BY DEF Fitting
<1>3. base \in Int /\ base + SymbolSize \in Int
  BY <1>0, ConstantFacts
<1>4. Header(p, base) \in Message
  BY <1>3, ConstantFacts DEF Header, Message
<1>5. ASSUME NEW i \in 1 .. k
      PROVE  /\ pending[p][i] \in Message
             /\ moved(k)[i] = Moved(pending[p][i], base + SymbolSize)
  <2>1. pending[p][i] \in Message
    BY <1>0, <1>2
  <2>2. QED
    BY <2>1 DEF Moved
<1>6. moved(k) \in Seq(Message) /\ Len(moved(k)) = k
  <2>1. \A i \in 1 .. k : Moved(pending[p][i], base + SymbolSize) \in Message
    BY <1>3, <1>5, MovedFields
  <2>2. moved(k) \in [1 .. k -> Message]
    BY <1>5, <2>1
  <2>3. k \in Nat
    BY <1>2
  <2> HIDE DEF moved
  <2>4. QED
    BY <2>2, <2>3
<1> DEFINE named == buffer \o Name(p, base)
<1>7. /\ named \in Seq(Message) /\ Len(named) = Len(buffer) + 1
      /\ \A i \in 1 .. Len(buffer) : named[i] = buffer[i]
      /\ named[Len(buffer) + 1] = Header(p, base)
  <2>1. Name(p, base) \in Seq(Message) /\ Len(Name(p, base)) = 1
        /\ Name(p, base)[1] = Header(p, base)
    BY <1>4 DEF Name
  <2> DEFINE name == Name(p, base)
  <2> HIDE DEF base, name
  <2>2. ASSUME NEW t \in Seq(Message), Len(t) = 1
        PROVE  /\ buffer \o t \in Seq(Message) /\ Len(buffer \o t) = Len(buffer) + 1
               /\ \A i \in 1 .. Len(buffer) : (buffer \o t)[i] = buffer[i]
               /\ (buffer \o t)[Len(buffer) + 1] = t[1]
    <3>1. /\ buffer \o t \in Seq(Message) /\ Len(buffer \o t) = Len(buffer) + Len(t)
          /\ \A i \in 1 .. Len(buffer) : (buffer \o t)[i] = buffer[i]
          /\ \A i \in 1 .. Len(t) : (buffer \o t)[Len(buffer) + i] = t[i]
      BY <1>0, ConcatElements
    <3>2. QED
      BY <2>2, <3>1
  <2>3. QED
    BY <2>1, <2>2
<1>8. buffer' = named \o moved(k)
  BY <1>1
<1> HIDE DEF moved, named, base
<1>9. /\ buffer' \in Seq(Message)
      /\ Len(buffer') = Len(buffer) + 1 + k
      /\ \A i \in 1 .. Len(named) : buffer'[i] = named[i]
      /\ \A i \in 1 .. k : buffer'[Len(named) + i] = moved(k)[i]
  <2>1. ASSUME NEW t \in Seq(Message), Len(t) = k
        PROVE  /\ named \o t \in Seq(Message)
               /\ Len(named \o t) = Len(buffer) + 1 + k
               /\ \A i \in 1 .. Len(named) : (named \o t)[i] = named[i]
               /\ \A i \in 1 .. k : (named \o t)[Len(named) + i] = t[i]
    <3>1. Len(named) = Len(buffer) + 1
      BY <1>7
    <3>2. /\ named \o t \in Seq(Message)
          /\ Len(named \o t) = Len(named) + k
      BY <1>7, <2>1, ConcatElements
    <3>3. \A i \in 1 .. Len(named) : (named \o t)[i] = named[i]
      BY <1>7, <2>1, ConcatElements
    <3>4. \A i \in 1 .. k : (named \o t)[Len(named) + i] = t[i]
      BY <1>7, <2>1, ConcatElements
    <3>5. QED
      BY <1>0, <1>2, <3>1, <3>2, <3>3, <3>4
  <2>2. QED
    BY <1>6, <1>8, <2>1
<1>10. \A i \in 1 .. Len(buffer) : buffer'[i] = buffer[i]
  BY <1>0, <1>7, <1>9
<1>11. buffer'[Len(buffer) + 1] = Header(p, base)
  BY <1>0, <1>7, <1>9
<1>12. \A i \in 1 .. k :
          buffer'[Len(buffer) + 1 + i] = Moved(pending[p][i], base + SymbolSize)
  BY <1>5, <1>7, <1>9
<1>13. QED
  BY <1>0, <1>1, <1>2, <1>9, <1>10, <1>11, <1>12 DEF Stored, base

-----------------------------------------------------------------------------
\* Arrays laid out back to back.

LEMMA ContiguousFirst ==
    ASSUME NEW s \in Seq(Message), Contiguous(s), Len(s) # 0
    PROVE  s[1].at = 0
<1>1. 1 \in DOMAIN s
  OBVIOUS
<1>2. QED
  BY <1>1 DEF Contiguous

LEMMA ContiguousNext ==
    ASSUME NEW s \in Seq(Message), Contiguous(s), NEW i \in 1 .. Len(s), NEW j \in 1 .. Len(s),
           j = i + 1
    PROVE  s[j].at = s[i].at + s[i].size
<1>1. j \in DOMAIN s /\ j # 1 /\ j - 1 = i
  OBVIOUS
<1>2. QED
  BY <1>1 DEF Contiguous

LEMMA ContiguousIntro ==
    ASSUME NEW s \in Seq(Message),
           Len(s) # 0 => s[1].at = 0,
           \A i, j \in 1 .. Len(s) : j = i + 1 => s[j].at = s[i].at + s[i].size
    PROVE  Contiguous(s)
<1>1. SUFFICES ASSUME NEW j \in DOMAIN s
               PROVE  s[j].at = IF j = 1 THEN 0 ELSE s[j - 1].at + s[j - 1].size
  BY DEF Contiguous
<1>2. CASE j = 1
  BY <1>2
<1>3. CASE j # 1
  <2>1. j \in 1 .. Len(s) /\ j - 1 \in 1 .. Len(s) /\ j = (j - 1) + 1
    BY <1>3
  <2>2. QED
    BY <1>3, <2>1
<1>4. QED
  BY <1>2, <1>3

\* No message of such an array lies before the array.
LEMMA ContiguousFromZero ==
    ASSUME NEW s \in Seq(Message), Contiguous(s)
    PROVE  \A i \in 1 .. Len(s) : s[i].at \in Nat
<1> DEFINE S == {n \in Nat : n \in 1 .. Len(s) => s[n].at \in Nat}
<1>1. 0 \in S
  OBVIOUS
<1>2. ASSUME NEW n \in Nat, n \in S PROVE n + 1 \in S
  <2>1. SUFFICES ASSUME n + 1 \in 1 .. Len(s) PROVE s[n + 1].at \in Nat
    OBVIOUS
  <2>2. CASE n = 0
    <3>1. Len(s) # 0
      BY <2>1
    <3>2. QED
      BY <2>2, <3>1, ContiguousFirst
  <2>3. CASE n # 0
    <3>1. n \in 1 .. Len(s) /\ s[n].at \in Nat
      BY <1>2, <2>1, <2>3
    <3>2. s[n] \in Message
      BY <3>1
    <3>3. s[n].size \in Nat
      BY <3>2 DEF Message
    <3>4. s[n + 1].at = s[n].at + s[n].size
      BY <2>1, <3>1, ContiguousNext
    <3>5. QED
      BY <3>1, <3>3, <3>4
  <2>4. QED
    BY <2>2, <2>3
<1> HIDE DEF S
<1>3. \A n \in Nat : n \in S
  BY <1>1, <1>2, InductionOnSet
<1>4. QED
  BY <1>3 DEF S

\* The rest of such an array, moved by the bytes before it, is one again.
LEMMA ContiguousMoves ==
    ASSUME NEW s \in Seq(Message), Contiguous(s), NEW k \in 0 .. Len(s)
    PROVE  Contiguous(MemMove(s, k, Bytes(s, k)))
<1> DEFINE t == MemMove(s, k, Bytes(s, k))
<1>1. Bytes(s, k) \in Int
  BY BytesType
<1>2. /\ t \in Seq(Message)
      /\ Len(t) = Len(s) - k
      /\ \A i \in 1 .. Len(s) - k :
            /\ s[i + k] \in Message
            /\ t[i].at = s[i + k].at - Bytes(s, k)
            /\ t[i].size = s[i + k].size
  BY <1>1, MemMoveElements
<1> HIDE DEF t
<1>3. Len(t) # 0 => t[1].at = 0
  <2>1. SUFFICES ASSUME Len(t) # 0 PROVE t[1].at = 0
    OBVIOUS
  <2>2. 1 \in 1 .. Len(s) - k /\ k + 1 \in 1 .. Len(s) /\ Len(s) # 0 /\ 1 + k = k + 1
    BY <1>2, <2>1
  <2>3. t[1].at = s[k + 1].at - Bytes(s, k)
    BY <1>2, <2>2
  <2>4. CASE k = 0
    BY <2>2, <2>3, <2>4, ContiguousFirst DEF Bytes
  <2>5. CASE k # 0
    <3>1. k \in 1 .. Len(s)
      BY <2>5
    <3>2. s[k + 1].at = s[k].at + s[k].size
      BY <2>2, <3>1, ContiguousNext
    <3>3. QED
      BY <1>1, <2>3, <2>5, <3>2 DEF Bytes
  <2>6. QED
    BY <2>4, <2>5
<1>4. ASSUME NEW i \in 1 .. Len(t), NEW j \in 1 .. Len(t), j = i + 1
      PROVE  t[j].at = t[i].at + t[i].size
  <2>1. /\ i \in 1 .. Len(s) - k /\ j \in 1 .. Len(s) - k
        /\ i + k \in 1 .. Len(s) /\ j + k \in 1 .. Len(s) /\ j + k = (i + k) + 1
    BY <1>2, <1>4
  <2>2. s[j + k].at = s[i + k].at + s[i + k].size
    BY <2>1, ContiguousNext
  <2>3. /\ t[j].at = s[j + k].at - Bytes(s, k)
        /\ t[i].at = s[i + k].at - Bytes(s, k)
        /\ t[i].size = s[i + k].size
    BY <1>2, <2>1
  <2>4. s[i + k].at \in Int /\ s[i + k].size \in Int
    <3>1. PICK m \in Message : m = s[i + k]
      BY <1>2, <2>1
    <3>2. QED
      BY <3>1 DEF Message
  <2>5. QED
    BY <1>1, <2>2, <2>3, <2>4
<1>5. Contiguous(t)
  BY <1>2, <1>3, <1>4, ContiguousIntro
<1>6. QED
  BY <1>5 DEF t

\* The number of bytes before the end of an array.
LEMMA EndIsBytes ==
    ASSUME NEW s \in Seq(Message)
    PROVE  EndOf(s) = Bytes(s, Len(s)) /\ EndOf(s) \in Int
<1>1. EndOf(s) = Bytes(s, Len(s))
  BY DEF EndOf, Bytes
<1>2. QED
  BY <1>1, BytesType

\* What is stored behind a memory that is filled back to back continues it, and
\* ends where the free bytes about to be published begin.
LEMMA StoredContinues ==
    ASSUME TypeOK, NEW p \in Producers, NEW k \in 0 .. Len(pending[p]), Stored(p, k),
           Contiguous(buffer), Contiguous(pending[p]), freeSpace = Capacity - EndOf(buffer)
    PROVE  Contiguous(buffer') /\ result'.free = Capacity - EndOf(buffer')
<1> DEFINE base == Capacity - freeSpace
           n == Len(buffer)
<1>0. /\ buffer \in Seq(Message) /\ pending[p] \in Seq(Message)
      /\ freeSpace \in Int /\ Capacity \in Int /\ SymbolSize \in Int /\ base \in Int
  BY ConstantFacts DEF TypeOK
<1>1. base = EndOf(buffer)
  BY <1>0, EndIsBytes
<1>2. /\ buffer' \in Seq(Message) /\ Len(buffer') = n + 1 + k
      /\ \A i \in 1 .. n : buffer'[i] = buffer[i]
      /\ buffer'[n + 1].at = base /\ buffer'[n + 1].size = SymbolSize
  BY DEF Stored, Header
<1>3. ASSUME NEW i \in 1 .. k
      PROVE  /\ pending[p][i].at \in Int /\ pending[p][i].size \in Int
             /\ buffer'[n + 1 + i].at = base + SymbolSize + pending[p][i].at
             /\ buffer'[n + 1 + i].size = pending[p][i].size
  <2>1. pending[p][i] \in Message
    BY <1>0
  <2>2. base + SymbolSize \in Int
    BY <1>0
  <2>3. buffer'[n + 1 + i] = Moved(pending[p][i], base + SymbolSize)
    BY DEF Stored
  <2> HIDE DEF base
  <2>4. QED
    BY <2>1, <2>2, <2>3, MovedFields DEF Message
<1>4. ASSUME NEW i \in 1 .. Len(buffer'), NEW j \in 1 .. Len(buffer'), j = i + 1
      PROVE  buffer'[j].at = buffer'[i].at + buffer'[i].size
  <2>0. i \in 1 .. n + 1 + k /\ j \in 1 .. n + 1 + k
    BY <1>2
  <2>1. CASE j <= n
    <3>1. i \in 1 .. n /\ j \in 1 .. n
      BY <1>0, <1>4, <2>0, <2>1
    <3>2. buffer[j].at = buffer[i].at + buffer[i].size
      BY <1>0, <1>4, <3>1, ContiguousNext
    <3>3. QED
      BY <1>2, <3>1, <3>2
  <2>2. CASE i = n
    <3>1. n # 0 /\ i \in 1 .. n /\ j = n + 1
      BY <1>0, <1>4, <2>0, <2>2
    <3>2. base = buffer[n].at + buffer[n].size
      BY <1>0, <1>1, <3>1 DEF EndOf
    <3> HIDE DEF base
    <3>3. QED
      BY <1>2, <2>2, <3>1, <3>2
  <2>3. CASE i = n + 1
    <3>1. 1 \in 1 .. k /\ j = n + 1 + 1 /\ Len(pending[p]) # 0
      BY <1>0, <1>4, <2>0, <2>3
    <3>2. pending[p][1].at = 0
      BY <1>0, <3>1, ContiguousFirst
    <3>3. buffer'[n + 1 + 1].at = base + SymbolSize + 0
      BY <1>3, <3>1, <3>2
    <3> HIDE DEF base
    <3>4. QED
      BY <1>0, <1>2, <2>3, <3>1, <3>3
  <2>4. CASE i > n + 1
    <3> DEFINE h == i - n - 1
               l == j - n - 1
    <3>1. /\ h \in 1 .. k /\ l \in 1 .. k /\ l = h + 1
          /\ h \in 1 .. Len(pending[p]) /\ l \in 1 .. Len(pending[p])
          /\ i = n + 1 + h /\ j = n + 1 + l
      BY <1>0, <1>4, <2>0, <2>4
    <3> HIDE DEF base, h, l
    <3>2. pending[p][l].at = pending[p][h].at + pending[p][h].size
      BY <1>0, <3>1, ContiguousNext
    <3>3. /\ pending[p][h].at \in Int /\ pending[p][h].size \in Int
          /\ buffer'[n + 1 + h].at = base + SymbolSize + pending[p][h].at
          /\ buffer'[n + 1 + h].size = pending[p][h].size
          /\ buffer'[n + 1 + l].at = base + SymbolSize + pending[p][l].at
      BY <1>3, <3>1
    <3>4. base \in Int /\ SymbolSize \in Int
      BY <1>0
    <3>5. /\ buffer'[i].at = base + SymbolSize + pending[p][h].at
          /\ buffer'[i].size = pending[p][h].size
          /\ buffer'[j].at = base + SymbolSize + (pending[p][h].at + pending[p][h].size)
      BY <3>1, <3>2, <3>3
    <3>6. \A x, y \in Int : base + SymbolSize + (x + y) = (base + SymbolSize + x) + y
      BY <3>4
    <3>7. QED
      BY <3>3, <3>5, <3>6
  <2>5. QED
    BY <1>0, <1>4, <2>0, <2>1, <2>2, <2>3, <2>4
<1>5. Contiguous(buffer')
  <2>1. Len(buffer') # 0 => buffer'[1].at = 0
    <3>1. CASE n = 0
      BY <1>0, <1>1, <1>2, <3>1 DEF EndOf
    <3>2. CASE n # 0
      <4>1. 1 \in 1 .. n
        BY <1>0, <3>2
      <4>2. QED
        BY <1>0, <1>2, <3>2, <4>1, ContiguousFirst
    <3>3. QED
      BY <3>1, <3>2
  <2>2. QED
    BY <1>2, <1>4, <2>1, ContiguousIntro
<1>6. EndOf(buffer') = base + SymbolSize + Bytes(pending[p], k)
  <2>1. EndOf(buffer') = buffer'[n + 1 + k].at + buffer'[n + 1 + k].size
    BY <1>0, <1>2 DEF EndOf
  <2>2. CASE k = 0
    BY <1>0, <1>2, <2>1, <2>2 DEF Bytes
  <2>3. CASE k # 0
    <3>1. k \in 1 .. k
      BY <2>3
    <3> HIDE DEF base
    <3>2. QED
      BY <1>0, <1>3, <2>1, <2>3, <3>1 DEF Bytes
  <2>4. QED
    BY <2>2, <2>3
<1>7. result'.free = Capacity - EndOf(buffer')
  <2>1. Bytes(pending[p], k) \in Int
    BY <1>0, BytesType
  <2>2. result'.free = freeSpace - SymbolSize - Bytes(pending[p], k)
    BY DEF Stored, Room
  <2>3. QED
    BY <1>0, <1>6, <2>1, <2>2
<1>8. QED
  BY <1>5, <1>7

\* A sender that got past the wait loop stores at least one message behind the
\* name, and everything it stores lies in the memory.
LEMMA StoredFits ==
    ASSUME TypeOK, ArrayInv, InBounds, NEW p \in Producers, pending[p] # <<>>,
           freeSpace > WaitSpace, NEW k \in 0 .. Len(pending[p]), Stored(p, k)
    PROVE  /\ k # 0
           /\ result'.free \in 0 .. Capacity
           /\ \A i \in DOMAIN buffer' :
                 buffer'[i].at >= 0 /\ buffer'[i].at + buffer'[i].size <= Capacity
<1> DEFINE base == Capacity - freeSpace
           n == Len(buffer)
           s == pending[p]
<1>0. /\ buffer \in Seq(Message) /\ s \in Seq(Message)
      /\ freeSpace \in 0 .. Capacity /\ Capacity \in Nat /\ SymbolSize \in Nat
      /\ WaitSpace \in Nat /\ base \in Nat /\ Len(s) # 0
  BY ConstantFacts DEF TypeOK, InBounds
<1>1. Room = freeSpace - SymbolSize
  BY DEF Room
<1>2. s[1] \in Message /\ s[1].at = 0 /\ SymbolSize + s[1].size <= WaitSpace + 1
  <2>1. 1 \in DOMAIN s /\ Contiguous(s)
    BY <1>0 DEF ArrayInv
  <2>2. QED
    BY <1>0, <2>1, ContiguousFirst DEF ArrayInv
<1>3. s[1].size \in Nat
  BY <1>2 DEF Message
<1>4. Bytes(s, 1) <= Room /\ Room >= 0
  <2>1. Bytes(s, 1) = s[1].size
    BY <1>2, <1>3 DEF Bytes
  <2> HIDE DEF s
  <2>2. QED
    BY <1>0, <1>1, <1>2, <1>3, <2>1
<1>5. k # 0
  <2>1. SUFFICES ASSUME k = 0 PROVE FALSE
    OBVIOUS
  <2>2. Bytes(s, 1) > Room
    BY <1>0, <2>1 DEF Stored, Fitting
  <2>3. Bytes(s, 1) \in Int
    BY <1>0, BytesType
  <2>4. QED
    BY <1>0, <1>1, <1>4, <2>2, <2>3
<1>6. \A i \in 1 .. k : Bytes(s, i) <= Room
  BY DEF Stored, Fitting
<1>7. result'.free \in 0 .. Capacity
  <2>1. Bytes(s, k) \in Nat /\ Bytes(s, k) <= Room
    <3>1. k \in 1 .. k /\ k \in 1 .. Len(s)
      BY <1>5
    <3>2. s[k] \in Message /\ s[k].at \in Nat
      BY <1>0, <3>1, ContiguousFromZero DEF ArrayInv
    <3>3. QED
      BY <1>5, <1>6, <3>1, <3>2 DEF Bytes, Message
  <2>2. result'.free = Room - Bytes(s, k)
    BY DEF Stored
  <2> HIDE DEF s
  <2>3. QED
    BY <1>0, <1>1, <2>1, <2>2
<1>8. ASSUME NEW i \in 1 .. n + 1 + k
      PROVE  buffer'[i].at >= 0 /\ buffer'[i].at + buffer'[i].size <= Capacity
  <2>1. CASE i \in 1 .. n
    <3>1. buffer'[i] = buffer[i] /\ i \in DOMAIN buffer
      BY <1>0, <2>1 DEF Stored
    <3>2. QED
      BY <3>1 DEF InBounds
  <2>2. CASE i = n + 1
    <3>1. buffer'[i].at = base /\ buffer'[i].size = SymbolSize
      BY <2>2 DEF Stored, Header
    <3> HIDE DEF s
    <3>2. QED
      BY <1>0, <1>1, <1>4, <3>1
  <2>3. CASE i > n + 1
    <3> DEFINE j == i - n - 1
    <3>1. j \in 1 .. k /\ j \in 1 .. Len(s) /\ i = n + 1 + j
      BY <1>0, <2>3
    <3> HIDE DEF j
    <3>2. s[j] \in Message /\ s[j].at \in Nat /\ s[j].size \in Nat
      <4>1. s[j] \in Message /\ s[j].at \in Nat
        <5>1. Contiguous(s)
          BY DEF ArrayInv
        <5> HIDE DEF s
        <5>2. QED
          BY <1>0, <3>1, <5>1, ContiguousFromZero
      <4>2. \A m \in Message : m.size \in Nat
        BY DEF Message
      <4> HIDE DEF s
      <4>3. QED
        BY <4>1, <4>2
    <3>3. buffer'[i] = Moved(s[j], base + SymbolSize)
      BY <3>1 DEF Stored
    <3>4. s[j].at + s[j].size <= Room
      <4>1. Bytes(s, j) = s[j].at + s[j].size
        BY <3>1 DEF Bytes
      <4>2. QED
        BY <1>6, <3>1, <4>1
    <3> HIDE DEF s, base
    <3>5. /\ buffer'[i].at = base + SymbolSize + s[j].at
          /\ buffer'[i].size = s[j].size
      <4>1. base + SymbolSize \in Int
        BY <1>0
      <4>2. PICK m \in Message : m = s[j]
        BY <3>2
      <4>3. /\ Moved(m, base + SymbolSize).at = (base + SymbolSize) + m.at
            /\ Moved(m, base + SymbolSize).size = m.size
        BY <4>1, MovedFields
      <4>4. QED
        BY <3>3, <4>2, <4>3
    <3>6. PICK at \in Nat, size \in Nat : at = s[j].at /\ size = s[j].size
      BY <3>2
    <3>7. at + size <= freeSpace - SymbolSize
      BY <1>1, <3>4, <3>6
    <3>8. freeSpace \in Int /\ Capacity \in Int /\ SymbolSize \in Nat /\ base \in Nat
          /\ base = Capacity - freeSpace
      BY <1>0 DEF base
    <3>9. (base + SymbolSize + at >= 0) /\ ((base + SymbolSize + at) + size <= Capacity)
      BY <3>7, <3>8
    <3>10. QED
      BY <3>5, <3>6, <3>9
  <2>4. QED
    BY <1>0, <2>1, <2>2, <2>3
<1>9. DOMAIN buffer' = 1 .. n + 1 + k
  BY DEF Stored
<1>10. QED
  BY <1>5, <1>7, <1>8, <1>9

\* The collector takes everything there is, and all bytes are free again.
LEMMA TakesAll ==
    ASSUME IInv, SpaceInv, Take
    PROVE  /\ ~deleted
           /\ batch' = buffer
           /\ buffer' = <<>>
           /\ result'.free = Capacity
<1>0. buffer \in Seq(Message) /\ ~deleted /\ numMessages = Len(buffer) /\ Capacity \in Nat
  BY TakeSeesAll, ConstantFacts DEF IInv, TypeOK, Take
<1>1. PICK k \in Fitting(buffer, numMessages, Capacity) :
        /\ batch' = SubSeq(buffer, 1, k)
        /\ buffer' = MemMove(buffer, k, Bytes(buffer, k))
        /\ result' = [num |-> numMessages - k,
                       free |-> freeSpace + Bytes(buffer, k)]
  BY DEF Take
<1>2. k \in 0 .. Len(buffer) /\ (k < Len(buffer) => Bytes(buffer, k + 1) > Capacity)
  BY <1>0 DEF Fitting
<1>3. k = Len(buffer)
  <2>1. SUFFICES ASSUME k < Len(buffer) PROVE FALSE
    BY <1>2
  <2>2. k + 1 \in DOMAIN buffer /\ k + 1 # 0
    BY <1>0, <1>2, <2>1
  <2>3. Bytes(buffer, k + 1) <= Capacity
    BY <2>2 DEF SpaceInv, InBounds, Bytes
  <2>4. Bytes(buffer, k + 1) \in Int
    BY <1>0, <2>2, BytesType
  <2>5. QED
    BY <1>0, <1>2, <2>1, <2>3, <2>4
<1>4. buffer' = <<>>
  <2>1. buffer' \in Seq(Message) /\ Len(buffer') = 0
    <3>1. k \in 0 .. Len(buffer) /\ Bytes(buffer, k) \in Int /\ Len(buffer) - k = 0
      BY <1>0, <1>2, <1>3, BytesType
    <3>2. QED
      BY <1>0, <1>1, <3>1, MemMoveElements
  <2>2. QED
    BY <2>1
<1>5. batch' = buffer
  BY <1>0, <1>1, <1>3
<1>6. freeSpace = Capacity - EndOf(buffer)
  <2>1. \A p \in Procs : pc[p] \notin Moving
    BY DEF IInv, LockDiscipline, Take, Critical, Moving
  <2>2. QED
    BY <1>0, <2>1 DEF SpaceInv
<1>7. result'.free = Capacity
  <2>1. result'.free = freeSpace + EndOf(buffer) /\ EndOf(buffer) \in Int
    BY <1>0, <1>1, <1>3, EndIsBytes
  <2>2. QED
    BY <1>0, <1>6, <2>1
<1>8. QED
  BY <1>0, <1>4, <1>5, <1>7

-----------------------------------------------------------------------------
\* The invariant is inductive.

\* What ArrayInv says of one sender.
ArrayOf(p) ==
    /\ Contiguous(pending[p])
    /\ \A i \in DOMAIN pending[p] :
          /\ pending[p][i].type = "CUSTOM"
          /\ pending[p][i].symbol = p
          /\ SymbolSize + pending[p][i].size <= WaitSpace + 1
    /\ pc[p] = "idle" => pending[p] = <<>>
    /\ pc[p] \in Waiting => pending[p] # <<>>

LEMMA ArrayStep ==
    ASSUME LInv, [Next]_vars, TypeOK'
    PROVE  ArrayInv'
<1> SUFFICES ASSUME NEW q \in Producers PROVE ArrayOf(q)'
  BY DEF ArrayInv, ArrayOf
<1>0. TypeOK /\ ArrayOf(q) /\ q \in Procs
  BY DEF LInv, IInv, ArrayInv, ArrayOf
<1>1. ASSUME UNCHANGED <<pc, pending>> PROVE ArrayOf(q)'
  BY <1>0, <1>1 DEF ArrayOf
<1>2. ASSUME NEW p \in Producers, CallPut(p) PROVE ArrayOf(q)'
  <2>1. CASE p # q
    BY <1>0, <1>2, <2>1 DEF CallPut, Goto, TypeOK, ArrayOf, Waiting
  <2>2. CASE p = q
    <3>1. PICK a \in Arrays :
            pending' = [pending EXCEPT ![p] =
                [i \in 1 .. Len(a) |->
                   [type |-> "CUSTOM", symbol |-> p, id |-> sent[p] + i,
                    size |-> a[i].size, at |-> a[i].at]]]
      BY <1>2 DEF CallPut
    <3>2. /\ a \in Seq(Slot) /\ a # <<>> /\ Contiguous(a)
          /\ \A i \in DOMAIN a : SymbolSize + a[i].size <= WaitSpace + 1
      BY MessageBufferAssumption
    <3>3. pending'[q] =
            [i \in 1 .. Len(a) |->
               [type |-> "CUSTOM", symbol |-> p, id |-> sent[p] + i,
                size |-> a[i].size, at |-> a[i].at]]
      BY <1>0, <2>2, <3>1 DEF TypeOK
    <3>4. DOMAIN pending'[q] = DOMAIN a /\ DOMAIN a = 1 .. Len(a)
      BY <3>2, <3>3
    <3>5. ASSUME NEW i \in DOMAIN a
          PROVE  /\ pending'[q][i].type = "CUSTOM"
                 /\ pending'[q][i].symbol = q
                 /\ pending'[q][i].size = a[i].size
                 /\ pending'[q][i].at = a[i].at
      BY <2>2, <3>3, <3>4
    <3>6. Contiguous(pending'[q])
      <4>1. SUFFICES ASSUME NEW i \in DOMAIN a
                     PROVE  pending'[q][i].at =
                              IF i = 1 THEN 0
                              ELSE pending'[q][i - 1].at + pending'[q][i - 1].size
        BY <3>4 DEF Contiguous
      <4>2. a[i].at = IF i = 1 THEN 0 ELSE a[i - 1].at + a[i - 1].size
        BY <3>2 DEF Contiguous
      <4>3. CASE i = 1
        BY <3>5, <4>2, <4>3
      <4>4. CASE i # 1
        <5>1. i - 1 \in DOMAIN a
          BY <3>2, <4>4
        <5>2. QED
          BY <3>5, <4>2, <4>4, <5>1
      <4>5. QED
        BY <4>3, <4>4
    <3>7. pending'[q] # <<>>
      <4>1. 1 \in DOMAIN pending'[q]
        BY <3>2, <3>4
      <4>2. QED
        BY <4>1
    <3>8. pc'[q] = "enter"
      BY <1>0, <1>2, <2>2 DEF CallPut, Goto, TypeOK
    <3>9. QED
      BY <3>2, <3>4, <3>5, <3>6, <3>7, <3>8 DEF ArrayOf
  <2>3. QED
    BY <2>1, <2>2
<1>3. ASSUME NEW p \in Producers, Store(p) PROVE ArrayOf(q)'
  <2>1. PICK k \in 0 .. Len(pending[p]) : Stored(p, k)
    BY <1>0, <1>3, StoreStores
  <2>2. CASE p # q
    <3>1. pending'[q] = pending[q]
      BY <1>0, <2>1, <2>2 DEF Stored, TypeOK
    <3>2. pc'[q] = pc[q]
      BY <1>0, <1>3, <2>2 DEF Store, Goto, TypeOK
    <3>3. QED
      BY <1>0, <3>1, <3>2 DEF ArrayOf
  <2>3. CASE p = q
    <3> DEFINE s == pending[p]
    <3>1. pending'[q] = MemMove(s, k, Bytes(s, k))
      BY <1>0, <2>1, <2>3 DEF Stored, TypeOK
    <3>2. s \in Seq(Message) /\ Contiguous(s)
      BY <1>0, <2>3 DEF TypeOK, ArrayOf
    <3>3. \A i \in 1 .. Len(s) :
             /\ s[i].type = "CUSTOM" /\ s[i].symbol = q
             /\ SymbolSize + s[i].size <= WaitSpace + 1
      BY <1>0, <2>3, <3>2 DEF ArrayOf
    <3>4. pc'[q] = "writeNum"
      BY <1>0, <1>3, <2>3 DEF Store, Goto, TypeOK
    <3>0. k \in 0 .. Len(s)
      OBVIOUS
    <3> HIDE DEF s
    <3>5. Contiguous(pending'[q])
      BY <3>0, <3>1, <3>2, ContiguousMoves
    <3>6. ASSUME NEW i \in DOMAIN pending'[q]
          PROVE  /\ pending'[q][i].type = "CUSTOM" /\ pending'[q][i].symbol = q
                 /\ SymbolSize + pending'[q][i].size <= WaitSpace + 1
      <4>1. PICK b \in Int : pending'[q] = MemMove(s, k, b)
        BY <3>0, <3>1, <3>2, BytesType
      <4>2. i \in 1 .. Len(s) - k /\ i + k \in 1 .. Len(s)
        <5>1. pending'[q] \in Seq(Message) /\ Len(pending'[q]) = Len(s) - k
          BY <3>0, <3>2, <4>1, MemMoveElements
        <5>2. QED
          BY <3>0, <3>2, <5>1
      <4>3. /\ pending'[q][i].type = s[i + k].type
            /\ pending'[q][i].symbol = s[i + k].symbol
            /\ pending'[q][i].size = s[i + k].size
        <5>1. /\ MemMove(s, k, b)[i].type = s[i + k].type
              /\ MemMove(s, k, b)[i].symbol = s[i + k].symbol
              /\ MemMove(s, k, b)[i].size = s[i + k].size
          BY <3>0, <3>2, <4>2, MemMoveElements
        <5>2. QED
          BY <4>1, <5>1
      <4>4. QED
        BY <3>3, <4>2, <4>3
    <3>7. QED
      BY <3>4, <3>5, <3>6 DEF ArrayOf, Waiting
  <2>4. QED
    BY <2>2, <2>3
<1>4. ASSUME NEW p \in Producers, GivesUp(p) PROVE ArrayOf(q)'
  <2>1. pending'[q] = IF q = p THEN <<>> ELSE pending[q]
    BY <1>4 DEF GivesUp, Forget
  <2>2. pc'[q] = IF q = p THEN "idle" ELSE pc[q]
    BY <1>0, <1>4 DEF GivesUp, TypeOK
  <2>3. QED
    BY <1>0, <2>1, <2>2 DEF ArrayOf, Contiguous, Waiting
<1>5. ASSUME NEW p \in Procs, WriteNumMessages(p) \/ WriteFreeSpace(p) PROVE ArrayOf(q)'
  BY <1>0, <1>5 DEF WriteNumMessages, WriteFreeSpace, Goto, client, TypeOK, ArrayOf, Waiting
<1>6. CASE CallGet \/ Take \/ Terminate
  <2>1. pending'[q] = pending[q] /\ pc'[q] = pc[q]
    BY <1>0, <1>6, ConstantFacts DEF CallGet, Take, Terminate, Goto, client, TypeOK
  <2>2. QED
    BY <1>0, <2>1 DEF ArrayOf
<1>7. CASE Elsewhere
  BY <1>0, <1>7 DEF Elsewhere, client, ArrayOf
<1>8. QED
  BY <1>2, <1>3, <1>4, <1>5, <1>6, <1>7, NextCases DEF LInv

\* The numbers a process was let in for do not change before it has the lock.
LEMMA EntryStep ==
    ASSUME LInv, [Next]_vars
    PROVE  EntryInv'
<1> USE DEF EntryInv, Counter, Goto, TypeOK, shared, sync, client, Waiting
<1>0. TypeOK /\ LockDiscipline /\ GoneInv /\ EntryInv
  BY DEF LInv, IInv
<1>1. ASSUME NEW p \in Producers, CallPut(p) PROVE EntryInv'
  BY <1>0, <1>1, ConstantFacts DEF CallPut
<1>2. ASSUME NEW p \in Producers, Store(p) PROVE EntryInv'
  BY <1>0, <1>2, ConstantFacts DEF Store
<1>3. ASSUME NEW p \in Producers, GivesUp(p) PROVE EntryInv'
  BY <1>0, <1>3, ConstantFacts DEF GivesUp
<1>4. ASSUME NEW p \in Procs, WriteNumMessages(p) \/ WriteFreeSpace(p) PROVE EntryInv'
  <2>1. lock = p
    BY <1>0, <1>4 DEF WriteNumMessages, WriteFreeSpace, LockDiscipline, Critical
  <2>2. \A q \in Procs : pc'[q] # "copy"
    BY <1>0, <1>4, <2>1 DEF WriteNumMessages, WriteFreeSpace, LockDiscipline, Critical
  <2>3. pc'[Collector] \in Waiting => pc[Collector] \in Waiting
    BY <1>0, <1>4 DEF WriteNumMessages, WriteFreeSpace
  <2>4. batch' = batch
    BY <1>4 DEF WriteNumMessages, WriteFreeSpace
  <2>5. QED
    BY <1>0, <2>2, <2>3, <2>4
<1>5. CASE CallGet
  BY <1>0, <1>5 DEF CallGet
<1>6. CASE Take
  BY <1>0, <1>6 DEF Take
<1>7. CASE Terminate
  BY <1>0, <1>7 DEF Terminate
<1>8. CASE Elsewhere
  BY <1>0, <1>8 DEF Elsewhere, MayEnter
<1>9. QED
  BY <1>1, <1>2, <1>3, <1>4, <1>5, <1>6, <1>7, <1>8, NextCases DEF LInv

\* Nobody who is not past the wait loop has moved messages.
LEMMA NobodyMoves ==
    ASSUME IInv, NEW p \in Procs, pc[p] = "copy"
    PROVE  \A q \in Procs : pc[q] \notin Moving
  BY DEF IInv, LockDiscipline, Critical, Moving

LEMMA SpaceStep ==
    ASSUME LInv, [Next]_vars
    PROVE  SpaceInv'
<1> USE DEF Goto, shared, sync, client, Moving
<1>0. /\ TypeOK /\ LockDiscipline /\ GoneInv /\ SpaceInv /\ IInv
      /\ pc \in [Procs -> PcStates]
  BY DEF LInv, IInv, TypeOK
<1>1. ASSUME NEW p \in Producers, CallPut(p) PROVE SpaceInv'
  BY <1>0, <1>1 DEF CallPut, SpaceInv, InBounds
<1>2. ASSUME NEW p \in Producers, Store(p) PROVE SpaceInv'
  <2>1. PICK k \in 0 .. Len(pending[p]) : Stored(p, k)
    BY <1>0, <1>2, StoreStores
  <2>2. pc[p] = "copy" /\ p # Collector /\ p \in Procs
    BY <1>2 DEF Store
  <2>3. freeSpace > WaitSpace /\ pending[p] # <<>>
    BY <2>2 DEF LInv, EntryInv, ArrayInv, MayEnter, Counter, Waiting
  <2>4. /\ result'.free \in 0 .. Capacity
        /\ \A i \in DOMAIN buffer' :
              buffer'[i].at >= 0 /\ buffer'[i].at + buffer'[i].size <= Capacity
    BY <1>0, <2>1, <2>3, StoredFits DEF LInv, SpaceInv
  <2>5. InBounds'
    BY <1>0, <1>2, <2>4 DEF Store, SpaceInv, InBounds
  <2>6. \A q \in Procs : pc[q] \notin Moving
    BY <1>0, <2>2, NobodyMoves
  <2>7. ~deleted => Contiguous(buffer') /\ result'.free = Capacity - EndOf(buffer')
    <3>1. Contiguous(pending[p])
      BY DEF LInv, ArrayInv
    <3>2. ~deleted => Contiguous(buffer) /\ freeSpace = Capacity - EndOf(buffer)
      BY <1>0, <2>6 DEF SpaceInv
    <3>3. QED
      BY <1>0, <2>1, <3>1, <3>2, StoredContinues
  <2>8. deleted' = deleted /\ pc'[p] = "writeNum"
    BY <1>0, <1>2, <2>2 DEF Store
  <2>9. QED
    BY <2>2, <2>4, <2>5, <2>7, <2>8 DEF SpaceInv
<1>3. ASSUME NEW p \in Producers, GivesUp(p) PROVE SpaceInv'
  BY <1>0, <1>3 DEF GivesUp, Waiting, SpaceInv, InBounds
<1>4. ASSUME NEW p \in Procs, WriteNumMessages(p) PROVE SpaceInv'
  BY <1>0, <1>4 DEF WriteNumMessages, SpaceInv, InBounds
<1>5. ASSUME NEW p \in Procs, WriteFreeSpace(p) PROVE SpaceInv'
  <2>1. lock = p
    BY <1>0, <1>5 DEF WriteFreeSpace, LockDiscipline, Critical
  <2>2. \A q \in Procs : pc'[q] \notin Moving
    BY <1>0, <1>5, <2>1 DEF WriteFreeSpace, LockDiscipline, Critical
  <2>3. /\ freeSpace' = result.free /\ buffer' = buffer /\ deleted' = deleted
        /\ result.free \in 0 .. Capacity
        /\ ~deleted => Contiguous(buffer) /\ result.free = Capacity - EndOf(buffer)
    BY <1>0, <1>5 DEF WriteFreeSpace, SpaceInv
  <2>4. InBounds'
    BY <1>0, <2>3 DEF SpaceInv, InBounds
  <2>5. QED
    BY <2>2, <2>3, <2>4 DEF SpaceInv
<1>6. CASE CallGet
  BY <1>0, <1>6 DEF CallGet, SpaceInv, InBounds
<1>7. CASE Take
  <2>1. buffer' = <<>> /\ result'.free = Capacity /\ ~deleted
    BY <1>0, <1>7, TakesAll
  <2>2. freeSpace' = freeSpace /\ pc'[Collector] = "writeNum"
    BY <1>0, <1>7 DEF Take
  <2>3. Contiguous(buffer') /\ EndOf(buffer') = 0 /\ InBounds'
    BY <1>0, <2>1, <2>2 DEF Contiguous, EndOf, SpaceInv, InBounds
  <2>4. Capacity \in 0 .. Capacity /\ Capacity - 0 = Capacity
    BY ConstantFacts
  <2>5. QED
    BY <2>1, <2>2, <2>3, <2>4 DEF SpaceInv
<1>8. CASE Terminate
  BY <1>0, <1>8 DEF Terminate, SpaceInv, InBounds
<1>9. CASE Elsewhere
  BY <1>0, <1>9 DEF Elsewhere, SpaceInv, InBounds
<1>10. QED
  BY <1>1, <1>2, <1>3, <1>4, <1>5, <1>6, <1>7, <1>8, <1>9, NextCases DEF LInv

\* Behind its name, a sender's messages belong to it.
LEMMA AttributionStep ==
    ASSUME LInv, [Next]_vars
    PROVE  Attribution'
<1>0. TypeOK /\ SpaceInv /\ IInv /\ Attributed(buffer) /\ Attributed(batch)
  BY DEF LInv, IInv, Attribution
<1>1. ASSUME UNCHANGED buffer, batch' = batch \/ batch' = <<>> PROVE Attribution'
  BY <1>0, <1>1 DEF Attribution, Attributed
<1>2. ASSUME NEW p \in Producers, Store(p) PROVE Attribution'
  <2>1. PICK k \in 0 .. Len(pending[p]) : Stored(p, k)
    BY <1>0, <1>2, StoreStores
  <2> DEFINE n == Len(buffer)
             b == buffer'
  <2>2. /\ n \in Nat /\ k \in Nat /\ buffer \in Seq(Message)
        /\ DOMAIN b = 1 .. n + 1 + k
        /\ \A i \in 1 .. n : b[i] = buffer[i]
        /\ b[n + 1].type = "SYMBOL" /\ b[n + 1].symbol = p
    <3>1. buffer \in Seq(Message) /\ n \in Nat /\ k \in Nat
      BY <1>0 DEF TypeOK
    <3>2. b \in Seq(Message) /\ Len(b) = n + 1 + k
      BY <2>1 DEF Stored
    <3>3. b[n + 1].type = "SYMBOL" /\ b[n + 1].symbol = p
      BY <2>1 DEF Stored, Header
    <3>4. \A i \in 1 .. n : b[i] = buffer[i]
      BY <2>1 DEF Stored
    <3>5. QED
      BY <3>1, <3>2, <3>3, <3>4
  <2>3. ASSUME NEW i \in n + 2 .. n + 1 + k
        PROVE  b[i].type = "CUSTOM" /\ b[i].symbol = p
    <3> DEFINE j == i - n - 1
    <3>1. j \in 1 .. k /\ i = n + 1 + j /\ j \in 1 .. Len(pending[p])
      BY <2>2
    <3> HIDE DEF j
    <3>2. pending[p][j].type = "CUSTOM" /\ pending[p][j].symbol = p
      BY <3>1 DEF LInv, ArrayInv
    <3>3. PICK m \in Message : m = pending[p][j]
      BY <1>0, <3>1 DEF TypeOK
    <3>4. (Capacity - freeSpace) + SymbolSize \in Int
      BY <1>0, ConstantFacts DEF TypeOK
    <3>5. b[i] = Moved(m, Capacity - freeSpace + SymbolSize)
      BY <2>1, <3>1, <3>3 DEF Stored
    <3>6. QED
      BY <3>2, <3>3, <3>4, <3>5, MovedFields
  <2> HIDE DEF b
  <2>4. ASSUME NEW i \in 1 .. n + 1 + k, b[i].type = "CUSTOM"
        PROVE  \E j \in 1 .. i - 1 :
                  /\ b[j].type = "SYMBOL" /\ b[j].symbol = b[i].symbol
                  /\ \A l \in j + 1 .. i : b[l].type = "CUSTOM"
    <3>1. CASE i \in 1 .. n
      <4>1. PICK j \in 1 .. i - 1 :
               /\ buffer[j].type = "SYMBOL" /\ buffer[j].symbol = buffer[i].symbol
               /\ \A l \in j + 1 .. i : buffer[l].type = "CUSTOM"
        BY <1>0, <2>2, <2>4, <3>1 DEF Attributed
      <4>2. \A l \in j .. i : b[l] = buffer[l]
        BY <2>2, <3>1
      <4>3. QED
        BY <2>2, <3>1, <4>1, <4>2
    <3>2. CASE i \in n + 2 .. n + 1 + k
      <4>1. n + 1 \in 1 .. i - 1 /\ b[i].symbol = p
        BY <2>2, <2>3, <3>2
      <4>2. \A l \in (n + 1) + 1 .. i : b[l].type = "CUSTOM"
        BY <2>2, <2>3, <3>2
      <4>3. QED
        BY <2>2, <4>1, <4>2
    <3>3. CASE i = n + 1
      BY <2>2, <2>4, <3>3
    <3>4. QED
      BY <2>2, <3>1, <3>2, <3>3
  <2>5. Attributed(b)
    BY <2>2, <2>4 DEF Attributed
  <2>6. batch' = batch
    BY <1>2 DEF Store
  <2>7. QED
    BY <1>0, <2>5, <2>6 DEF Attribution, b
<1>3. CASE Take
  <2>1. batch' = buffer /\ buffer' = <<>>
    BY <1>0, <1>3, TakesAll
  <2>2. QED
    BY <1>0, <2>1 DEF Attribution, Attributed
<1>4. QED
  BY <1>1, <1>2, <1>3, NextCases
     DEF LInv, CallPut, GivesUp, WriteNumMessages, WriteFreeSpace, CallGet, Terminate,
         Elsewhere, shared, client

LEMMA LayoutInit == Init => LInv
<1> SUFFICES ASSUME Init PROVE LInv
  OBVIOUS
<1>1. IInv
  BY InitInv
<1>2. \A p \in Procs : pc[p] = "idle"
  BY DEF Init
<1>3. ArrayInv
  BY <1>2 DEF Init, ArrayInv, Contiguous, Waiting
<1>4. EntryInv
  BY <1>2 DEF EntryInv, Waiting
<1>5. SpaceInv
  <2>1. EndOf(buffer) = 0 /\ Contiguous(buffer) /\ buffer = <<>>
    BY DEF Init, EndOf, Contiguous
  <2>2. freeSpace = Capacity /\ Capacity \in Nat
    BY ConstantFacts DEF Init
  <2>3. QED
    BY <1>2, <2>1, <2>2 DEF SpaceInv, InBounds, Moving
<1>6. Attribution
  BY DEF Init, Attribution, Attributed
<1>7. QED
  BY <1>1, <1>3, <1>4, <1>5, <1>6 DEF LInv

\* The invariant the theorems below follow from.
THEOREM LayoutInvariance == Spec => []LInv
<1>1. LInv /\ [Next]_vars => LInv'
  <2> SUFFICES ASSUME LInv, [Next]_vars PROVE LInv'
    OBVIOUS
  <2>1. IInv'
    BY TypeStep, LockStep, GoneStep, CountStep, WakeStep DEF LInv, IInv
  <2>2. TypeOK'
    BY <2>1 DEF IInv
  <2>3. QED
    BY <2>1, <2>2, ArrayStep, EntryStep, SpaceStep, AttributionStep DEF LInv
<1>2. QED
  BY <1>1, LayoutInit, PTL DEF Spec

\* Whenever nobody is moving messages, numMessages messages lie back to back
\* from the start of the memory and freeSpace bytes are left behind them.
THEOREM LayoutIsKept == Spec => []BufferLayout
<1>1. LInv => BufferLayout
  <2> SUFFICES ASSUME LInv, ~Torn PROVE BufferLayout
    BY DEF BufferLayout
  <2>1. ~deleted /\ \A p \in Procs : pc[p] \notin Moving
    BY DEF Torn, Moving
  <2>2. numMessages = Len(buffer)
    BY <2>1 DEF LInv, IInv, CountInv, Moving
  <2>3. QED
    BY <2>1, <2>2 DEF LInv, SpaceInv, BufferLayout
<1>2. QED
  BY <1>1, LayoutInvariance, PTL

\* No message is stored outside the memory and the number of free bytes never
\* wraps, also after the collector was stopped in the middle of an operation.
THEOREM StaysInBounds == Spec => []InBounds
<1>1. LInv => InBounds
  BY DEF LInv, SpaceInv
<1>2. QED
  BY <1>1, LayoutInvariance, PTL

\* In the memory and in what the collector receives, each message follows the
\* name of its symbol with no other name between them.
THEOREM NamesPrecede == Spec => []Attribution
<1>1. LInv => Attribution
  BY DEF LInv
<1>2. QED
  BY <1>1, LayoutInvariance, PTL

-----------------------------------------------------------------------------
\* The buffer implements the queue.

\* A message without its address.
Bare(m) == [type |-> m.type, symbol |-> m.symbol, id |-> m.id]

BareMessage == {Bare(m) : m \in Message}

LEMMA StripElements ==
    ASSUME NEW s \in Seq(Message)
    PROVE  /\ Strip(s) \in Seq(BareMessage)
           /\ Len(Strip(s)) = Len(s)
           /\ \A i \in 1 .. Len(s) : Strip(s)[i] = Bare(s[i])
<1>1. Strip(s) = [i \in 1 .. Len(s) |-> Bare(s[i])]
  BY DEF Strip, Bare
<1>2. \A i \in 1 .. Len(s) : Bare(s[i]) \in BareMessage
  BY DEF BareMessage
<1>3. Strip(s) \in [1 .. Len(s) -> BareMessage]
  BY <1>1, <1>2
<1>4. \A n \in Nat : \A f \in [1 .. n -> BareMessage] :
         f \in Seq(BareMessage) /\ Len(f) = n
  OBVIOUS
<1>5. QED
  BY <1>1, <1>3, <1>4

LEMMA StripEmpty == Strip(<<>>) = <<>>
<1>1. <<>> \in Seq(Message)
  OBVIOUS
<1>2. Strip(<<>>) \in Seq(BareMessage) /\ Len(Strip(<<>>)) = 0
  BY <1>1, StripElements
<1>3. QED
  BY <1>2

\* Two sequences with the same elements are the same.
LEMMA SameElements ==
    ASSUME NEW T, NEW s \in Seq(T), NEW t \in Seq(T), Len(s) = Len(t),
           \A i \in 1 .. Len(s) : s[i] = t[i]
    PROVE  s = t
  OBVIOUS

\* The first elements of a sequence, and the others.
LEMMA SubSeqElements ==
    ASSUME NEW T, NEW s \in Seq(T), NEW k \in 0 .. Len(s)
    PROVE  /\ SubSeq(s, 1, k) \in Seq(T)
           /\ Len(SubSeq(s, 1, k)) = k
           /\ \A i \in 1 .. k : SubSeq(s, 1, k)[i] = s[i]
           /\ SubSeq(s, k + 1, Len(s)) \in Seq(T)
           /\ Len(SubSeq(s, k + 1, Len(s))) = Len(s) - k
           /\ \A i \in 1 .. Len(s) - k : SubSeq(s, k + 1, Len(s))[i] = s[i + k]
<1>1. /\ SubSeq(s, 1, k) \in Seq(T)
      /\ Len(SubSeq(s, 1, k)) = k
      /\ \A i \in 1 .. k : SubSeq(s, 1, k)[i] = s[i]
  OBVIOUS
<1>2. /\ SubSeq(s, k + 1, Len(s)) \in Seq(T)
      /\ Len(SubSeq(s, k + 1, Len(s))) = Len(s) - k
      /\ \A i \in 1 .. Len(s) - k : SubSeq(s, k + 1, Len(s))[i] = s[i + k]
  OBVIOUS
<1>3. QED
  BY <1>1, <1>2

\* What is moved to the front of the array is what the queue's producer is left
\* with.
LEMMA StripMoves ==
    ASSUME NEW s \in Seq(Message), NEW k \in 0 .. Len(s), NEW b \in Int
    PROVE  Strip(MemMove(s, k, b)) = SubSeq(Strip(s), k + 1, Len(Strip(s)))
<1> DEFINE t == MemMove(s, k, b)
           u == SubSeq(Strip(s), k + 1, Len(Strip(s)))
<1>1. Strip(s) \in Seq(BareMessage) /\ Len(Strip(s)) = Len(s)
      /\ \A i \in 1 .. Len(s) : Strip(s)[i] = Bare(s[i])
  BY StripElements
<1>2. /\ t \in Seq(Message) /\ Len(t) = Len(s) - k
      /\ \A i \in 1 .. Len(s) - k : Bare(t[i]) = Bare(s[i + k])
  BY MemMoveElements DEF Bare
<1>3. /\ u \in Seq(BareMessage) /\ Len(u) = Len(s) - k
      /\ \A i \in 1 .. Len(s) - k : u[i] = Strip(s)[i + k]
  <2>1. k \in 0 .. Len(Strip(s))
    BY <1>1
  <2>2. QED
    BY <1>1, <2>1, SubSeqElements
<1> HIDE DEF t, u
<1>4. /\ Strip(t) \in Seq(BareMessage) /\ Len(Strip(t)) = Len(s) - k
      /\ \A i \in 1 .. Len(s) - k : Strip(t)[i] = Bare(t[i])
  BY <1>2, StripElements
<1>5. \A i \in 1 .. Len(s) - k : Strip(t)[i] = u[i]
  <2>1. SUFFICES ASSUME NEW i \in 1 .. Len(s) - k PROVE Strip(t)[i] = u[i]
    OBVIOUS
  <2>2. i + k \in 1 .. Len(s)
    OBVIOUS
  <2>3. QED
    BY <1>1, <1>2, <1>3, <1>4, <2>2
<1>6. Strip(t) = u
  BY <1>3, <1>4, <1>5, SameElements
<1>7. QED
  BY <1>6 DEF t, u

\* Storing is the queue's Put.
LEMMA StoreIsPut ==
    ASSUME LInv, TypeOK', NEW p \in Producers, Store(p)
    PROVE  Queue!Put(p)
<1>0. TypeOK /\ IInv /\ InBounds /\ ArrayInv
  BY DEF LInv, IInv, SpaceInv
<1>1. PICK k \in 0 .. Len(pending[p]) : Stored(p, k)
  BY <1>0, StoreStores
<1> DEFINE s == pending[p]
           n == Len(buffer)
           base == Capacity - freeSpace
<1>2. k # 0
  <2>1. pc[p] = "copy" /\ p # Collector /\ p \in Procs
    BY DEF Store
  <2>2. freeSpace > WaitSpace /\ pending[p] # <<>>
    BY <2>1 DEF LInv, EntryInv, ArrayInv, MayEnter, Counter, Waiting
  <2>3. QED
    BY <1>0, <1>1, <2>2, StoredFits
<1>3. /\ s \in Seq(Message) /\ k \in 1 .. Len(s) /\ n \in Nat
      /\ buffer \in Seq(Message) /\ buffer' \in Seq(Message)
      /\ base + SymbolSize \in Int
  BY <1>0, <1>2, ConstantFacts DEF TypeOK
<1>4. /\ Strip(s) \in Seq(BareMessage) /\ Len(Strip(s)) = Len(s)
      /\ \A i \in 1 .. Len(s) : Strip(s)[i] = Bare(s[i])
  BY <1>3, StripElements
<1>5. /\ Strip(buffer) \in Seq(BareMessage) /\ Len(Strip(buffer)) = n
      /\ \A i \in 1 .. n : Strip(buffer)[i] = Bare(buffer[i])
  BY <1>3, StripElements
<1>6. /\ Strip(buffer') \in Seq(BareMessage) /\ Len(Strip(buffer')) = n + 1 + k
      /\ \A i \in 1 .. n + 1 + k : Strip(buffer')[i] = Bare(buffer'[i])
  <2>1. Len(buffer') = n + 1 + k
    BY <1>1 DEF Stored
  <2>2. QED
    BY <1>3, <2>1, StripElements
<1>7. Strip(buffer') = Strip(buffer) \o <<Queue!Name(p)>> \o SubSeq(Strip(s), 1, k)
  <2> DEFINE q == Strip(buffer)
             h == Queue!Name(p)
             t == SubSeq(Strip(s), 1, k)
             r == Strip(buffer')
  <2>1. h = Bare(Header(p, base)) /\ h \in BareMessage
    <3>1. Header(p, base) \in Message
      BY <1>0, ConstantFacts DEF Header, Message, TypeOK
    <3>2. h = Bare(Header(p, base))
      BY DEF Queue!Name, Queue!Item, Bare, Header
    <3>3. QED
      BY <3>1, <3>2 DEF BareMessage
  <2>2. t \in Seq(BareMessage) /\ Len(t) = k /\ \A i \in 1 .. k : t[i] = Bare(s[i])
    <3>1. k \in 0 .. Len(Strip(s))
      BY <1>3, <1>4
    <3>2. t \in Seq(BareMessage) /\ Len(t) = k /\ \A i \in 1 .. k : t[i] = Strip(s)[i]
      BY <1>4, <3>1, SubSeqElements
    <3>3. \A i \in 1 .. k : i \in 1 .. Len(s)
      BY <1>3
    <3> HIDE DEF t, s
    <3>4. QED
      BY <1>4, <3>2, <3>3
  <2>3. /\ \A i \in 1 .. n : r[i] = q[i]
        /\ r[n + 1] = h
        /\ \A i \in 1 .. k : r[n + 1 + i] = t[i]
    <3>1. ASSUME NEW i \in 1 .. n PROVE r[i] = q[i]
      <4>1. buffer'[i] = buffer[i] /\ i \in 1 .. n + 1 + k
        BY <1>1, <1>3 DEF Stored
      <4>2. QED
        BY <1>5, <1>6, <4>1
    <3>2. r[n + 1] = h
      <4>1. buffer'[n + 1] = Header(p, base) /\ n + 1 \in 1 .. n + 1 + k
        BY <1>1, <1>3 DEF Stored
      <4>2. QED
        BY <1>6, <2>1, <4>1
    <3>3. ASSUME NEW i \in 1 .. k PROVE r[n + 1 + i] = t[i]
      <4>1. buffer'[n + 1 + i] = Moved(s[i], base + SymbolSize)
            /\ n + 1 + i \in 1 .. n + 1 + k
        BY <1>1, <1>3 DEF Stored
      <4>2. PICK m \in Message : m = s[i]
        BY <1>3
      <4>3. Bare(Moved(m, base + SymbolSize)) = Bare(m)
        BY <1>3, MovedFields DEF Bare
      <4>4. QED
        BY <1>6, <2>2, <4>1, <4>2, <4>3
    <3>4. QED
      BY <3>1, <3>2, <3>3
  <2> HIDE DEF q, h, t, r
  <2>4. /\ q \in Seq(BareMessage) /\ Len(q) = n /\ r \in Seq(BareMessage)
        /\ Len(r) = n + 1 + k
    BY <1>5, <1>6 DEF q, r
  <2>5. /\ q \o <<h>> \in Seq(BareMessage) /\ Len(q \o <<h>>) = n + 1
        /\ \A i \in 1 .. n : (q \o <<h>>)[i] = q[i]
        /\ (q \o <<h>>)[n + 1] = h
    BY <2>1, <2>4
  <2> DEFINE qh == q \o <<h>>
  <2> HIDE DEF qh
  <2>6. /\ qh \o t \in Seq(BareMessage) /\ Len(qh \o t) = n + 1 + k
        /\ \A i \in 1 .. n + 1 : (qh \o t)[i] = qh[i]
        /\ \A i \in 1 .. k : (qh \o t)[n + 1 + i] = t[i]
    <3>1. qh \in Seq(BareMessage) /\ Len(qh) = n + 1
      BY <2>5 DEF qh
    <3>2. /\ qh \o t \in Seq(BareMessage) /\ Len(qh \o t) = Len(qh) + Len(t)
          /\ \A i \in 1 .. Len(qh) : (qh \o t)[i] = qh[i]
          /\ \A i \in 1 .. Len(t) : (qh \o t)[Len(qh) + i] = t[i]
      <4>1. \A a, c \in Seq(BareMessage) :
               /\ a \o c \in Seq(BareMessage) /\ Len(a \o c) = Len(a) + Len(c)
               /\ \A i \in 1 .. Len(a) : (a \o c)[i] = a[i]
               /\ \A i \in 1 .. Len(c) : (a \o c)[Len(a) + i] = c[i]
        BY ConcatElements
      <4>2. QED
        BY <2>2, <3>1, <4>1
    <3>3. QED
      BY <1>3, <2>2, <3>1, <3>2
  <2>7. ASSUME NEW i \in 1 .. n + 1 + k PROVE r[i] = (qh \o t)[i]
    <3>1. CASE i \in 1 .. n + 1
      BY <1>3, <2>3, <2>5, <2>6, <3>1 DEF qh
    <3>2. CASE i > n + 1
      <4>1. i - (n + 1) \in 1 .. k /\ i = n + 1 + (i - (n + 1))
        BY <1>3, <3>2
      <4>2. PICK j \in 1 .. k : i = n + 1 + j
        BY <4>1
      <4>3. QED
        BY <2>3, <2>6, <4>2
    <3>3. i \in 1 .. n + 1 \/ i > n + 1
      BY <1>3
    <3>4. QED
      BY <3>1, <3>2, <3>3
  <2>8. r = qh \o t
    BY <2>4, <2>6, <2>7, SameElements
  <2>9. QED
    BY <2>8 DEF qh, q, h, t, r
<1>8. [q \in Producers |-> Strip(pending'[q])] =
        [[q \in Producers |-> Strip(pending[q])] EXCEPT
            ![p] = SubSeq(@, k + 1, Len(@))]
  <2>1. pending' = [pending EXCEPT ![p] = MemMove(s, k, Bytes(s, k))]
    BY <1>0, <1>1 DEF Stored, TypeOK
  <2>2. Bytes(s, k) \in Int
    BY <1>3, BytesType
  <2>3. Strip(pending'[p]) = SubSeq(Strip(s), k + 1, Len(Strip(s)))
    BY <1>0, <1>3, <2>1, <2>2, StripMoves DEF TypeOK
  <2>4. \A q \in Producers : q # p => pending'[q] = pending[q]
    BY <1>0, <2>1 DEF TypeOK
  <2>5. QED
    BY <2>3, <2>4
<1>9. UNCHANGED <<sent, batch, deleted>>
  BY DEF Store
<1>10. k \in 1 .. Len(Strip(s))
  BY <1>3, <1>4
<1>11. QED
  BY <1>7, <1>8, <1>9, <1>10 DEF Queue!Put

\* Starting to send an array is the queue's Call.
LEMMA CallPutIsCall ==
    ASSUME LInv, NEW p \in Producers, CallPut(p)
    PROVE  Queue!Call(p)
<1>0. TypeOK /\ pending[p] = <<>>
  BY DEF LInv, IInv, ArrayInv, CallPut
<1>1. PICK a \in Arrays :
        /\ sent[p] + Len(a) <= MaxSent
        /\ pending' = [pending EXCEPT ![p] =
              [i \in 1 .. Len(a) |->
                 [type |-> "CUSTOM", symbol |-> p, id |-> sent[p] + i,
                  size |-> a[i].size, at |-> a[i].at]]]
        /\ sent' = [sent EXCEPT ![p] = @ + Len(a)]
  BY DEF CallPut
<1>2. Strip(pending'[p]) = [i \in 1 .. Len(a) |-> Queue!Item("CUSTOM", p, sent[p] + i)]
  BY <1>0, <1>1 DEF TypeOK, Strip, Queue!Item
<1>3. \A q \in Producers : q # p => pending'[q] = pending[q]
  BY <1>0, <1>1 DEF TypeOK
<1>4. [q \in Producers |-> Strip(pending'[q])] =
        [[q \in Producers |-> Strip(pending[q])] EXCEPT
            ![p] = [i \in 1 .. Len(a) |-> Queue!Item("CUSTOM", p, sent[p] + i)]]
  BY <1>2, <1>3
<1>5. Strip(pending[p]) = <<>>
  BY <1>0, StripEmpty
<1>6. UNCHANGED <<buffer, batch, deleted>>
  BY DEF CallPut, shared
<1>7. QED
  BY <1>1, <1>4, <1>5, <1>6 DEF Queue!Call

\* Every step is a step of the queue or changes nothing the queue knows of.
LEMMA QueueStep ==
    ASSUME LInv, LInv', [Next]_vars
    PROVE  [Queue!Next]_(Queue!vars)
<1>0. TypeOK /\ TypeOK' /\ IInv /\ SpaceInv /\ GoneInv
  BY DEF LInv, IInv
<1>1. ASSUME UNCHANGED <<buffer, pending, sent, batch, deleted>>
      PROVE  [Queue!Next]_(Queue!vars)
  BY <1>1 DEF Queue!vars
<1>2. ASSUME NEW p \in Producers, CallPut(p) PROVE [Queue!Next]_(Queue!vars)
  BY <1>2, CallPutIsCall DEF Queue!Next
<1>3. ASSUME NEW p \in Producers, Store(p) PROVE [Queue!Next]_(Queue!vars)
  BY <1>0, <1>3, StoreIsPut DEF Queue!Next
<1>4. ASSUME NEW p \in Producers, GivesUp(p) PROVE [Queue!Next]_(Queue!vars)
  <2>1. pending[p] # <<>> /\ pending[p] \in Seq(Message)
    BY <1>0, <1>4 DEF LInv, ArrayInv, GivesUp, TypeOK
  <2>2. Strip(pending[p]) # <<>>
    <3>1. Len(pending[p]) # 0
      BY <2>1
    <3>2. Len(Strip(pending[p])) = Len(pending[p])
      BY <2>1, StripElements
    <3>3. QED
      BY <3>1, <3>2
  <2>3. \A q \in Producers :
           pending'[q] = IF q = p THEN <<>> ELSE pending[q]
    BY <1>4 DEF GivesUp, Forget
  <2>4. [q \in Producers |-> Strip(pending'[q])] =
          [[q \in Producers |-> Strip(pending[q])] EXCEPT ![p] = <<>>]
    BY <2>3, StripEmpty
  <2>5. UNCHANGED <<buffer, sent, batch, deleted>>
    BY <1>4 DEF GivesUp, shared
  <2>6. Queue!GiveUp(p)
    BY <2>2, <2>4, <2>5 DEF Queue!GiveUp
  <2>7. QED
    BY <2>6 DEF Queue!Next
<1>5. CASE CallGet
  <2>1. ~deleted
    BY <1>0, <1>5 DEF CallGet, GoneInv, Leaving
  <2>2. Queue!Process
    BY <1>5, <2>1, StripEmpty DEF CallGet, Queue!Process, shared
  <2>3. QED
    BY <2>2 DEF Queue!Next
<1>6. CASE Take
  <2>1. ~deleted /\ batch' = buffer /\ buffer' = <<>>
    BY <1>0, <1>6, TakesAll
  <2>2. pc[Collector] = "copy" /\ Collector \in Procs
    BY <1>6 DEF Take
  <2>3. batch = <<>> /\ numMessages # 0
    BY <2>2 DEF LInv, EntryInv, MayEnter, Counter, Waiting
  <2>4. Strip(buffer) # <<>>
    <3>1. Len(buffer) # 0 /\ buffer \in Seq(Message)
      BY <1>0, <2>2, <2>3, TakeSeesAll DEF TypeOK
    <3>2. Len(Strip(buffer)) = Len(buffer)
      BY <3>1, StripElements
    <3>3. QED
      BY <3>1, <3>2
  <2>5. UNCHANGED <<pending, sent, deleted>>
    BY <1>6 DEF Take
  <2>6. Queue!Get
    BY <2>1, <2>3, <2>4, <2>5, StripEmpty DEF Queue!Get
  <2>7. QED
    BY <2>6 DEF Queue!Next
<1>7. CASE Terminate
  <2>1. ~deleted
    BY <1>0, <1>7 DEF Terminate, GoneInv
  <2>2. Queue!Close
    BY <1>7, <2>1 DEF Terminate, Queue!Close, client
  <2>3. QED
    BY <2>2 DEF Queue!Next
<1>8. ASSUME NEW p \in Procs, WriteNumMessages(p) \/ WriteFreeSpace(p)
      PROVE  [Queue!Next]_(Queue!vars)
  BY <1>1, <1>8 DEF WriteNumMessages, WriteFreeSpace, client
<1>9. CASE Elsewhere
  BY <1>1, <1>9 DEF Elsewhere, shared, client
<1>10. QED
  BY <1>0, <1>2, <1>3, <1>4, <1>5, <1>6, <1>7, <1>8, <1>9, NextCases

\* The shared memory, its counters and its lock are an implementation of the
\* queue: nothing is lost, doubled or reordered but by a call that gives up.
THEOREM Refinement == Spec => ImplementsQueue
<1>1. Init => Queue!Init
  BY StripEmpty DEF Init, Queue!Init
<1>2. LInv /\ LInv' /\ [Next]_vars => [Queue!Next]_(Queue!vars)
  BY QueueStep
<1>3. QED
  BY <1>1, <1>2, LayoutInvariance, PTL DEF Spec, ImplementsQueue, Queue!Spec
================================================================================
