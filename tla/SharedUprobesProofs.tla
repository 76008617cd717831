-------------------------- MODULE SharedUprobesProofs --------------------------
(***************************************************************************)
(* Proofs about the shared probes, for any sessions, functions and types,  *)
(* any number of calls and any use of the SQL functions, with faults.      *)
(***************************************************************************)
EXTENDS SharedUprobes, SequenceTheorems, SetInduction

-----------------------------------------------------------------------------
\* Messages.

Message ==
    [type : {"SYMBOL"}, symbol : Symbols]
       \cup [type : {"NEW"}, kind : Types]
       \cup [type : {"WRITE", "DELETE"}, from : Backends, flag : BOOLEAN]
       \cup [type : {"CUSTOM"}, kind : Types, from : Backends, n : Nat]

LEMMA MessageTypes ==
    ASSUME NEW m \in Message
    PROVE  /\ m.type \in {"SYMBOL", "NEW", "WRITE", "DELETE", "CUSTOM"}
           /\ m.type = "SYMBOL" => m.symbol \in Symbols
           /\ m.type = "NEW" => m.kind \in Types
           /\ m.type \in {"WRITE", "DELETE"} => m.from \in Backends /\ m.flag \in BOOLEAN
           /\ m.type = "CUSTOM" => m.kind \in Types /\ m.from \in Backends /\ m.n \in Nat
  BY DEF Message

LEMMA MadeMessages ==
    /\ \A s \in Symbols : [type |-> "SYMBOL", symbol |-> s] \in Message
    /\ \A t \in Types : [type |-> "NEW", kind |-> t] \in Message
    /\ \A b \in Backends, f \in BOOLEAN :
          /\ [type |-> "WRITE", from |-> b, flag |-> f] \in Message
          /\ [type |-> "DELETE", from |-> b, flag |-> f] \in Message
    /\ \A t \in Types, b \in Backends, k \in Nat :
          [type |-> "CUSTOM", kind |-> t, from |-> b, n |-> k] \in Message
  BY DEF Message

\* A put appends two messages.
LEMMA TwoAppended ==
    ASSUME NEW q \in Seq(Message), NEW a \in Message, NEW m \in Message
    PROVE  LET n   == Len(q)
               now == q \o <<a, m>>
           IN  /\ n \in Nat /\ DOMAIN q = 1 .. n
               /\ now \in Seq(Message) /\ now # <<>>
               /\ Len(now) = n + 2
               /\ DOMAIN now = (1 .. n) \cup {n + 1, n + 2}
               /\ \A i \in 1 .. n : now[i] = q[i]
               /\ now[n + 1] = a
               /\ now[n + 2] = m
               /\ Head(now) = IF q = <<>> THEN a ELSE Head(q)
  OBVIOUS

LEMMA OneTaken ==
    ASSUME NEW q \in Seq(Message), q # <<>>
    PROVE  /\ Len(q) \in Nat \ {0} /\ DOMAIN q = 1 .. Len(q)
           /\ Tail(q) \in Seq(Message)
           /\ Len(Tail(q)) = Len(q) - 1
           /\ DOMAIN Tail(q) = 1 .. Len(q) - 1
           /\ \A i \in 1 .. Len(q) - 1 : Tail(q)[i] = q[i + 1] /\ i + 1 \in DOMAIN q
           /\ Head(q) = q[1] /\ 1 \in DOMAIN q
  OBVIOUS

LEMMA Joined ==
    ASSUME NEW p \in Seq(Message), NEW q \in Seq(Message)
    PROVE  LET m == Len(p)
               n == Len(q)
           IN  /\ m \in Nat /\ n \in Nat
               /\ DOMAIN p = 1 .. m /\ DOMAIN q = 1 .. n
               /\ p \o q \in Seq(Message)
               /\ Len(p \o q) = m + n
               /\ DOMAIN (p \o q) = 1 .. m + n
               /\ \A i \in 1 .. m : (p \o q)[i] = p[i]
               /\ \A i \in 1 .. n : (p \o q)[m + i] = q[i]
               /\ \A i \in 1 .. m + n :
                     i \in 1 .. m \/ (i - m \in 1 .. n /\ (p \o q)[i] = q[i - m])
  OBVIOUS

\* What the steps of the collector and a put make of batch and queue together.
LEMMA Transits ==
    ASSUME NEW p \in Seq(Message), NEW q \in Seq(Message)
    PROVE  /\ \A a, m \in Message : p \o (q \o <<a, m>>) = (p \o q) \o <<a, m>>
           /\ <<>> \o q = q /\ q \o <<>> = q
           /\ p # <<>> => /\ p \o q # <<>>
                          /\ Tail(p) \o q = Tail(p \o q)
                          /\ Head(p) = Head(p \o q)
<1>1. ASSUME NEW a \in Message, NEW m \in Message
      PROVE  p \o (q \o <<a, m>>) = (p \o q) \o <<a, m>>
  OBVIOUS
<1>2. <<>> \o q = q /\ q \o <<>> = q
  OBVIOUS
<1>3. ASSUME p # <<>>
      PROVE  p \o q # <<>> /\ Tail(p) \o q = Tail(p \o q) /\ Head(p) = Head(p \o q)
  BY <1>3
<1>4. QED
  BY <1>1, <1>2, <1>3

-----------------------------------------------------------------------------
\* Types.

OpSet ==
    [name : {"none", "set", "dump", "delete", "tick", "exit"},
     symbol : Symbols \cup {NoSymbol}, kind : Types \cup {NoProbe}, flag : BOOLEAN,
     todo : SUBSET Symbols, current : Symbols \cup {NoSymbol}, left : Nat]

Places == {"away", "idle", "send", "save", "unsave", "wait"} \cup Putting

SessionType ==
    /\ probes \in [Backends -> [Symbols -> Probe \cup {NoProbe}]]
    /\ pc \in [Backends -> Places]
    /\ op \in [Backends -> OpSet]
    /\ latch \in [Backends -> BOOLEAN]

ChannelType ==
    /\ queue \in Seq(Message) /\ batch \in Seq(Message)
    /\ closed \in BOOLEAN /\ worker \in {"first", "failed", "second"}

HistoryType ==
    /\ config \in [Symbols -> Types \cup {NoProbe}]
    /\ calls \in [Backends -> [Symbols -> 0 .. MaxCalls]]
    /\ ops \in 0 .. MaxOps /\ aborts \in 0 .. MaxAborts
    /\ past \in [Symbols -> SUBSET {"deleted", "cut short"}]

\* What a session is doing, by the place it is at.  It has sent, or has still to send,
\* whatever its shared probes have counted.
OpAt(b) ==
    /\ pc[b] \in {"away", "idle"} <=> op[b] = NoOp
    /\ latch[b] => pc[b] \in Armed
    /\ pc[b] = "away" => \A s \in Symbols : ~Has(b, s)
    /\ op[b].name \in {"set", "dump", "delete"} => op[b].symbol \in Symbols
    /\ op[b].name = "set" => op[b].kind \in Types /\ ~op[b].flag /\ ~Has(b, op[b].symbol)
    /\ op[b].name = "delete" => ~Has(b, op[b].symbol)
    /\ pc[b] \in {"send", "putData"} => op[b].name \in {"dump", "delete", "tick", "exit"}
    /\ pc[b] \in {"putNew", "save"} => op[b].name = "set"
    /\ pc[b] \in {"putDelete", "unsave"} => op[b].name \in {"set", "delete"}
    /\ pc[b] = "putWrite" => op[b].name = "dump"
    /\ pc[b] = "wait" => op[b].name = "dump" \/ (op[b].name = "delete" /\ op[b].flag)
    /\ op[b].todo \subseteq Shared(b)
    /\ pc[b] = "putData" =>
          /\ op[b].current \in Shared(b) \ op[b].todo
          /\ probes[b][op[b].current].type = "TIME" => probes[b][op[b].current].count = 0
    /\ pc[b] # "putData" => op[b].current = NoSymbol
    /\ op[b].name \in {"dump", "delete", "tick", "exit"} =>
          \A s \in Shared(b) : s \in op[b].todo \cup {op[b].current} \/ probes[b][s].count = 0
    /\ pc[b] \in {"putWrite", "wait", "putDelete", "unsave"} /\ op[b].name # "set" =>
          \A s \in Shared(b) : probes[b][s].count = 0

OpInv == \A b \in Backends : OpAt(b)

\* A step of one session leaves the others where they are.
Stays(b) == pc'[b] = pc[b] /\ op'[b] = op[b] /\ probes'[b] = probes[b]

LEMMA OpStays ==
    ASSUME NEW b \in Backends, OpAt(b), Stays(b), latch'[b] => latch[b] \/ pc[b] \in Armed
    PROVE  OpAt(b)'
  BY DEF OpAt, Stays, Has, Shared

LEMMA InitOp ==
    ASSUME Init
    PROVE  SessionType /\ ChannelType /\ HistoryType /\ CollectorTypeOK /\ OpInv
<1> USE DEF Init
<1>1. SessionType
  <2>1. NoOp \in OpSet
    BY DEF NoOp, OpSet
  <2>2. QED
    BY <2>1 DEF SessionType, Places
<1>2. ChannelType
  <2>1. <<>> \in Seq(Message)
    OBVIOUS
  <2>2. QED
    BY <2>1 DEF ChannelType
<1>3. HistoryType
  BY SharedUprobesAssumption DEF HistoryType
<1>4. CollectorTypeOK
  <2>1. storages \in [Symbols -> Storage \cup {NoStorage}]
    BY DEF CollectorInit, StoragesFor, NewStorage, Storage, Nothing, Counts
  <2>2. /\ reported \in [Symbols -> Counts]
        /\ missed \in [Symbols -> [Backends -> Int]]
    BY DEF CollectorInit, Nothing, Counts
  <2>3. QED
    BY <2>1, <2>2 DEF CollectorInit, CollectorTypeOK
<1>5. OpInv
  BY DEF OpInv, OpAt, NoOp, Has, Shared
<1>6. QED
  BY <1>1, <1>2, <1>3, <1>4, <1>5

LEMMA OpOthersStay ==
    ASSUME OpInv, NEW b \in Backends, OpAt(b)',
           \A c \in Backends \ {b} : Stays(c) /\ (latch'[c] => latch[c] \/ pc[c] \in Armed)
    PROVE  OpInv'
<1>1. ASSUME NEW c \in Backends PROVE OpAt(c)'
  BY OpStays DEF OpInv
<1>2. QED
  BY <1>1 DEF OpInv

LEMMA WakeSets ==
    ASSUME latch \in [Backends -> BOOLEAN], NEW p, Wake(p)
    PROVE  /\ latch' \in [Backends -> BOOLEAN]
           /\ \A c \in Backends : latch'[c] => latch[c] \/ (pc[c] \in Armed /\ c # p)
  BY DEF Wake

LEMMA PutSets ==
    ASSUME ChannelType, NEW b \in Backends, NEW s \in Symbols, NEW m \in Message,
           Put(b, s, m) \/ Stored(b, s, m), latch \in [Backends -> BOOLEAN]
    PROVE  /\ queue' \in Seq(Message)
           /\ latch' \in [Backends -> BOOLEAN]
           /\ \A c \in Backends : latch'[c] => latch[c] \/ (pc[c] \in Armed /\ c # b)
<1>1. CASE Stored(b, s, m)
  <2>1. [type |-> "SYMBOL", symbol |-> s] \in Message
    BY MadeMessages
  <2>2. queue' \in Seq(Message)
    BY <1>1, <2>1 DEF Stored, ChannelType
  <2>3. Wake(b)
    BY <1>1 DEF Stored
  <2>4. QED
    BY <2>2, <2>3, WakeSets
<1>2. CASE UNCHANGED <<queue, latch>>
  BY <1>2 DEF ChannelType
<1>3. QED
  BY <1>1, <1>2 DEF Put

-----------------------------------------------------------------------------
\* The steps of a session keep the types and what is said of the places.

SessionInv == SessionType /\ OpInv

LEMMA ConnectSession ==
    ASSUME SessionInv, ChannelType, HistoryType, NEW b \in Backends, Connect(b)
    PROVE  SessionInv'
<1> USE DEF SessionInv
<1>1. SessionType'
  <2>1. ASSUME NEW s \in Symbols, config[s] # NoProbe
        PROVE  NewProbe(config[s], TRUE) \in Probe
    <3>1. config[s] \in Types
      BY <2>1 DEF HistoryType
    <3>2. QED
      BY <3>1 DEF NewProbe, Probe
  <2> DEFINE found == [s \in Symbols |->
                IF config[s] = NoProbe THEN NoProbe ELSE NewProbe(config[s], TRUE)]
  <2>2. found \in [Symbols -> Probe \cup {NoProbe}]
    BY <2>1
  <2>3. probes' = [probes EXCEPT ![b] = found] \/ probes' = probes
    BY DEF Connect
  <2> HIDE DEF found
  <2>4. probes' \in [Backends -> [Symbols -> Probe \cup {NoProbe}]]
    BY <2>2, <2>3 DEF SessionType
  <2>5. QED
    BY <2>4 DEF Connect, SessionType, Goto, Places
<1>2. OpAt(b)'
  <2>0. OpAt(b) /\ pc[b] = "away"
    BY DEF OpInv, Connect
  <2>1. pc'[b] = "idle" /\ op'[b] = NoOp /\ latch'[b] = latch[b]
    BY <2>0 DEF Goto, SessionType, OpAt, Connect
  <2>2. ~latch'[b]
    BY <2>0, <2>1 DEF OpAt, Armed
  <2>3. op'[b].name = "none" /\ op'[b].todo = {} /\ op'[b].current = NoSymbol
    BY <2>1 DEF NoOp
  <2>4. QED
    BY <2>1, <2>2, <2>3 DEF OpAt
<1>3. \A c \in Backends \ {b} : Stays(c) /\ (latch'[c] => latch[c] \/ pc[c] \in Armed)
  BY DEF Stays, Goto, SessionType, Connect
<1>4. QED
  BY <1>1, <1>2, <1>3, OpOthersStay

LEMMA StartSending ==
    ASSUME SessionInv, NEW b \in Backends, pc[b] = "idle",
           NEW o \in OpSet, o.name \in {"dump", "delete", "tick", "exit"},
           o.symbol \in Symbols \/ o.name \notin {"dump", "delete"},
           o.current = NoSymbol, o.todo = Shared(b)',
           o.name = "delete" => ~Has(b, o.symbol)',
           op' = [op EXCEPT ![b] = o], Goto(b, "send"), UNCHANGED latch,
           probes' \in [Backends -> [Symbols -> Probe \cup {NoProbe}]],
           \A c \in Backends \ {b} : probes'[c] = probes[c]
    PROVE  SessionInv'
<1> USE DEF SessionInv
<1>1. SessionType'
  BY DEF SessionType, Goto, Places
<1>2. OpAt(b)'
  <2>1. pc'[b] = "send" /\ op'[b] = o /\ ~latch'[b] /\ o # NoOp
    BY DEF SessionType, Goto, OpInv, OpAt, Armed, NoOp
  <2>2. QED
    BY <2>1 DEF OpAt, Armed
<1>3. \A c \in Backends \ {b} : Stays(c) /\ (latch'[c] => latch[c] \/ pc[c] \in Armed)
  BY DEF Stays, Goto, SessionType
<1>4. QED
  BY <1>1, <1>2, <1>3, OpOthersStay

LEMMA SharedType == \A b \in Backends : Shared(b) \subseteq Symbols
  BY DEF Shared

LEMMA StartSession ==
    ASSUME SessionInv, NEW b \in Backends,
           \/ Disconnect(b) \/ TimedStatSend(b)
           \/ \E s \in Symbols, f \in BOOLEAN : DumpUprobeStat(b, s, f)
    PROVE  SessionInv'
<1> USE SharedType DEF SessionInv
<1>1. CASE Disconnect(b)
  <2> DEFINE o == [NoOp EXCEPT !.name = "exit", !.todo = Shared(b)]
  <2>1. o \in OpSet /\ o.name = "exit" /\ o.current = NoSymbol /\ o.todo = Shared(b)
    BY DEF NoOp, OpSet
  <2>2. /\ pc[b] = "idle" /\ Goto(b, "send") /\ op' = [op EXCEPT ![b] = o]
        /\ UNCHANGED <<latch, probes>> /\ Shared(b)' = Shared(b)
    BY <1>1 DEF Disconnect, Shared, Has
  <2> HIDE DEF o
  <2>3. QED
    BY <2>1, <2>2, StartSending DEF SessionType
<1>2. CASE TimedStatSend(b)
  <2> DEFINE o == [NoOp EXCEPT !.name = "tick", !.todo = Shared(b)]
  <2>1. o \in OpSet /\ o.name = "tick" /\ o.current = NoSymbol /\ o.todo = Shared(b)
    BY DEF NoOp, OpSet
  <2>2. /\ pc[b] = "idle" /\ Goto(b, "send") /\ op' = [op EXCEPT ![b] = o]
        /\ UNCHANGED <<latch, probes>> /\ Shared(b)' = Shared(b)
    BY <1>2 DEF TimedStatSend, Shared, Has
  <2> HIDE DEF o
  <2>3. QED
    BY <2>1, <2>2, StartSending DEF SessionType
<1>3. ASSUME NEW s \in Symbols, NEW f \in BOOLEAN, DumpUprobeStat(b, s, f)
      PROVE  SessionInv'
  <2> DEFINE o == [NoOp EXCEPT !.name = "dump", !.symbol = s, !.flag = f, !.todo = Shared(b)]
  <2>1. o \in OpSet /\ o.name = "dump" /\ o.current = NoSymbol /\ o.todo = Shared(b)
        /\ o.symbol = s
    BY DEF NoOp, OpSet
  <2>2. /\ pc[b] = "idle" /\ Goto(b, "send") /\ op' = [op EXCEPT ![b] = o]
        /\ UNCHANGED <<latch, probes>> /\ Shared(b)' = Shared(b)
    BY <1>3 DEF DumpUprobeStat, Shared, Has
  <2> HIDE DEF o
  <2>3. QED
    BY <2>1, <2>2, StartSending DEF SessionType
<1>4. QED
  BY <1>1, <1>2, <1>3

LEMMA CountChanged ==
    ASSUME SessionType, NEW b \in Backends, NEW s \in Symbols, probes[b][s] \in Probe,
           NEW n \in Nat, probes' = [probes EXCEPT ![b][s].count = n]
    PROVE  /\ probes' \in [Backends -> [Symbols -> Probe \cup {NoProbe}]]
           /\ \A c \in Backends \ {b} : probes'[c] = probes[c]
           /\ \A r \in Symbols \ {s} : probes'[b][r] = probes[b][r]
           /\ probes'[b][s] \in Probe
           /\ probes'[b][s].type = probes[b][s].type
           /\ probes'[b][s].shared = probes[b][s].shared
           /\ probes'[b][s].count = n
<1> DEFINE p == [probes[b][s] EXCEPT !.count = n]
<1>1. p \in Probe /\ p.type = probes[b][s].type /\ p.shared = probes[b][s].shared /\ p.count = n
  BY DEF Probe
<1>2. probes' = [probes EXCEPT ![b] = [probes[b] EXCEPT ![s] = p]]
  OBVIOUS
<1> HIDE DEF p
<1>3. probes[b] \in [Symbols -> Probe \cup {NoProbe}]
  BY DEF SessionType
<1>4. [probes[b] EXCEPT ![s] = p] \in [Symbols -> Probe \cup {NoProbe}]
  BY <1>1, <1>3
<1>5. probes' \in [Backends -> [Symbols -> Probe \cup {NoProbe}]]
  BY <1>2, <1>4 DEF SessionType
<1>6. probes'[b] = [probes[b] EXCEPT ![s] = p] /\ \A c \in Backends \ {b} : probes'[c] = probes[c]
  BY <1>2 DEF SessionType
<1>7. probes'[b][s] = p /\ \A r \in Symbols \ {s} : probes'[b][r] = probes[b][r]
  BY <1>3, <1>6
<1>8. QED
  BY <1>1, <1>5, <1>6, <1>7

LEMMA CallSession ==
    ASSUME SessionInv, NEW b \in Backends, NEW s \in Symbols, Call(b, s)
    PROVE  SessionInv'
<1> USE DEF SessionInv
<1>0. /\ pc[b] = "idle" /\ s \in Shared(b) /\ UNCHANGED <<pc, op, latch>>
      /\ probes' = [probes EXCEPT ![b][s].count = @ + 1]
  BY DEF Call
<1>1. probes[b][s] \in Probe
  BY <1>0 DEF Shared, Has, SessionType
<1>2. /\ probes' \in [Backends -> [Symbols -> Probe \cup {NoProbe}]]
      /\ \A r \in Symbols \ {s} : probes'[b][r] = probes[b][r]
      /\ \A c \in Backends \ {b} : probes'[c] = probes[c]
      /\ probes'[b][s] \in Probe
  BY <1>0, <1>1 DEF SessionType, Probe
<1>3. OpAt(b)'
  <2>1. OpAt(b) /\ op'[b] = NoOp
    BY <1>0 DEF OpInv, OpAt
  <2>2. op'[b].name = "none" /\ op'[b].todo = {} /\ op'[b].current = NoSymbol
    BY <2>1 DEF NoOp
  <2>3. QED
    BY <1>0, <2>1, <2>2 DEF OpAt
<1>4. \A c \in Backends \ {b} : Stays(c) /\ (latch'[c] => latch[c] \/ pc[c] \in Armed)
  BY <1>0, <1>2 DEF Stays
<1>5. QED
  BY <1>0, <1>2, <1>3, <1>4, OpOthersStay DEF SessionType

LEMMA SetUprobeSession ==
    ASSUME SessionInv, NEW b \in Backends, NEW s \in Symbols, NEW t \in Types,
           NEW f \in BOOLEAN, SetUprobe(b, s, t, f)
    PROVE  SessionInv'
<1> USE DEF SessionInv
<1>0. /\ OpAt(b) /\ pc[b] = "idle" /\ op[b] = NoOp /\ ~latch[b] /\ UNCHANGED latch /\ ~Has(b, s)
  BY DEF OpInv, OpAt, SetUprobe, Armed
<1>1. CASE f
  <2> DEFINE o == [NoOp EXCEPT !.name = "set", !.symbol = s, !.kind = t]
  <2>1. /\ o \in OpSet /\ o.name = "set" /\ o.current = NoSymbol /\ o.todo = {}
        /\ o.symbol = s /\ o.kind = t /\ o.flag = FALSE /\ o # NoOp
    BY DEF NoOp, OpSet
  <2>2. op' = [op EXCEPT ![b] = o] /\ Goto(b, "putNew") /\ UNCHANGED probes
    BY <1>1 DEF SetUprobe
  <2> HIDE DEF o
  <2>3. SessionType'
    BY <1>0, <2>1, <2>2 DEF SessionType, Goto, Places, Putting
  <2>4. OpAt(b)'
    <3>1. pc'[b] = "putNew" /\ op'[b] = o /\ ~latch'[b] /\ ~Has(b, s)'
      BY <1>0, <2>2 DEF SessionType, Goto, Has
    <3>2. QED
      BY <2>1, <3>1 DEF OpAt
  <2>5. \A c \in Backends \ {b} : Stays(c) /\ (latch'[c] => latch[c] \/ pc[c] \in Armed)
    BY <1>0, <2>2 DEF Stays, Goto, SessionType
  <2>6. QED
    BY <2>3, <2>4, <2>5, OpOthersStay
<1>2. CASE ~f
  <2>1. SetProbe(b, s, NewProbe(t, FALSE)) /\ UNCHANGED <<op, pc>>
    BY <1>2 DEF SetUprobe
  <2>2. NewProbe(t, FALSE) \in Probe
    BY DEF NewProbe, Probe
  <2>3. /\ probes' \in [Backends -> [Symbols -> Probe \cup {NoProbe}]]
        /\ \A c \in Backends \ {b} : probes'[c] = probes[c]
    BY <2>1, <2>2 DEF SetProbe, SessionType
  <2>4. OpAt(b)'
    <3>1. op'[b].name = "none" /\ op'[b].todo = {} /\ op'[b].current = NoSymbol
      BY <1>0, <2>1 DEF NoOp
    <3>2. QED
      BY <1>0, <2>1, <3>1 DEF OpAt
  <2>5. \A c \in Backends \ {b} : Stays(c) /\ (latch'[c] => latch[c] \/ pc[c] \in Armed)
    BY <1>0, <2>1, <2>3 DEF Stays
  <2>6. QED
    BY <1>0, <2>1, <2>3, <2>4, <2>5, OpOthersStay DEF SessionType
<1>3. QED
  BY <1>1, <1>2

LEMMA DeleteUprobeSession ==
    ASSUME SessionInv, NEW b \in Backends, NEW s \in Symbols, NEW f \in BOOLEAN,
           DeleteUprobe(b, s, f)
    PROVE  SessionInv'
<1> USE DEF SessionInv
<1>0. /\ OpAt(b) /\ pc[b] = "idle" /\ op[b] = NoOp /\ ~latch[b] /\ UNCHANGED latch
      /\ SetProbe(b, s, NoProbe)
  BY DEF OpInv, OpAt, DeleteUprobe, Armed
<1>1. /\ probes' \in [Backends -> [Symbols -> Probe \cup {NoProbe}]]
      /\ \A c \in Backends \ {b} : probes'[c] = probes[c]
      /\ probes'[b][s] = NoProbe
      /\ \A r \in Symbols \ {s} : probes'[b][r] = probes[b][r]
  BY <1>0 DEF SetProbe, SessionType
<1>2. Shared(b)' = Shared(b) \ {s} /\ ~Has(b, s)'
  BY <1>1 DEF Shared, Has
<1>3. CASE s \in Shared(b)
  <2> DEFINE o == [NoOp EXCEPT !.name = "delete", !.symbol = s, !.flag = f,
                               !.todo = Shared(b) \ {s}]
  <2>1. /\ o \in OpSet /\ o.name = "delete" /\ o.current = NoSymbol
        /\ o.todo = Shared(b) \ {s} /\ o.symbol = s
    BY SharedType DEF NoOp, OpSet
  <2>2. op' = [op EXCEPT ![b] = o] /\ Goto(b, "send")
    BY <1>3 DEF DeleteUprobe
  <2> HIDE DEF o
  <2>3. QED
    BY <1>0, <1>1, <1>2, <2>1, <2>2, StartSending
<1>4. CASE s \notin Shared(b)
  <2>1. UNCHANGED <<op, pc>>
    BY <1>4 DEF DeleteUprobe
  <2>2. OpAt(b)'
    <3>1. op'[b].name = "none" /\ op'[b].todo = {} /\ op'[b].current = NoSymbol
      BY <1>0, <2>1 DEF NoOp
    <3>2. QED
      BY <1>0, <2>1, <3>1 DEF OpAt
  <2>3. \A c \in Backends \ {b} : Stays(c) /\ (latch'[c] => latch[c] \/ pc[c] \in Armed)
    BY <1>0, <1>1, <2>1 DEF Stays
  <2>4. QED
    BY <1>0, <1>1, <2>1, <2>2, <2>3, OpOthersStay DEF SessionType
<1>5. QED
  BY <1>3, <1>4

LEMMA SendNextSession ==
    ASSUME SessionInv, NEW b \in Backends, SendNext(b)
    PROVE  SessionInv'
<1> USE DEF SessionInv
<1>1. PICK s \in Busy(b) :
          /\ op' = [op EXCEPT ![b].todo = @ \ {s}, ![b].current = s,
                              ![b].left = probes[b][s].count]
          /\ IF probes[b][s].type = "TIME"
             THEN probes' = [probes EXCEPT ![b][s].count = 0]
             ELSE UNCHANGED probes
  BY DEF SendNext
<1>2. /\ OpAt(b) /\ pc[b] = "send" /\ Goto(b, "putData") /\ UNCHANGED latch
      /\ op[b] \in OpSet /\ ~latch[b]
  BY DEF SendNext, OpInv, OpAt, SessionType, Armed
<1>3. s \in op[b].todo /\ s \in Shared(b) /\ s \in Symbols /\ probes[b][s] \in Probe
  <2>1. s \in op[b].todo /\ s \in Shared(b)
    BY <1>1, <1>2 DEF Busy, OpAt
  <2>2. s \in Symbols /\ Has(b, s)
    BY <2>1 DEF Shared
  <2>3. QED
    BY <2>1, <2>2 DEF Has, SessionType
<1>4. /\ probes' \in [Backends -> [Symbols -> Probe \cup {NoProbe}]]
      /\ \A c \in Backends \ {b} : probes'[c] = probes[c]
      /\ \A r \in Symbols \ {s} : probes'[b][r] = probes[b][r]
      /\ probes'[b][s] \in Probe
      /\ probes'[b][s].type = probes[b][s].type /\ probes'[b][s].shared = probes[b][s].shared
      /\ probes[b][s].type = "TIME" => probes'[b][s].count = 0
  <2>1. CASE probes[b][s].type = "TIME"
    BY <1>1, <1>3, <2>1, CountChanged
  <2>2. CASE probes[b][s].type # "TIME"
    BY <1>1, <1>3, <2>2 DEF SessionType, Probe
  <2>3. QED
    BY <2>1, <2>2
<1>5. \A r \in Symbols : Has(b, r)' = Has(b, r)
  <2>1. Has(b, s) /\ Has(b, s)'
    BY <1>3, <1>4, SharedUprobesAssumption DEF Has
  <2>2. QED
    BY <1>4, <2>1 DEF Has
<1>6. Shared(b)' = Shared(b)
  BY <1>4, <1>5 DEF Shared
<1> DEFINE o == [op[b] EXCEPT !.todo = @ \ {s}, !.current = s, !.left = probes[b][s].count]
<1>7. /\ o \in OpSet /\ o.name = op[b].name /\ o.symbol = op[b].symbol /\ o.kind = op[b].kind
      /\ o.flag = op[b].flag /\ o.todo = op[b].todo \ {s} /\ o.current = s
  BY <1>2, <1>3 DEF OpSet, Probe
<1>8. op' \in [Backends -> OpSet] /\ op'[b] = o /\ \A c \in Backends \ {b} : op'[c] = op[c]
  BY <1>1, <1>2, <1>7 DEF SessionType
<1> HIDE DEF o
<1>9. SessionType'
  BY <1>2, <1>4, <1>8 DEF SessionType, Goto, Places, Putting
<1>10. OpAt(b)'
  <2>1. pc'[b] = "putData" /\ ~latch'[b]
    BY <1>2 DEF Goto, SessionType
  <2>2. /\ op[b].name \in {"dump", "delete", "tick", "exit"} /\ op[b].current = NoSymbol
        /\ \A r \in Shared(b) : r \in op[b].todo \/ probes[b][r].count = 0
    BY <1>2, <1>3, SharedUprobesAssumption DEF OpAt, Shared
  <2>3. o # NoOp
    BY <1>7, <2>2 DEF NoOp
  <2>4. \A r \in Shared(b)' : r \in o.todo \cup {o.current} \/ probes'[b][r].count = 0
    BY <1>4, <1>6, <1>7, <2>2 DEF Shared
  <2>5. o.todo \subseteq Shared(b)' /\ o.current \in Shared(b)' \ o.todo
    BY <1>2, <1>3, <1>6, <1>7 DEF OpAt
  <2>6. /\ o.name \in {"dump", "delete"} => o.symbol \in Symbols
        /\ o.name = "delete" => ~Has(b, op[b].symbol)'
    <3>1. /\ o.name \in {"dump", "delete"} => o.symbol \in Symbols
          /\ o.name = "delete" => ~Has(b, o.symbol)
      BY <1>2, <1>7 DEF OpAt
    <3>2. QED
      BY <1>5, <1>8, <3>1
  <2>7. probes'[b][o.current].type = "TIME" => probes'[b][o.current].count = 0
    BY <1>4, <1>7
  <2>8. QED
    BY <1>7, <1>8, <2>1, <2>2, <2>3, <2>4, <2>5, <2>6, <2>7 DEF OpAt
<1>11. \A c \in Backends \ {b} : Stays(c) /\ (latch'[c] => latch[c] \/ pc[c] \in Armed)
  BY <1>2, <1>4, <1>8 DEF Stays, Goto, SessionType
<1>12. QED
  BY <1>9, <1>10, <1>11, OpOthersStay

LEMMA RemainSession ==
    ASSUME SessionInv, NEW b \in Backends, pc[b] = "putData", NEW n \in Nat, Remain(b, n),
           latch' \in [Backends -> BOOLEAN],
           \A c \in Backends : latch'[c] => latch[c] \/ (pc[c] \in Armed /\ c # b)
    PROVE  SessionInv'
<1> USE DEF SessionInv
<1>1. OpAt(b) /\ op[b] \in OpSet /\ ~latch'[b]
  BY DEF OpInv, OpAt, SessionType, Armed
<1>2. PICK s : s = op[b].current
  OBVIOUS
<1>3. s \in Shared(b) \ op[b].todo /\ s \in Symbols /\ probes[b][s] \in Probe
      /\ (probes[b][s].type = "TIME" => probes[b][s].count = 0)
  BY <1>1, <1>2 DEF OpAt, Shared, Has, SessionType
<1>4. op[b].name \in {"dump", "delete", "tick", "exit"}
  BY <1>1 DEF OpAt
<1>5. CASE n > 0
  <2> DEFINE o == [op[b] EXCEPT !.left = n]
  <2>1. op' = [op EXCEPT ![b].left = n] /\ UNCHANGED <<probes, pc>>
    BY <1>5 DEF Remain
  <2>2. /\ o \in OpSet /\ o.name = op[b].name /\ o.symbol = op[b].symbol /\ o.kind = op[b].kind
        /\ o.flag = op[b].flag /\ o.todo = op[b].todo /\ o.current = op[b].current
    BY <1>1 DEF OpSet
  <2>3. op' \in [Backends -> OpSet] /\ op'[b] = o /\ \A c \in Backends \ {b} : op'[c] = op[c]
    BY <2>1, <2>2 DEF SessionType
  <2> HIDE DEF o
  <2>4. op'[b] # NoOp
    BY <1>4, <2>2, <2>3 DEF NoOp
  <2>5. OpAt(b)'
    BY <1>1, <2>1, <2>2, <2>3, <2>4 DEF OpAt, Shared, Has
  <2>6. \A c \in Backends \ {b} : Stays(c) /\ (latch'[c] => latch[c] \/ pc[c] \in Armed)
    BY <2>1, <2>3 DEF Stays
  <2>7. QED
    BY <2>1, <2>3, <2>5, <2>6, OpOthersStay DEF SessionType
<1>6. CASE n = 0
  <2> DEFINE o == [op[b] EXCEPT !.current = NoSymbol, !.left = 0]
  <2>1. /\ op' = [op EXCEPT ![b].current = NoSymbol, ![b].left = 0] /\ Goto(b, "send")
        /\ probes' = [probes EXCEPT ![b][s].count = 0]
    BY <1>2, <1>6 DEF Remain
  <2>2. /\ o \in OpSet /\ o.name = op[b].name /\ o.symbol = op[b].symbol /\ o.kind = op[b].kind
        /\ o.flag = op[b].flag /\ o.todo = op[b].todo /\ o.current = NoSymbol
    BY <1>1 DEF OpSet
  <2>3. op' \in [Backends -> OpSet] /\ op'[b] = o /\ \A c \in Backends \ {b} : op'[c] = op[c]
    BY <2>1, <2>2 DEF SessionType
  <2> HIDE DEF o
  <2>4. op'[b] # NoOp
    BY <1>4, <2>2, <2>3 DEF NoOp
  <2>5. /\ probes' \in [Backends -> [Symbols -> Probe \cup {NoProbe}]]
        /\ \A c \in Backends \ {b} : probes'[c] = probes[c]
        /\ \A r \in Symbols \ {s} : probes'[b][r] = probes[b][r]
        /\ probes'[b][s] \in Probe
        /\ probes'[b][s].shared = probes[b][s].shared
        /\ probes'[b][s].count = 0
    BY <1>3, <2>1, CountChanged
  <2>6. \A r \in Symbols : Has(b, r)' = Has(b, r)
    <3>1. Has(b, s) /\ Has(b, s)'
      BY <1>3, <2>5, SharedUprobesAssumption DEF Has
    <3>2. QED
      BY <2>5, <3>1 DEF Has
  <2>7. Shared(b)' = Shared(b)
    BY <2>5, <2>6 DEF Shared
  <2>8. OpAt(b)'
    <3>1. pc'[b] = "send"
      BY <2>1 DEF Goto, SessionType
    <3>2. \A r \in Shared(b)' : r \in op'[b].todo \/ probes'[b][r].count = 0
      BY <1>1, <1>2, <1>4, <2>2, <2>3, <2>5, <2>7, SharedType DEF OpAt
    <3>3. /\ op'[b].name \in {"dump", "delete"} => op'[b].symbol \in Symbols
          /\ op'[b].name = "delete" => ~Has(b, op[b].symbol)'
      <4>1. /\ op[b].name \in {"dump", "delete"} => op[b].symbol \in Symbols
            /\ op[b].name = "delete" => ~Has(b, op[b].symbol)
        BY <1>1 DEF OpAt
      <4>2. QED
        BY <2>2, <2>3, <2>6, <4>1
    <3>4. op'[b].todo \subseteq Shared(b)' /\ op'[b].current = NoSymbol
      BY <1>1, <2>2, <2>3, <2>7 DEF OpAt
    <3>5. QED
      BY <1>1, <1>4, <2>2, <2>3, <2>4, <3>1, <3>2, <3>3, <3>4 DEF OpAt
  <2>9. \A c \in Backends \ {b} : Stays(c) /\ (latch'[c] => latch[c] \/ pc[c] \in Armed)
    BY <2>1, <2>3, <2>5 DEF Stays, Goto, SessionType
  <2>10. QED
    BY <2>1, <2>3, <2>5, <2>8, <2>9, OpOthersStay DEF SessionType, Goto, Places
<1>7. QED
  BY <1>5, <1>6

\* The data of a probe are of its type.
LEMMA DataMessage ==
    ASSUME SessionInv, NEW b \in Backends, pc[b] = "putData",
           NEW k \in 1 .. op[b].left
    PROVE  LET s == op[b].current
           IN  /\ s \in Symbols /\ s \in Shared(b) /\ probes[b][s] \in Probe
               /\ op[b].left \in Nat /\ k \in Nat /\ op[b].left - k \in Nat
               /\ [type |-> "CUSTOM", kind |-> probes[b][s].type, from |-> b, n |-> k] \in Message
<1>1. op[b].current \in Shared(b) /\ op[b].left \in Nat
  BY DEF SessionInv, OpInv, OpAt, SessionType, OpSet
<1>2. op[b].current \in Symbols /\ probes[b][op[b].current] \in Probe
  BY <1>1 DEF Shared, Has, SessionInv, SessionType
<1>3. probes[b][op[b].current].type \in Types
  BY <1>2 DEF Probe
<1>4. QED
  BY <1>1, <1>2, <1>3, MadeMessages

LEMMA PutDataSession ==
    ASSUME SessionInv, ChannelType, NEW b \in Backends, PutData(b)
    PROVE  SessionInv'
<1>1. pc[b] = "putData"
  BY DEF PutData
<1>2. CASE Remain(b, 0) /\ UNCHANGED latch
  <2>1. \A c \in Backends : latch'[c] => latch[c] \/ (pc[c] \in Armed /\ c # b)
    BY <1>2
  <2>2. latch' \in [Backends -> BOOLEAN]
    BY <1>2 DEF SessionInv, SessionType
  <2>3. QED
    BY <1>1, <1>2, <2>1, <2>2, RemainSession
<1>3. ASSUME NEW k \in 1 .. op[b].left,
             Stored(b, op[b].current, [type |-> "CUSTOM", kind |-> probes[b][op[b].current].type,
                                       from |-> b, n |-> k]),
             Remain(b, op[b].left - k)
      PROVE  SessionInv'
  <2>1. op[b].left - k \in Nat
    BY <1>1, DataMessage
  <2>2. Wake(b)
    BY <1>3 DEF Stored
  <2>3. /\ latch' \in [Backends -> BOOLEAN]
        /\ \A c \in Backends : latch'[c] => latch[c] \/ (pc[c] \in Armed /\ c # b)
    BY <2>2, WakeSets DEF SessionInv, SessionType
  <2>4. QED
    BY <1>1, <1>3, <2>1, <2>3, RemainSession
<1>4. QED
  BY <1>2, <1>3 DEF PutData

LEMMA FinishSession ==
    ASSUME SessionInv, NEW b \in Backends, Finish(b), pc[b] # "away",
           probes' \in [Backends -> [Symbols -> Probe \cup {NoProbe}]],
           \A c \in Backends \ {b} : probes'[c] = probes[c]
    PROVE  SessionInv'
<1> USE DEF SessionInv
<1>1. NoOp \in OpSet /\ NoOp.name = "none" /\ NoOp.todo = {} /\ NoOp.current = NoSymbol
  BY DEF NoOp, OpSet
<1>2. SessionType'
  BY <1>1 DEF SessionType, Finish, Goto, Places
<1>3. OpAt(b)'
  <2>1. pc'[b] = "idle" /\ op'[b] = NoOp /\ ~latch'[b]
    BY DEF Finish, Goto, SessionType
  <2>2. QED
    BY <1>1, <2>1 DEF OpAt
<1>4. \A c \in Backends \ {b} : Stays(c) /\ (latch'[c] => latch[c] \/ pc[c] \in Armed)
  BY DEF Stays, Finish, Goto, SessionType
<1>5. QED
  BY <1>2, <1>3, <1>4, OpOthersStay

\* A step on that leaves the function as it is.
LEMMA GotoSession ==
    ASSUME SessionInv, NEW b \in Backends, NEW l \in Places, Goto(b, l),
           pc[b] \notin {"away", "idle"}, l \notin {"away", "idle", "send", "putData", "putNew"},
           pc[b] # "putData",
           l = "save" => op[b].name = "set",
           l \in {"putDelete", "unsave"} => op[b].name \in {"set", "delete"},
           l = "putWrite" => op[b].name = "dump",
           l = "wait" => op[b].name = "dump" \/ (op[b].name = "delete" /\ op[b].flag),
           l # "save" /\ op[b].name # "set" => \A s \in Shared(b) : probes[b][s].count = 0,
           UNCHANGED <<op, probes>>, latch' \in [Backends -> BOOLEAN],
           latch'[b] => l \in Armed,
           \A c \in Backends \ {b} : latch'[c] => latch[c] \/ pc[c] \in Armed
    PROVE  SessionInv'
<1> USE DEF SessionInv
<1>1. SessionType'
  BY DEF SessionType, Goto
<1>2. pc'[b] = l /\ OpAt(b) /\ op[b] # NoOp
  BY DEF SessionType, Goto, OpInv, OpAt
<1>3. OpAt(b)'
  BY <1>2 DEF OpAt, Shared, Has
<1>4. \A c \in Backends \ {b} : Stays(c) /\ (latch'[c] => latch[c] \/ pc[c] \in Armed)
  BY DEF Stays, Goto, SessionType
<1>5. QED
  BY <1>1, <1>3, <1>4, OpOthersStay

LEMMA SendDoneSession ==
    ASSUME SessionInv, NEW b \in Backends, SendDone(b)
    PROVE  SessionInv'
<1> USE DEF SessionInv
<1>1. /\ OpAt(b) /\ pc[b] = "send" /\ Busy(b) = {} /\ op[b] \in OpSet /\ ~latch[b]
      /\ op[b].name \in {"dump", "delete", "tick", "exit"} /\ op[b].current = NoSymbol
  BY DEF SendDone, OpInv, OpAt, SessionType, Armed
<1>2. \A s \in Shared(b) : probes[b][s].count = 0
  <2>1. ASSUME NEW s \in Shared(b), probes[b][s].count # 0
        PROVE  FALSE
    <3>1. s \in Symbols /\ probes[b][s] \in Probe
      BY DEF Shared, Has, SessionType
    <3>2. probes[b][s].count > 0
      BY <2>1, <3>1 DEF Probe
    <3>3. s \in op[b].todo
      BY <1>1, <2>1, <3>1, SharedUprobesAssumption DEF OpAt
    <3>4. s \in Busy(b)
      BY <3>2, <3>3 DEF Busy
    <3>5. QED
      BY <1>1, <3>4
  <2>2. QED
    BY <2>1
<1>3. CASE op[b].name = "dump"
  <2>1. Goto(b, "putWrite") /\ UNCHANGED <<op, probes>> /\ latch' = [latch EXCEPT ![b] = FALSE]
    BY <1>3 DEF SendDone
  <2>2. QED
    BY <1>1, <1>2, <1>3, <2>1, GotoSession DEF SessionType, Armed, Places, Putting
<1>4. CASE op[b].name = "delete"
  <2>1. /\ Goto(b, "putDelete") /\ UNCHANGED <<op, probes>>
        /\ latch' = IF op[b].flag THEN [latch EXCEPT ![b] = FALSE] ELSE latch
    BY <1>4 DEF SendDone
  <2>2. latch' \in [Backends -> BOOLEAN] /\ \A c \in Backends : latch'[c] => latch[c]
    BY <2>1 DEF SessionType
  <2>3. QED
    BY <1>1, <1>2, <1>4, <2>1, <2>2, GotoSession DEF Armed, Places, Putting
<1>5. CASE op[b].name = "tick"
  <2>1. /\ Goto(b, "idle") /\ op' = [op EXCEPT ![b] = NoOp] /\ UNCHANGED <<latch, probes>>
    BY <1>5 DEF SendDone
  <2>2. latch' = [latch EXCEPT ![b] = FALSE]
    BY <1>1, <2>1 DEF SessionType
  <2>3. Finish(b)
    BY <2>1, <2>2 DEF Finish
  <2>4. QED
    BY <1>1, <2>1, <2>3, FinishSession DEF SessionType
<1>6. CASE op[b].name = "exit"
  <2>1. /\ Goto(b, "away") /\ op' = [op EXCEPT ![b] = NoOp] /\ UNCHANGED latch
        /\ probes' = [probes EXCEPT ![b] = [s \in Symbols |-> NoProbe]]
    BY <1>6 DEF SendDone
  <2>2. NoOp \in OpSet /\ NoOp.name = "none" /\ NoOp.todo = {} /\ NoOp.current = NoSymbol
    BY DEF NoOp, OpSet
  <2>3. SessionType'
    BY <2>1, <2>2 DEF SessionType, Goto, Places
  <2>4. OpAt(b)'
    <3>1. /\ pc'[b] = "away" /\ op'[b] = NoOp /\ ~latch'[b]
          /\ \A s \in Symbols : ~Has(b, s)'
      BY <1>1, <2>1 DEF Goto, SessionType, Has
    <3>2. QED
      BY <2>2, <3>1 DEF OpAt
  <2>5. \A c \in Backends \ {b} : Stays(c) /\ (latch'[c] => latch[c] \/ pc[c] \in Armed)
    BY <2>1 DEF Stays, Goto, SessionType
  <2>6. QED
    BY <2>3, <2>4, <2>5, OpOthersStay
<1>7. QED
  BY <1>1, <1>3, <1>4, <1>5, <1>6

LEMMA NewMessage ==
    ASSUME SessionInv, NEW b \in Backends, pc[b] = "putNew"
    PROVE  /\ op[b].symbol \in Symbols /\ op[b].kind \in Types
           /\ [type |-> "NEW", kind |-> op[b].kind] \in Message
<1>1. op[b].symbol \in Symbols /\ op[b].kind \in Types
  BY DEF SessionInv, OpInv, OpAt
<1>2. QED
  BY <1>1, MadeMessages

LEMMA RequestMessage ==
    ASSUME SessionInv, NEW b \in Backends, pc[b] \in {"putWrite", "putDelete"}
    PROVE  /\ op[b].symbol \in Symbols /\ op[b].flag \in BOOLEAN
           /\ [type |-> "WRITE", from |-> b, flag |-> op[b].flag] \in Message
           /\ [type |-> "DELETE", from |-> b, flag |-> op[b].flag] \in Message
<1>1. op[b].symbol \in Symbols
  BY DEF SessionInv, OpInv, OpAt
<1>2. op[b].flag \in BOOLEAN
  BY DEF SessionInv, SessionType, OpSet
<1>3. QED
  BY <1>1, <1>2, MadeMessages

LEMMA PutSession ==
    ASSUME SessionInv, ChannelType, NEW b \in Backends,
           PutNew(b) \/ PutWrite(b) \/ PutDelete(b)
    PROVE  SessionInv'
<1>1. OpAt(b)
  BY DEF SessionInv, OpInv
<1>2. CASE PutNew(b)
  <2>1. /\ pc[b] = "putNew" /\ Goto(b, "save") /\ UNCHANGED <<op, probes>>
        /\ Put(b, op[b].symbol, [type |-> "NEW", kind |-> op[b].kind])
    BY <1>2 DEF PutNew
  <2>2. /\ latch' \in [Backends -> BOOLEAN]
        /\ \A c \in Backends : latch'[c] => latch[c] \/ (pc[c] \in Armed /\ c # b)
    BY <2>1, NewMessage, PutSets DEF SessionInv, SessionType
  <2>3. op[b].name = "set" /\ ~latch'[b]
    BY <1>1, <2>1, <2>2 DEF OpAt, Armed
  <2>4. QED
    BY <2>1, <2>2, <2>3, GotoSession DEF Places
<1>3. CASE PutWrite(b)
  <2>1. /\ pc[b] = "putWrite" /\ Goto(b, "wait") /\ UNCHANGED <<op, probes>>
        /\ Put(b, op[b].symbol, [type |-> "WRITE", from |-> b, flag |-> op[b].flag])
    BY <1>3 DEF PutWrite
  <2>2. /\ latch' \in [Backends -> BOOLEAN]
        /\ \A c \in Backends : latch'[c] => latch[c] \/ (pc[c] \in Armed /\ c # b)
    BY <2>1, RequestMessage, PutSets DEF SessionInv, SessionType
  <2>3. op[b].name = "dump" /\ \A s \in Shared(b) : probes[b][s].count = 0
    BY <1>1, <2>1 DEF OpAt
  <2>4. QED
    BY <2>1, <2>2, <2>3, GotoSession DEF Places, Armed
<1>4. CASE PutDelete(b)
  <2>1. /\ pc[b] = "putDelete" /\ Goto(b, "unsave") /\ UNCHANGED <<op, probes>>
        /\ Put(b, op[b].symbol, [type |-> "DELETE", from |-> b, flag |-> op[b].flag])
    BY <1>4 DEF PutDelete
  <2>2. /\ latch' \in [Backends -> BOOLEAN]
        /\ \A c \in Backends : latch'[c] => latch[c] \/ (pc[c] \in Armed /\ c # b)
    BY <2>1, RequestMessage, PutSets DEF SessionInv, SessionType
  <2>3. /\ op[b].name \in {"set", "delete"}
        /\ op[b].name # "set" => \A s \in Shared(b) : probes[b][s].count = 0
    BY <1>1, <2>1 DEF OpAt
  <2>4. QED
    BY <2>1, <2>2, <2>3, GotoSession DEF Places, Armed
<1>5. QED
  BY <1>2, <1>3, <1>4

LEMMA SaveSession ==
    ASSUME SessionInv, NEW b \in Backends, SaveInConfig(b)
    PROVE  SessionInv'
<1>1. OpAt(b) /\ pc[b] = "save" /\ op[b].name = "set" /\ ~latch[b]
      /\ op[b].kind \in Types /\ op[b].symbol \in Symbols
  BY DEF SessionInv, OpInv, OpAt, SaveInConfig, Armed
<1>2. CASE SetProbe(b, op[b].symbol, NewProbe(op[b].kind, TRUE)) /\ Finish(b)
  <2>1. NewProbe(op[b].kind, TRUE) \in Probe
    BY <1>1 DEF NewProbe, Probe
  <2>2. /\ probes' \in [Backends -> [Symbols -> Probe \cup {NoProbe}]]
        /\ \A c \in Backends \ {b} : probes'[c] = probes[c]
    BY <1>1, <1>2, <2>1 DEF SetProbe, SessionInv, SessionType
  <2>3. QED
    BY <1>1, <1>2, <2>2, FinishSession
<1>3. CASE Goto(b, "putDelete") /\ UNCHANGED <<probes, op, latch>>
  BY <1>1, <1>3, GotoSession DEF Places, Putting, SessionInv, SessionType
<1>4. QED
  BY <1>2, <1>3 DEF SaveInConfig

LEMMA DeleteFromConfigSession ==
    ASSUME SessionInv, NEW b \in Backends, DeleteFromConfig(b)
    PROVE  SessionInv'
<1>1. OpAt(b) /\ pc[b] = "unsave" /\ UNCHANGED probes /\ op[b].flag \in BOOLEAN
  BY DEF SessionInv, OpInv, DeleteFromConfig, SessionType, OpSet
<1>2. CASE Finish(b)
  BY <1>1, <1>2, FinishSession DEF SessionInv, SessionType
<1>3. CASE op[b].flag /\ Goto(b, "wait") /\ UNCHANGED <<op, latch>>
  <2>1. op[b].name = "delete" /\ \A s \in Shared(b) : probes[b][s].count = 0
    BY <1>1, <1>3 DEF OpAt
  <2>2. QED
    BY <1>1, <1>3, <2>1, GotoSession DEF Places, Armed, SessionInv, SessionType
<1>4. QED
  BY <1>2, <1>3 DEF DeleteFromConfig

LEMMA EndSession ==
    ASSUME SessionInv, NEW b \in Backends, WaitLatch(b) \/ Abort(b)
    PROVE  SessionInv'
<1>1. pc[b] # "away" /\ Finish(b) /\ UNCHANGED probes
  BY DEF WaitLatch, Abort, Putting
<1>2. QED
  BY <1>1, FinishSession DEF SessionInv, SessionType

\* The steps of the collector change nothing but latches.
CollectorStep == TakeBatch \/ Process \/ Stop \/ CollectorFails \/ StartStatCollector

LEMMA CollectorSession ==
    ASSUME SessionInv, CollectorStep
    PROVE  SessionInv' /\ UNCHANGED <<probes, pc, op>>
<1> USE DEF SessionInv
<1>1. /\ UNCHANGED <<probes, pc, op>>
      /\ latch' \in [Backends -> BOOLEAN]
      /\ \A c \in Backends : latch'[c] => latch[c] \/ pc[c] \in Armed
  <2>1. CASE TakeBatch
    BY <2>1, WakeSets DEF TakeBatch, SessionType
  <2>2. CASE Process
    <3>1. \A c \in Backends : latch[c] \in BOOLEAN
      BY DEF SessionType
    <3>2. QED
      BY <2>2, <3>1 DEF Process
  <2>3. CASE Stop
    BY <2>3, WakeSets DEF Stop, SessionType
  <2>4. CASE CollectorFails
    BY <2>4 DEF CollectorFails, SessionType
  <2>5. CASE StartStatCollector
    BY <2>5 DEF StartStatCollector, SessionType, backend
  <2>6. QED
    BY <2>1, <2>2, <2>3, <2>4, <2>5 DEF CollectorStep
<1>2. SessionType'
  BY <1>1 DEF SessionType
<1>3. OpInv'
  <2>1. ASSUME NEW c \in Backends PROVE OpAt(c)'
    BY <1>1, OpStays DEF OpInv, Stays
  <2>2. QED
    BY <2>1 DEF OpInv
<1>4. QED
  BY <1>1, <1>2, <1>3

LEMMA SessionStep ==
    ASSUME SessionInv, ChannelType, HistoryType, Next
    PROVE  SessionInv'
<1>1. ASSUME NEW b \in Backends, NEW s \in Symbols,
             Call(b, s) \/ (\E t \in Types, f \in BOOLEAN : SetUprobe(b, s, t, f))
                \/ (\E f \in BOOLEAN : DeleteUprobe(b, s, f))
      PROVE  SessionInv'
  BY <1>1, CallSession, SetUprobeSession, DeleteUprobeSession
<1>2. ASSUME NEW b \in Backends, BackendStep(b)
      PROVE  SessionInv'
  BY <1>2, SendNextSession, PutDataSession, SendDoneSession, PutSession, SaveSession,
     DeleteFromConfigSession, EndSession DEF BackendStep
<1>3. CASE CollectorStep
  BY <1>3, CollectorSession
<1>4. QED
  BY <1>1, <1>2, <1>3, ConnectSession, StartSession, EndSession DEF Next, CollectorStep

-----------------------------------------------------------------------------
\* Each message in transit but the names has the name of its symbol right before it,
\* in the queue or as the current symbol.

WellPaired(q) ==
    \A i \in DOMAIN q :
        /\ q[i].type = "SYMBOL" => i + 1 \in DOMAIN q /\ q[i + 1].type # "SYMBOL"
        /\ q[i].type # "SYMBOL" /\ i > 1 => q[i - 1].type = "SYMBOL"

StartsNamed(q) == q # <<>> => Head(q).type = "SYMBOL"

\* The pointer is the storage of the current symbol.
Fresh ==
    /\ currentSymbol \in Symbols
    /\ currentStorage = IF Present(currentSymbol) THEN "live" ELSE "null"

PairInv ==
    /\ WellPaired(batch) /\ WellPaired(queue)
    /\ StartsNamed(queue)
    /\ StartsNamed(batch) \/ Fresh

\* Where a collector failed there is nothing until the next one starts.
IdleWorker == worker = "failed" => batch = <<>> /\ \A s \in Symbols : ~Present(s)

Request == {m \in Message : m.type # "SYMBOL"}

Appends(s, m) == queue' = queue \o << [type |-> "SYMBOL", symbol |-> s], m >>

LEMMA AppendPaired ==
    ASSUME NEW q \in Seq(Message), WellPaired(q), StartsNamed(q),
           NEW s \in Symbols, NEW m \in Request
    PROVE  LET now == q \o << [type |-> "SYMBOL", symbol |-> s], m >>
           IN  now \in Seq(Message) /\ WellPaired(now) /\ StartsNamed(now)
<1> DEFINE a   == [type |-> "SYMBOL", symbol |-> s]
           now == q \o <<a, m>>
           n   == Len(q)
<1>1. a \in Message /\ a.type = "SYMBOL" /\ m \in Message /\ m.type # "SYMBOL"
  BY MadeMessages DEF Request
<1>2. /\ n \in Nat /\ DOMAIN q = 1 .. n
      /\ now \in Seq(Message) /\ now # <<>>
      /\ DOMAIN now = (1 .. n) \cup {n + 1, n + 2}
      /\ \A i \in 1 .. n : now[i] = q[i]
      /\ now[n + 1] = a
      /\ now[n + 2] = m
      /\ Head(now) = IF q = <<>> THEN a ELSE Head(q)
  <2> HIDE DEF a
  <2>1. QED
    BY <1>1, TwoAppended
<1> HIDE DEF a, n, now
<1>3. StartsNamed(now)
  BY <1>1, <1>2 DEF StartsNamed
<1>4. ASSUME NEW i \in DOMAIN now
      PROVE  /\ now[i].type = "SYMBOL" => i + 1 \in DOMAIN now /\ now[i + 1].type # "SYMBOL"
             /\ now[i].type # "SYMBOL" /\ i > 1 => now[i - 1].type = "SYMBOL"
  <2>1. CASE i \in 1 .. n
    <3>1. /\ q[i].type = "SYMBOL" => i + 1 \in 1 .. n /\ q[i + 1].type # "SYMBOL"
          /\ q[i].type # "SYMBOL" /\ i > 1 => i - 1 \in 1 .. n /\ q[i - 1].type = "SYMBOL"
      BY <1>2, <2>1 DEF WellPaired
    <3>2. QED
      BY <1>2, <2>1, <3>1
  <2>2. CASE i = n + 1
    <3>1. i + 1 = n + 2
      BY <1>2, <2>2
    <3>2. QED
      BY <1>1, <1>2, <2>2, <3>1
  <2>3. CASE i = n + 2
    <3>1. i - 1 = n + 1
      BY <1>2, <2>3
    <3>2. QED
      BY <1>1, <1>2, <2>3, <3>1
  <2>4. QED
    BY <1>2, <2>1, <2>2, <2>3
<1>5. QED
  BY <1>2, <1>3, <1>4 DEF WellPaired, now, a

LEMMA TailPaired ==
    ASSUME NEW q \in Seq(Message), WellPaired(q), q # <<>>
    PROVE  /\ WellPaired(Tail(q))
           /\ Head(q).type # "SYMBOL" => StartsNamed(Tail(q))
<1> DEFINE t == Tail(q)
           n == Len(q)
<1>1. /\ n \in Nat \ {0} /\ DOMAIN q = 1 .. n /\ t \in Seq(Message)
      /\ DOMAIN t = 1 .. n - 1
      /\ \A i \in 1 .. n - 1 : t[i] = q[i + 1] /\ i + 1 \in DOMAIN q
      /\ Head(q) = q[1]
  BY OneTaken
<1>2. t # <<>> => Head(t) = t[1] /\ 1 \in DOMAIN t
  BY <1>1, OneTaken
<1> HIDE DEF t, n
<1>3. ASSUME NEW i \in DOMAIN t
      PROVE  /\ t[i].type = "SYMBOL" => i + 1 \in DOMAIN t /\ t[i + 1].type # "SYMBOL"
             /\ t[i].type # "SYMBOL" /\ i > 1 => t[i - 1].type = "SYMBOL"
  <2>1. i \in 1 .. n - 1 /\ i \in Nat /\ i + 1 \in 1 .. n /\ t[i] = q[i + 1]
    BY <1>1
  <2>2. ASSUME t[i].type = "SYMBOL"
        PROVE  i + 1 \in DOMAIN t /\ t[i + 1].type # "SYMBOL"
    <3>1. (i + 1) + 1 \in 1 .. n /\ q[(i + 1) + 1].type # "SYMBOL"
      BY <1>1, <2>1, <2>2 DEF WellPaired
    <3>2. i + 1 \in 1 .. n - 1
      BY <1>1, <2>1, <3>1
    <3>3. QED
      BY <1>1, <3>1, <3>2
  <2>3. ASSUME t[i].type # "SYMBOL", i > 1
        PROVE  t[i - 1].type = "SYMBOL"
    <3>1. q[(i + 1) - 1].type = "SYMBOL"
      BY <1>1, <2>1, <2>3 DEF WellPaired
    <3>2. i - 1 \in 1 .. n - 1 /\ (i - 1) + 1 = (i + 1) - 1
      BY <1>1, <2>1, <2>3
    <3>3. QED
      BY <1>1, <3>1, <3>2
  <2>4. QED
    BY <2>2, <2>3
<1>4. ASSUME Head(q).type # "SYMBOL"
      PROVE  StartsNamed(t)
  <2>1. SUFFICES ASSUME t # <<>> PROVE Head(t).type = "SYMBOL"
    BY DEF StartsNamed
  <2>2. Head(t) = q[2] /\ 2 \in DOMAIN q
    BY <1>1, <1>2, <2>1
  <2>3. q[2].type # "SYMBOL" => q[1].type = "SYMBOL"
    <3>1. 2 > 1 /\ 2 - 1 = 1
      OBVIOUS
    <3>2. q[2].type # "SYMBOL" => q[2 - 1].type = "SYMBOL"
      BY <2>2, <3>1 DEF WellPaired
    <3>3. QED
      BY <3>1, <3>2
  <2>4. QED
    BY <1>1, <1>4, <2>2, <2>3
<1>5. QED
  BY <1>3, <1>4 DEF WellPaired, t

\* What a step does to the messages in transit.
LEMMA ChannelSteps ==
    ASSUME SessionInv, ChannelType, Next
    PROVE  \/ TakeBatch \/ Process \/ Stop \/ CollectorFails
           \/ /\ UNCHANGED batch
              /\ UNCHANGED queue \/ \E s \in Symbols, m \in Request : Appends(s, m)
              /\ StartStatCollector \/ UNCHANGED <<closed, worker, storages, currentSymbol, currentStorage>>
<1>1. ASSUME NEW b \in Backends, PutData(b)
      PROVE  /\ UNCHANGED <<batch, closed, worker, storages, currentSymbol, currentStorage>>
             /\ UNCHANGED queue \/ \E s \in Symbols, m \in Request : Appends(s, m)
  <2>1. pc[b] = "putData" /\ UNCHANGED <<batch, closed, worker, storages, currentSymbol, currentStorage>>
    BY <1>1 DEF PutData
  <2>2. ASSUME NEW k \in 1 .. op[b].left,
               Stored(b, op[b].current, [type |-> "CUSTOM", kind |-> probes[b][op[b].current].type,
                                         from |-> b, n |-> k])
        PROVE  \E s \in Symbols, m \in Request : Appends(s, m)
    BY <2>1, <2>2, DataMessage DEF Stored, Appends, Request
  <2>3. QED
    BY <1>1, <2>1, <2>2 DEF PutData
<1>2. ASSUME NEW b \in Backends, PutNew(b) \/ PutWrite(b) \/ PutDelete(b)
      PROVE  /\ UNCHANGED <<batch, closed, worker, storages, currentSymbol, currentStorage>>
             /\ UNCHANGED queue \/ \E s \in Symbols, m \in Request : Appends(s, m)
  <2>1. CASE PutNew(b)
    BY <2>1, NewMessage DEF PutNew, Put, Stored, Appends, Request, collector
  <2>2. CASE PutWrite(b)
    BY <2>2, RequestMessage DEF PutWrite, Put, Stored, Appends, Request, collector
  <2>3. CASE PutDelete(b)
    BY <2>3, RequestMessage DEF PutDelete, Put, Stored, Appends, Request, collector
  <2>4. QED
    BY <1>2, <2>1, <2>2, <2>3
<1>3. ASSUME NEW b \in Backends,
             \/ Connect(b) \/ Disconnect(b) \/ TimedStatSend(b)
             \/ \E s \in Symbols :
                   \/ Call(b, s)
                   \/ \E t \in Types, f \in BOOLEAN : SetUprobe(b, s, t, f)
                   \/ \E f \in BOOLEAN : DeleteUprobe(b, s, f) \/ DumpUprobeStat(b, s, f)
             \/ SendNext(b) \/ SendDone(b) \/ SaveInConfig(b) \/ DeleteFromConfig(b)
             \/ WaitLatch(b) \/ Abort(b)
      PROVE  UNCHANGED <<batch, queue, closed, worker, storages, currentSymbol, currentStorage>>
  BY <1>3 DEF Connect, Disconnect, TimedStatSend, Call, SetUprobe, DeleteUprobe, DumpUprobeStat,
     SendNext, SendDone, SaveInConfig, DeleteFromConfig, WaitLatch, Abort, channel, collector
<1>4. CASE StartStatCollector
  BY <1>4 DEF StartStatCollector
<1>5. QED
  BY <1>1, <1>2, <1>3, <1>4 DEF Next, BackendStep

LEMMA ChannelStep ==
    ASSUME SessionInv, ChannelType, PairInv, IdleWorker, Next
    PROVE  ChannelType' /\ PairInv' /\ IdleWorker'
<1>0. <<>> \in Seq(Message) /\ WellPaired(<<>>) /\ StartsNamed(<<>>)
  <2>1. <<>> \in Seq(Message)
    OBVIOUS
  <2>2. QED
    BY <2>1 DEF WellPaired, StartsNamed
<1>1. CASE TakeBatch
  <2>1. /\ batch' = queue /\ queue' = <<>> /\ UNCHANGED <<closed, worker>> /\ worker # "failed"
    BY <1>1 DEF TakeBatch, Running
  <2>2. QED
    BY <1>0, <2>1 DEF ChannelType, PairInv, IdleWorker
<1>2. CASE Process
  <2>1. /\ batch # <<>> /\ batch' = Tail(batch) /\ UNCHANGED <<queue, closed, worker>>
        /\ worker # "failed" /\ ProcessOneMessage(Head(batch))
    BY <1>2 DEF Process, Running
  <2>2. batch' \in Seq(Message) /\ WellPaired(batch')
    BY <2>1, OneTaken, TailPaired DEF ChannelType, PairInv
  <2>3. StartsNamed(batch') \/ Fresh'
    <3>1. CASE Head(batch).type # "SYMBOL"
      BY <2>1, <3>1, TailPaired DEF ChannelType, PairInv
    <3>2. CASE Head(batch).type = "SYMBOL"
      <4>1. Head(batch) \in Message
        BY <2>1 DEF ChannelType
      <4>2. Head(batch).symbol \in Symbols /\ ProcessSymbol(Head(batch))
        BY <2>1, <3>2, <4>1, MessageTypes DEF ProcessOneMessage
      <4>3. QED
        BY <4>2 DEF ProcessSymbol, Fresh, Present
    <3>3. QED
      BY <3>1, <3>2
  <2>4. QED
    BY <2>1, <2>2, <2>3 DEF ChannelType, PairInv, IdleWorker
<1>3. CASE Stop \/ CollectorFails
  <2>1. /\ batch' = <<>> /\ UNCHANGED queue
        /\ storages' = [s \in Symbols |-> NoStorage]
        /\ closed' \in BOOLEAN /\ worker' \in {"first", "failed", "second"}
    BY <1>3 DEF Stop, CollectorFails, Ends, WriteAllAtExit, ChannelType
  <2>2. QED
    BY <1>0, <2>1 DEF ChannelType, PairInv, IdleWorker, Present
<1>4. CASE StartStatCollector
  <2>1. /\ worker = "failed" /\ worker' = "second" /\ UNCHANGED <<queue, batch, closed>>
    BY <1>4 DEF StartStatCollector
  <2>2. QED
    BY <1>0, <2>1 DEF ChannelType, PairInv, IdleWorker
<1>5. ASSUME UNCHANGED batch,
             UNCHANGED queue \/ \E s \in Symbols, m \in Request : Appends(s, m),
             UNCHANGED <<closed, worker, storages, currentSymbol, currentStorage>>
      PROVE  ChannelType' /\ PairInv' /\ IdleWorker'
  <2>1. queue' \in Seq(Message) /\ WellPaired(queue') /\ StartsNamed(queue')
    BY <1>5, AppendPaired DEF Appends, ChannelType, PairInv
  <2>2. QED
    BY <1>5, <2>1 DEF ChannelType, PairInv, IdleWorker, Fresh, Present
<1>6. QED
  BY <1>1, <1>2, <1>3, <1>4, <1>5, ChannelSteps

-----------------------------------------------------------------------------
\* Types of the rest.

LEMMA TransitType ==
    ASSUME ChannelType
    PROVE  /\ Transit \in Seq(Message)
           /\ IsFiniteSet(DOMAIN Transit) /\ IsFiniteSet(DOMAIN batch)
           /\ DOMAIN batch \subseteq DOMAIN Transit
           /\ \A i \in DOMAIN Transit : Transit[i] \in Message
<1>1. /\ Transit \in Seq(Message)
      /\ DOMAIN Transit = 1 .. Len(batch) + Len(queue)
      /\ DOMAIN batch = 1 .. Len(batch)
      /\ Len(batch) \in Nat /\ Len(queue) \in Nat
  BY DEF Transit, ChannelType
<1>2. IsFiniteSet(1 .. Len(batch) + Len(queue)) /\ IsFiniteSet(1 .. Len(batch))
  BY <1>1, FS_Interval
<1>3. QED
  BY <1>1, <1>2

LEMMA InBatchType ==
    ASSUME ChannelType, NEW b, NEW s
    PROVE  InBatch(b, s) \in Nat
<1> DEFINE D == Data(b, s) \cap DOMAIN batch
           F == [i \in D |-> Transit[i].n]
<1>1. IsFiniteSet(D)
  BY TransitType, FS_Subset
<1>2. \A i \in D : F[i] \in Nat
  <2>1. ASSUME NEW i \in D PROVE Transit[i].n \in Nat
    <3>1. i \in DOMAIN Transit /\ Transit[i].type = "CUSTOM"
      BY DEF Data
    <3>2. Transit[i] \in Message
      BY <3>1, TransitType
    <3>3. QED
      BY <3>1, <3>2, MessageTypes
  <2>2. QED
    BY <2>1
<1>3. InBatch(b, s) = SumOver(F, D)
  <2>1. InBatch(b, s) = FoldFunction(+, 0, F)
    BY DEF InBatch
  <2>2. DOMAIN F = D
    OBVIOUS
  <2> HIDE DEF F
  <2>3. QED
    BY <2>1, <2>2, SumOfFold
<1> HIDE DEF D, F
<1>4. QED
  BY <1>1, <1>2, <1>3, SumType

LEMMA MissType ==
    ASSUME missed \in [Symbols -> [Backends -> Int]], NEW s \in Symbols, NEW b \in Backends,
           NEW n \in Int, Miss(s, b, n)
    PROVE  /\ missed' \in [Symbols -> [Backends -> Int]]
           /\ missed'[s][b] = missed[s][b] + n
           /\ \A r \in Symbols, c \in Backends :
                 r # s \/ c # b => missed'[r][c] = missed[r][c]
  BY DEF Miss

LEMMA MissNothing ==
    ASSUME missed \in [Symbols -> [Backends -> Int]], NEW s, NEW b, s \notin Symbols, NEW n,
           Miss(s, b, n)
    PROVE  UNCHANGED missed
  BY DEF Miss

CollectorInv == CollectorTypeOK /\ ChannelType /\ PairInv /\ IdleWorker

\* Nothing but these steps changes what the collector keeps.
LEMMA CollectorKeeps ==
    ASSUME SessionInv, CollectorInv, Next
    PROVE  \/ UNCHANGED collector
           \/ Process
           \/ Stop \/ CollectorFails
           \/ StartStatCollector
           \/ /\ UNCHANGED <<storages, currentSymbol, currentStorage, reported>>
              /\ \E b \in Backends, s \in Symbols, n \in Int : Miss(s, b, n)
<1>1. ASSUME NEW b \in Backends, NEW s \in Symbols, NEW f \in BOOLEAN, DeleteUprobe(b, s, f)
      PROVE  /\ UNCHANGED <<storages, currentSymbol, currentStorage, reported>>
             /\ UNCHANGED missed \/ \E c \in Backends, r \in Symbols, n \in Int : Miss(r, c, n)
  <2>1. UNCHANGED <<storages, currentSymbol, currentStorage, reported>>
    BY <1>1 DEF DeleteUprobe
  <2>2. CASE s \in Shared(b)
    <3>1. probes[b][s] \in Probe
      BY <2>2 DEF Shared, Has, SessionInv, SessionType
    <3>2. probes[b][s].count \in Int
      BY <3>1 DEF Probe
    <3>3. Miss(s, b, probes[b][s].count)
      BY <1>1, <2>2 DEF DeleteUprobe
    <3>4. QED
      BY <2>1, <3>2, <3>3
  <2>3. CASE s \notin Shared(b)
    BY <1>1, <2>1, <2>3 DEF DeleteUprobe
  <2>4. QED
    BY <2>2, <2>3
<1>2. ASSUME NEW b \in Backends, PutData(b)
      PROVE  /\ UNCHANGED <<storages, currentSymbol, currentStorage, reported>>
             /\ UNCHANGED missed \/ \E c \in Backends, r \in Symbols, n \in Int : Miss(r, c, n)
  <2>1. op[b].current \in Shared(b) /\ op[b].left \in Int
    BY <1>2 DEF PutData, SessionInv, OpInv, OpAt, SessionType, OpSet
  <2>2. op[b].current \in Symbols
    BY <2>1, SharedType
  <2>3. QED
    BY <1>2, <2>1, <2>2 DEF PutData
<1>3. ASSUME NEW b \in Backends, Abort(b)
      PROVE  /\ UNCHANGED <<storages, currentSymbol, currentStorage, reported>>
             /\ UNCHANGED missed \/ \E c \in Backends, r \in Symbols, n \in Int : Miss(r, c, n)
  <2>1. UNCHANGED <<storages, currentSymbol, currentStorage, reported>>
    BY <1>3 DEF Abort
  <2>2. CASE pc[b] = "putData"
    <3>1. op[b].current \in Shared(b) /\ op[b].left \in Int
      BY <2>2 DEF SessionInv, OpInv, OpAt, SessionType, OpSet
    <3>2. op[b].current \in Symbols /\ probes[b][op[b].current] \in Probe
      BY <3>1 DEF Shared, Has, SessionInv, SessionType
    <3>3. probes[b][op[b].current].count \in Int
      BY <3>2 DEF Probe
    <3>4. /\ op[b].left - probes[b][op[b].current].count \in Int
          /\ \/ Miss(op[b].current, b, op[b].left)
             \/ Miss(op[b].current, b, op[b].left - probes[b][op[b].current].count)
      <4>1. Miss(op[b].current, b,
                IF probes[b][op[b].current].type = "TIME" THEN op[b].left
                ELSE op[b].left - probes[b][op[b].current].count)
        BY <1>3, <2>2 DEF Abort
      <4>2. CASE probes[b][op[b].current].type = "TIME"
        BY <3>1, <3>3, <4>1, <4>2
      <4>3. CASE probes[b][op[b].current].type # "TIME"
        BY <3>1, <3>3, <4>1, <4>3
      <4>4. QED
        BY <4>2, <4>3
    <3>5. QED
      BY <2>1, <3>1, <3>2, <3>4
  <2>3. CASE pc[b] # "putData"
    BY <1>3, <2>1, <2>3 DEF Abort
  <2>4. QED
    BY <2>2, <2>3
<1>4. ASSUME NEW b \in Backends,
             \/ Connect(b) \/ Disconnect(b) \/ TimedStatSend(b)
             \/ \E s \in Symbols :
                   \/ Call(b, s)
                   \/ \E t \in Types, f \in BOOLEAN : SetUprobe(b, s, t, f)
                   \/ \E f \in BOOLEAN : DumpUprobeStat(b, s, f)
             \/ SendNext(b) \/ SendDone(b) \/ PutNew(b) \/ SaveInConfig(b)
             \/ PutWrite(b) \/ PutDelete(b) \/ DeleteFromConfig(b) \/ WaitLatch(b)
      PROVE  UNCHANGED collector
  BY <1>4 DEF Connect, Disconnect, TimedStatSend, Call, SetUprobe, DumpUprobeStat,
     SendNext, SendDone, PutNew, SaveInConfig, PutWrite, PutDelete, DeleteFromConfig, WaitLatch
<1>5. CASE TakeBatch
  BY <1>5 DEF TakeBatch
<1>6. QED
  BY <1>1, <1>2, <1>3, <1>4, <1>5 DEF Next, BackendStep, collector

LEMMA PlusType ==
    /\ \A c, d \in Counts : Plus(c, d) \in Counts
    /\ \A c, d \in [Backends -> Int] : Plus(c, d) \in [Backends -> Int]
    /\ \A c \in Counts : c \in [Backends -> Int]
    /\ \A b \in Backends, n \in Nat : Only(b, n) \in Counts
    /\ Nothing \in Counts
  BY DEF Plus, Counts, Only, Nothing

\* A storage with another total.
LEMMA TotalType ==
    ASSUME CollectorTypeOK, Present(currentSymbol), currentSymbol \in Symbols, NEW c \in Counts,
           storages' = [storages EXCEPT ![currentSymbol].total = c]
    PROVE  /\ storages' \in [Symbols -> Storage \cup {NoStorage}]
           /\ storages'[currentSymbol].total = c
           /\ storages'[currentSymbol].type = storages[currentSymbol].type
           /\ storages'[currentSymbol] # NoStorage
           /\ \A s \in Symbols \ {currentSymbol} : storages'[s] = storages[s]
<1> DEFINE p == [storages[currentSymbol] EXCEPT !.total = c]
<1>1. storages[currentSymbol] \in Storage
  BY DEF CollectorTypeOK, Present
<1>2. p \in Storage /\ p.total = c /\ p.type = storages[currentSymbol].type
  BY <1>1 DEF Storage
<1>3. storages' = [storages EXCEPT ![currentSymbol] = p]
  OBVIOUS
<1> HIDE DEF p
<1>4. QED
  BY <1>2, <1>3, SharedUprobesAssumption DEF CollectorTypeOK

\* What there is when a message other than a name is processed.
LEMMA ProcessesFresh ==
    ASSUME CollectorInv, Process
    PROVE  LET m == Head(batch)
           IN  /\ m \in Message
               /\ m.type = "SYMBOL" \/ Fresh
               /\ Fresh /\ Present(currentSymbol) => storages[currentSymbol] \in Storage
               /\ Fresh /\ Present(currentSymbol) => storages[currentSymbol].total \in Counts
<1>1. batch # <<>> /\ batch \in Seq(Message)
  BY DEF Process, CollectorInv, ChannelType
<1>2. Head(batch) \in Message
  BY <1>1
<1>3. Head(batch).type = "SYMBOL" \/ Fresh
  BY <1>1 DEF CollectorInv, PairInv, StartsNamed
<1>4. Fresh /\ Present(currentSymbol) => storages[currentSymbol] \in Storage
  BY DEF CollectorInv, CollectorTypeOK, Fresh, Present
<1>5. QED
  BY <1>2, <1>3, <1>4 DEF Storage

LEMMA ProcessType ==
    ASSUME CollectorInv, Process
    PROVE  CollectorTypeOK'
<1> DEFINE m == Head(batch)
<1>1. /\ ProcessOneMessage(m) /\ m \in Message
      /\ m.type = "SYMBOL" \/ Fresh
      /\ Fresh /\ Present(currentSymbol) => storages[currentSymbol] \in Storage
      /\ Fresh /\ Present(currentSymbol) => storages[currentSymbol].total \in Counts
  BY ProcessesFresh DEF Process
<1> HIDE DEF m
<1>2. CollectorTypeOK
  BY DEF CollectorInv
<1>3. CASE m.type = "SYMBOL"
  <2>1. ProcessSymbol(m) /\ m.symbol \in Symbols
    BY <1>1, <1>3, MessageTypes DEF ProcessOneMessage
  <2>2. QED
    BY <1>2, <2>1 DEF ProcessSymbol, CollectorTypeOK
<1>4. CASE m.type = "NEW"
  <2>1. ProcessNewSharedUprobe(m) /\ m.kind \in Types /\ Fresh
    BY <1>1, <1>4, MessageTypes DEF ProcessOneMessage
  <2>2. NewStorage(m.kind) \in Storage
    BY <2>1, PlusType DEF NewStorage, Storage
  <2>3. QED
    BY <1>2, <2>1, <2>2 DEF ProcessNewSharedUprobe, CollectorTypeOK
<1>5. CASE m.type = "WRITE"
  <2>1. PICK o : ProcessWriteStat(m, o)
    BY <1>1, <1>5 DEF ProcessOneMessage
  <2>2. UNCHANGED <<currentSymbol, currentStorage, missed>> /\ Fresh
    BY <1>1, <1>5, <2>1 DEF ProcessWriteStat
  <2>3. CASE UNCHANGED <<reported, storages>>
    BY <1>2, <2>2, <2>3 DEF CollectorTypeOK
  <2>4. CASE /\ currentStorage = "live"
             /\ reported' = [reported EXCEPT ![currentSymbol] =
                               Plus(@, storages[currentSymbol].total)]
             /\ storages' = [storages EXCEPT ![currentSymbol].total = Nothing]
    <3>1. Present(currentSymbol) /\ currentSymbol \in Symbols
      BY <2>2, <2>4 DEF Fresh
    <3>2. Plus(reported[currentSymbol], storages[currentSymbol].total) \in Counts
      BY <1>1, <1>2, <2>2, <3>1, PlusType DEF CollectorTypeOK
    <3>3. reported' \in [Symbols -> Counts]
      BY <1>2, <2>4, <3>2 DEF CollectorTypeOK
    <3>4. storages' \in [Symbols -> Storage \cup {NoStorage}]
      BY <1>2, <2>4, <3>1, PlusType, TotalType
    <3>5. QED
      BY <1>2, <2>2, <3>3, <3>4 DEF CollectorTypeOK
  <2>5. QED
    BY <2>1, <2>3, <2>4 DEF ProcessWriteStat
<1>6. CASE m.type = "DELETE"
  <2>1. PICK o : ProcessDeleteSharedUprobe(m, o)
    BY <1>1, <1>6 DEF ProcessOneMessage
  <2>2. Fresh
    BY <1>1, <1>6
  <2>3. CASE ~Present(currentSymbol)
    BY <1>2, <2>1, <2>3 DEF ProcessDeleteSharedUprobe, CollectorTypeOK, collector
  <2>4. CASE Present(currentSymbol)
    <3>1. PICK total : total = storages[currentSymbol].total
      OBVIOUS
    <3>2. /\ storages' = [storages EXCEPT ![currentSymbol] = NoStorage]
          /\ \/ reported' = [reported EXCEPT ![currentSymbol] = Plus(@, total)] /\ UNCHANGED missed
             \/ missed' = [missed EXCEPT ![currentSymbol] = Plus(@, total)] /\ UNCHANGED reported
          /\ currentStorage' \in {"freed", currentStorage}
          /\ UNCHANGED currentSymbol
      BY <2>1, <2>4, <3>1 DEF ProcessDeleteSharedUprobe
    <3>3. total \in Counts /\ currentSymbol \in Symbols
      BY <1>1, <2>2, <2>4, <3>1 DEF Fresh
    <3>4. /\ Plus(reported[currentSymbol], total) \in Counts
          /\ Plus(missed[currentSymbol], total) \in [Backends -> Int]
      BY <1>2, <3>3, PlusType DEF CollectorTypeOK
    <3>5. reported' \in [Symbols -> Counts] /\ missed' \in [Symbols -> [Backends -> Int]]
      BY <1>2, <3>2, <3>4 DEF CollectorTypeOK
    <3>6. QED
      BY <1>2, <3>2, <3>5 DEF CollectorTypeOK
  <2>5. QED
    BY <2>3, <2>4
<1>7. CASE m.type = "CUSTOM"
  <2>1. ProcessCustom(m) /\ Fresh /\ m.from \in Backends /\ m.n \in Nat
    BY <1>1, <1>7, MessageTypes DEF ProcessOneMessage
  <2>2. Only(m.from, m.n) \in Counts
    BY <2>1, PlusType
  <2>3. PICK more \in Counts : more = Only(m.from, m.n)
    BY <2>2
  <2>4. CASE currentStorage = "live"
    <3>1. Present(currentSymbol) /\ currentSymbol \in Symbols
      BY <2>1, <2>4 DEF Fresh
    <3>2. storages' = [storages EXCEPT ![currentSymbol].total =
                          Plus(storages[currentSymbol].total, more)]
      BY <2>1, <2>3, <2>4 DEF ProcessCustom
    <3>3. Plus(storages[currentSymbol].total, more) \in Counts
      BY <1>1, <2>1, <3>1, PlusType
    <3>4. storages' \in [Symbols -> Storage \cup {NoStorage}]
      BY <1>2, <3>1, <3>2, <3>3, TotalType
    <3>5. QED
      BY <1>2, <2>1, <2>4, <3>4 DEF ProcessCustom, CollectorTypeOK
  <2>5. CASE currentStorage # "live"
    <3>1. missed' = [missed EXCEPT ![currentSymbol] = Plus(@, more)]
      BY <2>1, <2>3, <2>5 DEF ProcessCustom
    <3>2. Plus(missed[currentSymbol], more) \in [Backends -> Int]
      BY <1>2, <2>1, PlusType DEF CollectorTypeOK, Fresh
    <3>3. missed' \in [Symbols -> [Backends -> Int]]
      BY <1>2, <3>1, <3>2 DEF CollectorTypeOK
    <3>4. QED
      BY <1>2, <2>1, <2>5, <3>3 DEF ProcessCustom, CollectorTypeOK
  <2>6. QED
    BY <2>4, <2>5
<1>8. QED
  BY <1>1, <1>3, <1>4, <1>5, <1>6, <1>7, MessageTypes

LEMMA EndsType ==
    ASSUME CollectorInv, Ends
    PROVE  CollectorTypeOK'
<1>1. CollectorTypeOK /\ ChannelType
  BY DEF CollectorInv
<1> DEFINE dropped == [s \in Symbols |-> [b \in Backends |-> InBatch(b, s)]]
           total(s) == IF Present(s) THEN storages[s].total ELSE Nothing
<1>2. \A s \in Symbols : dropped[s] \in Counts
  BY <1>1, InBatchType DEF Counts
<1>3. ASSUME NEW s \in Symbols PROVE total(s) \in Counts
  <2>1. Present(s) => storages[s] \in Storage
    BY <1>1 DEF Present, CollectorTypeOK
  <2>2. QED
    BY <2>1, PlusType DEF Storage
<1>4. /\ storages' = [s \in Symbols |-> NoStorage] /\ currentSymbol' = NoSymbol
      /\ currentStorage' = "null"
      /\ \E written : /\ reported' = [s \in Symbols |->
                            IF s \in written THEN Plus(reported[s], total(s)) ELSE reported[s]]
                      /\ missed' = [s \in Symbols |-> Plus(missed[s], Plus(dropped[s],
                            IF s \in written THEN Nothing ELSE total(s)))]
  BY DEF Ends, WriteAllAtExit
<1> HIDE DEF dropped, total
<1>5. PICK written : /\ reported' = [s \in Symbols |->
                            IF s \in written THEN Plus(reported[s], total(s)) ELSE reported[s]]
                      /\ missed' = [s \in Symbols |-> Plus(missed[s], Plus(dropped[s],
                            IF s \in written THEN Nothing ELSE total(s)))]
  BY <1>4
<1>6. ASSUME NEW s \in Symbols
      PROVE  /\ Plus(reported[s], total(s)) \in Counts
             /\ Plus(missed[s], Plus(dropped[s], total(s))) \in [Backends -> Int]
             /\ Plus(missed[s], Plus(dropped[s], Nothing)) \in [Backends -> Int]
  <2>1. reported[s] \in Counts /\ missed[s] \in [Backends -> Int]
    BY <1>1 DEF CollectorTypeOK
  <2>2. /\ dropped[s] \in Counts /\ total(s) \in Counts
        /\ Plus(dropped[s], total(s)) \in Counts /\ Plus(dropped[s], Nothing) \in Counts
    BY <1>2, <1>3, PlusType
  <2>3. QED
    BY <2>1, <2>2, PlusType
<1>7. reported' \in [Symbols -> Counts]
  BY <1>1, <1>5, <1>6 DEF CollectorTypeOK
<1>8. missed' \in [Symbols -> [Backends -> Int]]
  BY <1>5, <1>6
<1>9. QED
  BY <1>4, <1>7, <1>8 DEF CollectorTypeOK

LEMMA CollectorTypeStep ==
    ASSUME SessionInv, CollectorInv, HistoryType, Next
    PROVE  CollectorTypeOK'
<1>1. CASE UNCHANGED collector
  BY <1>1 DEF collector, CollectorInv, CollectorTypeOK
<1>2. CASE StartStatCollector
  <2>1. ASSUME NEW c PROVE StoragesFor(c) \in [Symbols -> Storage \cup {NoStorage}]
    BY PlusType DEF StoragesFor, NewStorage, Storage
  <2>2. storages' \in [Symbols -> Storage \cup {NoStorage}]
    BY <1>2, <2>1 DEF StartStatCollector
  <2>3. QED
    BY <1>2, <2>2 DEF StartStatCollector, CollectorInv, CollectorTypeOK
<1>3. ASSUME UNCHANGED <<storages, currentSymbol, currentStorage, reported>>,
             NEW b \in Backends, NEW s \in Symbols, NEW n \in Int, Miss(s, b, n)
      PROVE  CollectorTypeOK'
  BY <1>3, MissType DEF CollectorInv, CollectorTypeOK
<1>4. CASE Stop \/ CollectorFails
  BY <1>4, EndsType DEF Stop, CollectorFails
<1>5. QED
  BY <1>1, <1>2, <1>3, <1>4, ProcessType, CollectorKeeps

\* The bound on calls: none is larger than their sum.
LEMMA CallsBound ==
    ASSUME HistoryType, NEW b \in Backends, NEW s \in Symbols
    PROVE  calls[b][s] <= CallsMade /\ CallsMade \in Nat
<1> DEFINE P == Backends \X Symbols
           F == [x \in P |-> calls[x[1]][x[2]]]
<1>1. IsFiniteSet(P)
  BY SharedUprobesAssumption, FS_Product
<1>2. \A x \in P : F[x] \in Nat
  <2>1. ASSUME NEW x \in P PROVE calls[x[1]][x[2]] \in Nat
    <3>1. x[1] \in Backends /\ x[2] \in Symbols
      OBVIOUS
    <3>2. calls[x[1]][x[2]] \in 0 .. MaxCalls
      BY <3>1 DEF HistoryType
    <3>3. QED
      BY <3>2, SharedUprobesAssumption
  <2>2. QED
    BY <2>1
<1>3. <<b, s>> \in P /\ F[<<b, s>>] = calls[b][s]
  OBVIOUS
<1>4. CallsMade = SumOver(F, P)
  <2>1. CallsMade = FoldFunction(+, 0, F) /\ DOMAIN F = P
    BY DEF CallsMade
  <2> HIDE DEF F
  <2>2. QED
    BY <2>1, SumOfFold
<1> HIDE DEF P, F
<1>5. SumOver(F, P) \in Nat /\ F[<<b, s>>] <= SumOver(F, P)
  BY <1>1, <1>2, <1>3, SumType, SumBounds
<1>6. QED
  BY <1>3, <1>4, <1>5

LEMMA OneMore ==
    /\ \A m \in Nat : \A k \in 0 .. m : k \in Nat
    /\ \A m \in Nat, k \in Nat : k < m => k + 1 \in 0 .. m
    /\ \A m, k, n \in Nat : k <= n /\ n < m => k < m
  OBVIOUS

LEMMA HistoryStep ==
    ASSUME SessionInv, HistoryType, Next
    PROVE  HistoryType'
<1> USE DEF HistoryType
<1>0. MaxCalls \in Nat /\ MaxOps \in Nat /\ MaxAborts \in Nat
  BY SharedUprobesAssumption
<1>1. ASSUME NEW S, NEW what \in {"deleted", "cut short"}, Mark(S, what)
      PROVE  past' \in [Symbols -> SUBSET {"deleted", "cut short"}]
  BY <1>1 DEF Mark
<1>2. ASSUME Counted PROVE ops' \in 0 .. MaxOps
  <2>1. ops \in 0 .. MaxOps /\ ops < MaxOps /\ ops' = ops + 1
    BY <1>2 DEF Counted
  <2>2. QED
    BY <1>0, <2>1, OneMore
<1>3. ASSUME NEW b \in Backends, NEW s \in Symbols, Call(b, s)
      PROVE  HistoryType'
  <2>1. calls[b][s] \in 0 .. MaxCalls /\ calls[b][s] < MaxCalls
    <3>1. calls[b][s] \in 0 .. MaxCalls
      OBVIOUS
    <3>2. calls[b][s] <= CallsMade /\ CallsMade \in Nat
      BY CallsBound
    <3>3. CallsMade < MaxCalls
      BY <1>3 DEF Call
    <3>4. QED
      BY <1>0, <3>1, <3>2, <3>3, OneMore
  <2>2. calls[b][s] + 1 \in 0 .. MaxCalls
    BY <1>0, <2>1, OneMore
  <2>3. calls' \in [Backends -> [Symbols -> 0 .. MaxCalls]]
    BY <1>3, <2>2 DEF Call
  <2>4. QED
    BY <1>3, <2>3 DEF Call
<1>4. ASSUME NEW b \in Backends, NEW s \in Symbols, NEW f \in BOOLEAN, DeleteUprobe(b, s, f)
      PROVE  HistoryType'
  BY <1>1, <1>2, <1>4 DEF DeleteUprobe
<1>5. ASSUME NEW b \in Backends, SaveInConfig(b)
      PROVE  HistoryType'
  <2>1. op[b].symbol \in Symbols /\ op[b].kind \in Types
    BY <1>5 DEF SaveInConfig, SessionInv, OpInv, OpAt
  <2>2. /\ [config EXCEPT ![op[b].symbol] = op[b].kind] \in [Symbols -> Types \cup {NoProbe}]
        /\ [NoConfig EXCEPT ![op[b].symbol] = op[b].kind] \in [Symbols -> Types \cup {NoProbe}]
        /\ NoConfig \in [Symbols -> Types \cup {NoProbe}]
    BY <2>1 DEF NoConfig
  <2>3. config' \in [Symbols -> Types \cup {NoProbe}]
    BY <1>5, <2>2 DEF SaveInConfig, Write
  <2>4. past' \in [Symbols -> SUBSET {"deleted", "cut short"}]
    BY <1>1, <1>5 DEF SaveInConfig
  <2>5. QED
    BY <1>5, <2>3, <2>4 DEF SaveInConfig
<1>6. ASSUME NEW b \in Backends, Connect(b)
      PROVE  HistoryType'
  BY <1>1, <1>6 DEF Connect
<1>7. ASSUME NEW b \in Backends, Abort(b)
      PROVE  HistoryType'
  <2>1. aborts' \in 0 .. MaxAborts
    <3>1. aborts \in 0 .. MaxAborts /\ aborts < MaxAborts /\ aborts' = aborts + 1
      BY <1>7 DEF Abort
    <3>2. QED
      BY <1>0, <3>1, OneMore
  <2>2. config' \in [Symbols -> Types \cup {NoProbe}]
    BY <1>7 DEF Abort, NoConfig
  <2>3. past' \in [Symbols -> SUBSET {"deleted", "cut short"}]
    BY <1>1, <1>7 DEF Abort
  <2>4. QED
    BY <1>7, <2>1, <2>2, <2>3 DEF Abort
<1>8. ASSUME NEW b \in Backends, NEW s \in Symbols, NEW f \in BOOLEAN, NEW t \in Types,
             SetUprobe(b, s, t, f)
      PROVE  HistoryType'
  BY <1>2, <1>8 DEF SetUprobe
<1>9. ASSUME NEW b \in Backends, NEW s \in Symbols, NEW f \in BOOLEAN, DumpUprobeStat(b, s, f)
      PROVE  HistoryType'
  BY <1>2, <1>9 DEF DumpUprobeStat
<1>10. ASSUME NEW b \in Backends, DeleteFromConfig(b)
      PROVE  HistoryType'
  <2>1. config' \in [Symbols -> Types \cup {NoProbe}]
    BY <1>10 DEF DeleteFromConfig, Write, NoConfig
  <2>2. past' \in [Symbols -> SUBSET {"deleted", "cut short"}]
    BY <1>1, <1>10 DEF DeleteFromConfig
  <2>3. QED
    BY <1>10, <2>1, <2>2 DEF DeleteFromConfig
<1>11. CASE CollectorFails
  BY <1>1, <1>11 DEF CollectorFails
<1>12. ASSUME NEW b \in Backends,
              \/ Disconnect(b) \/ TimedStatSend(b) \/ SendNext(b) \/ PutData(b)
              \/ SendDone(b) \/ PutNew(b) \/ PutWrite(b) \/ PutDelete(b) \/ WaitLatch(b)
       PROVE  HistoryType'
  BY <1>12 DEF Disconnect, TimedStatSend, SendNext, PutData, SendDone, PutNew, PutWrite,
     PutDelete, WaitLatch, history
<1>13. CASE TakeBatch \/ Process \/ Stop
  BY <1>13 DEF TakeBatch, Process, Stop, history
<1>14. CASE StartStatCollector
  BY <1>1, <1>14 DEF StartStatCollector
<1>15. QED
  BY <1>3, <1>4, <1>5, <1>6, <1>7, <1>8, <1>9, <1>10, <1>11, <1>12,
     <1>13, <1>14 DEF Next, BackendStep

-----------------------------------------------------------------------------
\* The inductive invariant so far: types, places, names.
IInv == SessionInv /\ CollectorInv /\ HistoryType

LEMMA InitIInv ==
    ASSUME Init
    PROVE  IInv
<1>1. SessionInv /\ ChannelType /\ HistoryType /\ CollectorTypeOK
  BY InitOp DEF SessionInv
<1>2. PairInv /\ IdleWorker
  BY DEF Init, PairInv, WellPaired, StartsNamed, IdleWorker
<1>3. QED
  BY <1>1, <1>2 DEF IInv, CollectorInv

LEMMA IInvStep ==
    ASSUME IInv, [Next]_vars
    PROVE  IInv'
<1> USE DEF IInv
<1>1. CASE Next
  BY <1>1, SessionStep, ChannelStep, CollectorTypeStep, HistoryStep DEF CollectorInv
<1>2. CASE UNCHANGED vars
  <2>1. SessionInv'
    BY <1>2 DEF vars, backend, SessionInv, SessionType, OpInv, OpAt, Has, Shared
  <2>2. CollectorInv'
    BY <1>2 DEF vars, channel, collector, CollectorInv, CollectorTypeOK, ChannelType, PairInv,
       Fresh, IdleWorker, Present
  <2>3. HistoryType'
    BY <1>2 DEF vars, history, HistoryType
  <2>4. QED
    BY <2>1, <2>2, <2>3
<1>3. QED
  BY <1>1, <1>2

\* The invariant the theorems below follow from.
THEOREM Invariance == Spec => []IInv
  BY InitIInv, IInvStep, PTL DEF Spec

\* The types of the variables; a session without a function is at rest, and a latch
\* is set only between ResetLatch and the return of WaitLatch.
THEOREM TypesAreKept == Spec => []TypeOK
<1>1. ASSUME IInv PROVE TypeOK
  <2> USE <1>1 DEF IInv, SessionInv, CollectorInv
  <2>1. \A b \in Backends :
           /\ op[b].name \in {"none", "set", "dump", "delete", "tick", "exit"}
           /\ op[b].todo \subseteq Symbols /\ op[b].left \in Nat
    BY DEF SessionType, OpSet
  <2>2. \A b \in Backends :
           /\ pc[b] \in {"away", "idle"} <=> op[b] = NoOp
           /\ latch[b] => pc[b] \in Armed
    BY DEF OpInv, OpAt
  <2>3. QED
    BY <2>1, <2>2 DEF TypeOK, SessionType, ChannelType, HistoryType, Places
<1>2. QED
  BY <1>1, Invariance, PTL

\* The collector never follows the pointer to a storage it freed: a message with
\* data or a request is processed right after the name that looks the storage up.
THEOREM StorageIsLive == Spec => []NoUseAfterFree
<1>1. ASSUME IInv PROVE NoUseAfterFree
  BY <1>1 DEF IInv, CollectorInv, PairInv, StartsNamed, Fresh, NoUseAfterFree
<1>2. QED
  BY <1>1, Invariance, PTL
================================================================================
