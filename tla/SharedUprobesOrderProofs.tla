----------------------- MODULE SharedUprobesOrderProofs -----------------------
(***************************************************************************)
(* Proofs about the order of what sessions and the collector do: nothing   *)
(* is dropped, because the collector is told of a probe before the probe   *)
(* counts; a report is complete, because the data go ahead of the request; *)
(* the collector ends with the storages of the config, because what one    *)
(* session tells it is in the order in which the config is written; and    *)
(* a storage gets data of its type, because no data are under way when a   *)
(* probe is set.                                                           *)
(***************************************************************************)
EXTENDS SharedUprobesCountProofs

-----------------------------------------------------------------------------
\* Messages of one type for one symbol.

For(tr, c, s, t) == {i \in DOMAIN tr : tr[i].type = t /\ NameAt(tr, c, i) = s}

\* A put adds one at the end.
LEMMA ForAppended ==
    ASSUME NEW tr \in Seq(Message), NEW a \in Symbols, NEW m \in Request,
           NEW c, NEW s, NEW t, t # "SYMBOL"
    PROVE  For(tr \o << [type |-> "SYMBOL", symbol |-> a], m >>, c, s, t) =
              For(tr, c, s, t)
                 \cup IF m.type = t /\ a = s THEN {Len(tr) + 2} ELSE {}
<1> DEFINE y   == [type |-> "SYMBOL", symbol |-> a]
           now == tr \o <<y, m>>
           n   == Len(tr)
<1>1. y \in Message /\ y.type = "SYMBOL" /\ y.symbol = a /\ m \in Message
  BY MadeMessages DEF Request
<1>2. /\ n \in Nat /\ DOMAIN tr = 1 .. n
      /\ DOMAIN now = (1 .. n) \cup {n + 1, n + 2}
      /\ \A i \in 1 .. n : now[i] = tr[i]
      /\ now[n + 1] = y
      /\ now[n + 2] = m
  <2> HIDE DEF y
  <2>1. QED
    BY <1>1, TwoAppended
<1> HIDE DEF y, n, now
<1>3. ASSUME NEW i \in 1 .. n
      PROVE  i \in For(now, c, s, t) <=> i \in For(tr, c, s, t)
  <2>1. i # 1 => i - 1 \in 1 .. n
    BY <1>2
  <2>2. QED
    BY <1>2, <2>1 DEF For, NameAt
<1>4. n + 1 \notin For(now, c, s, t)
  BY <1>1, <1>2 DEF For
<1>5. n + 2 \in For(now, c, s, t) <=> m.type = t /\ a = s
  <2>1. n + 2 # 1 /\ (n + 2) - 1 = n + 1
    BY <1>2
  <2>2. QED
    BY <1>1, <1>2, <2>1 DEF For, NameAt
<1>6. /\ For(now, c, s, t) \subseteq (1 .. n) \cup {n + 1, n + 2}
      /\ For(tr, c, s, t) \subseteq 1 .. n
  BY <1>2 DEF For
<1>7. QED
  BY <1>3, <1>4, <1>5, <1>6 DEF now, y, n

\* The others move up when the first message is processed.
LEMMA ForTail ==
    ASSUME NEW tr \in Seq(Message), tr # <<>>, WellPaired(tr), NEW c, NEW d, NEW s, NEW t,
           t # "SYMBOL", tr[1].type = "SYMBOL" => d = tr[1].symbol
    PROVE  /\ For(Tail(tr), d, s, t) \subseteq 1 .. Len(tr) - 1
           /\ \A i \in 1 .. Len(tr) - 1 :
                 i \in For(Tail(tr), d, s, t) <=> i + 1 \in For(tr, c, s, t)
<1> DEFINE q == Tail(tr)
           n == Len(tr)
<1>1. /\ n \in Nat \ {0} /\ DOMAIN tr = 1 .. n /\ DOMAIN q = 1 .. n - 1
      /\ \A i \in 1 .. n - 1 : q[i] = tr[i + 1] /\ i + 1 \in DOMAIN tr
  BY OneTaken
<1> HIDE DEF q, n
<1>2. For(q, d, s, t) \subseteq 1 .. n - 1
  BY <1>1 DEF For
<1>3. ASSUME NEW i \in 1 .. n - 1
      PROVE  i \in For(q, d, s, t) <=> i + 1 \in For(tr, c, s, t)
  <2>1. i \in Nat /\ i + 1 # 1 /\ (i + 1) - 1 = i
    BY <1>1
  <2>2. NameAt(tr, c, i + 1) = tr[i].symbol
    BY <2>1 DEF NameAt
  <2>3. CASE i = 1
    <3>1. q[1].type = t => tr[1].type = "SYMBOL"
      <4>1. tr[2].type # "SYMBOL" => tr[2 - 1].type = "SYMBOL"
        <5>1. 2 \in DOMAIN tr /\ 2 > 1
          BY <1>1, <2>3
        <5>2. QED
          BY <5>1 DEF WellPaired
      <4>2. 2 - 1 = 1 /\ q[1] = tr[2]
        BY <1>1, <2>3
      <4>3. QED
        BY <4>1, <4>2
    <3>2. NameAt(q, d, 1) = d
      BY DEF NameAt
    <3>3. QED
      BY <1>1, <2>2, <2>3, <3>1, <3>2 DEF For
  <2>4. CASE i # 1
    <3>1. i - 1 \in 1 .. n - 1 /\ (i - 1) + 1 = i
      BY <1>1, <2>4
    <3>2. NameAt(q, d, i) = tr[i].symbol
      BY <1>1, <2>4, <3>1 DEF NameAt
    <3>3. QED
      BY <1>1, <2>2, <3>2 DEF For
  <2>5. QED
    BY <2>3, <2>4
<1>4. QED
  BY <1>2, <1>3 DEF q, n

\* Messages that begin with a name have their names whatever goes before.
LEMMA ForJoined ==
    ASSUME NEW p \in Seq(Message), NEW q \in Seq(Message), StartsNamed(q),
           NEW c, NEW d, NEW s, NEW t, t # "SYMBOL"
    PROVE  \A i \in For(q, d, s, t) : Len(p) + i \in For(p \o q, c, s, t)
<1> DEFINE tr == p \o q
           m  == Len(p)
           n  == Len(q)
<1>1. /\ m \in Nat /\ n \in Nat /\ DOMAIN q = 1 .. n /\ DOMAIN tr = 1 .. m + n
      /\ \A i \in 1 .. n : tr[m + i] = q[i]
  BY Joined
<1>2. q # <<>> => q[1].type = "SYMBOL"
  BY OneTaken DEF StartsNamed
<1> HIDE DEF m, n, tr
<1>3. ASSUME NEW i \in For(q, d, s, t)
      PROVE  m + i \in For(tr, c, s, t)
  <2>1. i \in 1 .. n /\ q[i].type = t /\ NameAt(q, d, i) = s
    BY <1>1, <1>3 DEF For
  <2>2. i # 1
    BY <1>1, <1>2, <2>1
  <2>3. i - 1 \in 1 .. n /\ m + i \in 1 .. m + n /\ (m + i) - 1 = m + (i - 1) /\ m + i # 1
    BY <1>1, <2>1, <2>2
  <2>4. NameAt(q, d, i) = q[i - 1].symbol /\ NameAt(tr, c, m + i) = q[i - 1].symbol
    BY <1>1, <2>2, <2>3 DEF NameAt
  <2>5. QED
    BY <1>1, <2>1, <2>3, <2>4 DEF For
<1>4. QED
  BY <1>3 DEF tr, m

-----------------------------------------------------------------------------
\* The messages of a type under way for a symbol, as puts and the collector change them.

Waiting(s, t) == For(Transit, currentSymbol, s, t)

\* What a put makes of the messages under way.
LEMMA PutWaiting ==
    ASSUME IInv, NEW a \in Symbols, NEW m \in Request, Appends(a, m),
           UNCHANGED <<batch, currentSymbol>>, NEW s \in Symbols
    PROVE  LET n == Len(Transit)
           IN  /\ n \in Nat
               /\ \A i \in 1 .. n : Transit'[i] = Transit[i]
               /\ Transit'[n + 2] = m
               /\ \A t : t # "SYMBOL" =>
                     /\ Waiting(s, t) \subseteq 1 .. n
                     /\ Waiting(s, t)' =
                           Waiting(s, t) \cup IF m.type = t /\ a = s THEN {n + 2} ELSE {}
<1> DEFINE n == Len(Transit)
           y == [type |-> "SYMBOL", symbol |-> a]
<1>1. batch \in Seq(Message) /\ queue \in Seq(Message) /\ Transit \in Seq(Message)
  BY TransitType DEF IInv, CollectorInv, ChannelType
<1>2. m \in Message /\ y \in Message
  BY MadeMessages DEF Request
<1>3. Transit' = Transit \o << y, m >>
  <2>1. Transit' = batch \o (queue \o << y, m >>)
    BY DEF Transit, Appends
  <2> HIDE DEF y
  <2>2. batch \o (queue \o << y, m >>) = (batch \o queue) \o << y, m >>
    BY <1>1, <1>2, Transits
  <2>3. QED
    BY <2>1, <2>2 DEF Transit
<1>4. ASSUME NEW t, t # "SYMBOL"
      PROVE  Waiting(s, t)' = Waiting(s, t) \cup IF m.type = t /\ a = s THEN {n + 2} ELSE {}
  BY <1>1, <1>3, <1>4, ForAppended DEF Waiting
<1>5. /\ n \in Nat /\ DOMAIN Transit = 1 .. n
      /\ \A i \in 1 .. n : Transit'[i] = Transit[i]
      /\ Transit'[n + 2] = m
  <2> HIDE DEF y
  <2>1. QED
    BY <1>1, <1>2, <1>3, TwoAppended
<1>6. \A t : Waiting(s, t) \subseteq 1 .. n
  BY <1>5 DEF Waiting, For
<1>7. QED
  BY <1>4, <1>5, <1>6

\* What processing a message makes of those under way.
LEMMA TakenWaiting ==
    ASSUME IInv, Process, NEW s \in Symbols
    PROVE  LET n == Len(Transit)
           IN  /\ n \in Nat
               /\ \A i \in 1 .. n - 1 : Transit'[i] = Transit[i + 1]
               /\ Transit[1] = Head(batch)
               /\ \A t : t # "SYMBOL" =>
                     /\ Waiting(s, t)' \subseteq 1 .. n - 1
                     /\ \A i \in 1 .. n - 1 : i \in Waiting(s, t)' <=> i + 1 \in Waiting(s, t)
                     /\ Waiting(s, t) \subseteq 1 .. n
                     /\ 1 \in Waiting(s, t) <=> Head(batch).type = t /\ currentSymbol = s
<1> DEFINE m == Head(batch)
           n == Len(Transit)
<1>1. /\ ProcessOneMessage(m) /\ UNCHANGED queue
      /\ batch # <<>> /\ batch' = Tail(batch)
  BY DEF Process
<1>2. /\ batch \in Seq(Message) /\ queue \in Seq(Message) /\ Transit \in Seq(Message)
      /\ WellPaired(Transit)
  BY TransitType, JoinedPaired DEF IInv, CollectorInv, ChannelType, PairInv, Transit
<1>3. /\ Transit # <<>> /\ Transit' = Tail(Transit) /\ m = Transit[1] /\ n \in Nat
      /\ DOMAIN Transit = 1 .. n /\ 1 \in DOMAIN Transit
      /\ \A i \in 1 .. n - 1 : Transit'[i] = Transit[i + 1]
  <2>1. Transit # <<>> /\ Transit' = Tail(Transit) /\ m = Head(Transit)
    BY <1>1, <1>2, Transits DEF Transit
  <2>2. QED
    BY <1>2, <2>1, OneTaken
<1>4. m.type = "SYMBOL" => currentSymbol' = m.symbol
  BY <1>1 DEF ProcessOneMessage, ProcessSymbol
<1>5. ASSUME NEW t, t # "SYMBOL"
      PROVE  /\ Waiting(s, t)' \subseteq 1 .. n - 1
             /\ \A i \in 1 .. n - 1 : i \in Waiting(s, t)' <=> i + 1 \in Waiting(s, t)
             /\ Waiting(s, t) \subseteq 1 .. n
             /\ 1 \in Waiting(s, t) <=> m.type = t /\ currentSymbol = s
  <2>1. PICK d : d = currentSymbol'
    OBVIOUS
  <2>2. Waiting(s, t)' = For(Tail(Transit), d, s, t)
    BY <1>3, <2>1 DEF Waiting
  <2>3. Transit[1].type = "SYMBOL" => d = Transit[1].symbol
    BY <1>3, <1>4, <2>1
  <2>4. /\ For(Tail(Transit), d, s, t) \subseteq 1 .. n - 1
        /\ \A i \in 1 .. n - 1 :
              i \in For(Tail(Transit), d, s, t) <=> i + 1 \in For(Transit, currentSymbol, s, t)
    BY <1>2, <1>3, <1>5, <2>3, ForTail
  <2>5. Waiting(s, t) \subseteq 1 .. n /\ (1 \in Waiting(s, t) <=> m.type = t /\ currentSymbol = s)
    BY <1>3 DEF Waiting, For, NameAt
  <2>6. QED
    BY <2>2, <2>4, <2>5 DEF Waiting
<1> HIDE DEF Waiting
<1>6. QED
  BY <1>3, <1>5

\* Only NEW and DELETE create and remove a storage; its type never changes.
LEMMA StorageKept ==
    ASSUME IInv, Process, NEW s \in Symbols,
           ~(Head(batch).type \in {"NEW", "DELETE"} /\ currentSymbol = s)
    PROVE  /\ Present(s)' <=> Present(s)
           /\ Present(s) => storages'[s].type = storages[s].type
<1> DEFINE m == Head(batch)
           Kept == /\ Present(s)' <=> Present(s)
                   /\ Present(s) => storages'[s].type = storages[s].type
<1>1. /\ ProcessOneMessage(m) /\ m \in Message /\ CollectorTypeOK
      /\ m.type = "SYMBOL" \/ Fresh
      /\ ~(m.type \in {"NEW", "DELETE"} /\ currentSymbol = s)
  BY ProcessesFresh DEF Process, IInv, CollectorInv
<1>2. ASSUME storages'[s] = storages[s] PROVE Kept
  BY <1>2 DEF Present
<1>3. ASSUME NEW c \in Counts, storages' = [storages EXCEPT ![currentSymbol].total = c],
             Fresh, currentStorage = "live"
      PROVE  Kept
  <2>1. Present(currentSymbol) /\ currentSymbol \in Symbols
    BY <1>3 DEF Fresh
  <2>2. /\ storages'[currentSymbol] # NoStorage
        /\ storages'[currentSymbol].type = storages[currentSymbol].type
        /\ \A r \in Symbols \ {currentSymbol} : storages'[r] = storages[r]
    BY <1>1, <1>3, <2>1, TotalType
  <2>3. QED
    BY <2>1, <2>2 DEF Present
<1> HIDE DEF m, Kept
<1> SUFFICES Kept
  BY DEF Kept
<1>4. CASE m.type = "SYMBOL"
  BY <1>1, <1>2, <1>4 DEF ProcessOneMessage, ProcessSymbol
<1>5. CASE m.type = "NEW"
  <2>1. s # currentSymbol
    BY <1>1, <1>5
  <2>2. QED
    BY <1>1, <1>2, <1>5, <2>1 DEF ProcessOneMessage, ProcessNewSharedUprobe, CollectorTypeOK
<1>6. CASE m.type = "DELETE"
  <2>1. s # currentSymbol
    BY <1>1, <1>6
  <2>2. PICK o : ProcessDeleteSharedUprobe(m, o)
    BY <1>1, <1>6 DEF ProcessOneMessage
  <2>3. storages' = storages \/ storages' = [storages EXCEPT ![currentSymbol] = NoStorage]
    BY <2>2 DEF ProcessDeleteSharedUprobe, collector
  <2>4. QED
    BY <1>1, <1>2, <2>1, <2>3 DEF CollectorTypeOK
<1>7. CASE m.type = "WRITE"
  <2>1. PICK o : ProcessWriteStat(m, o)
    BY <1>1, <1>7 DEF ProcessOneMessage
  <2>2. Nothing \in Counts /\ Fresh
    BY <1>1, <1>7, PlusType
  <2>3. QED
    BY <1>2, <1>3, <2>1, <2>2 DEF ProcessWriteStat
<1>8. CASE m.type = "CUSTOM"
  <2>1. ProcessCustom(m) /\ Fresh /\ m.from \in Backends /\ m.n \in Nat
    BY <1>1, <1>8, MessageTypes DEF ProcessOneMessage
  <2>2. PICK more \in Counts : more = Only(m.from, m.n)
    BY <2>1, PlusType
  <2>3. CASE currentStorage = "live"
    <3>1. Present(currentSymbol) /\ currentSymbol \in Symbols
      BY <2>1, <2>3 DEF Fresh
    <3>2. storages[currentSymbol].total \in Counts
      BY <3>1, ProcessesFresh, <2>1 DEF IInv
    <3>3. PICK sum \in Counts : sum = Plus(storages[currentSymbol].total, more)
      BY <3>2, PlusType
    <3>4. storages' = [storages EXCEPT ![currentSymbol].total = sum]
      BY <2>1, <2>2, <2>3, <3>3 DEF ProcessCustom
    <3>5. QED
      BY <1>3, <2>1, <2>3, <3>4
  <2>4. CASE currentStorage # "live"
    BY <1>2, <2>1, <2>4 DEF ProcessCustom
  <2>5. QED
    BY <2>3, <2>4
<1>9. QED
  BY <1>1, <1>4, <1>5, <1>6, <1>7, <1>8, MessageTypes

\* What a NEW and a DELETE for s do to its storage.
LEMMA StorageMade ==
    ASSUME IInv, Process, NEW s \in Symbols, Head(batch).type = "NEW", currentSymbol = s
    PROVE  /\ Present(s)'
           /\ storages'[s].type = IF Present(s) THEN storages[s].type ELSE Head(batch).kind
<1> DEFINE m == Head(batch)
<1>1. ProcessOneMessage(m) /\ m \in Message /\ CollectorTypeOK
  BY ProcessesFresh DEF Process, IInv, CollectorInv
<1>2. ProcessNewSharedUprobe(m) /\ m.kind \in Types
  BY <1>1, MessageTypes DEF ProcessOneMessage
<1>3. NewStorage(m.kind) # NoStorage /\ NewStorage(m.kind).type = m.kind
  BY <1>2, SharedUprobesAssumption, PlusType DEF NewStorage, Storage
<1> HIDE DEF m
<1>4. Present(s)' /\ storages'[s].type = IF Present(s) THEN storages[s].type ELSE m.kind
  BY <1>1, <1>2, <1>3 DEF ProcessNewSharedUprobe, Present, CollectorTypeOK
<1>5. QED
  BY <1>4 DEF m

LEMMA StorageRemoved ==
    ASSUME IInv, Process, NEW s \in Symbols, Head(batch).type = "DELETE", currentSymbol = s
    PROVE  ~Present(s)'
<1> DEFINE m == Head(batch)
<1>1. ProcessOneMessage(m) /\ CollectorTypeOK
  BY DEF Process, IInv, CollectorInv
<1>2. PICK o : ProcessDeleteSharedUprobe(m, o)
  BY <1>1 DEF ProcessOneMessage
<1>3. CASE Present(s)
  <2>1. storages' = [storages EXCEPT ![s] = NoStorage]
    BY <1>2, <1>3 DEF ProcessDeleteSharedUprobe
  <2>2. QED
    BY <1>1, <2>1 DEF Present, CollectorTypeOK
<1>4. CASE ~Present(s)
  BY <1>2, <1>4 DEF ProcessDeleteSharedUprobe, Present, collector
<1>5. QED
  BY <1>3, <1>4

-----------------------------------------------------------------------------
\* Why nothing is dropped: data for a symbol find a storage or follow the message
\* that makes the collector create one.

\* The collector has a storage, or will have when it has started again.
Ready(s) == IF worker = "failed" THEN config[s] # NoProbe ELSE Present(s)

Saving(s) == \E b \in Backends : pc[b] = "save" /\ op[b].symbol = s
Deleting(b) == op[b].name = "delete" \/ pc[b] \in {"putDelete", "unsave"}

Announced(s) ==
    /\ Waiting(s, "DELETE") = {}
    /\ Ready(s) \/ \A i \in Waiting(s, "CUSTOM") : \E j \in Waiting(s, "NEW") : j < i
    /\ (Ready(s) \/ Waiting(s, "NEW") # {}) <=> (config[s] # NoProbe \/ Saving(s))
    /\ \A b \in Backends : s \in Shared(b) => config[s] # NoProbe
    /\ \A b \in Backends : Deleting(b) => op[b].symbol # s
    /\ missed[s] = Nothing

Undisturbed(s) == past[s] = {} /\ ~closed
Intact(s) == "cut short" \notin past[s] /\ ~closed

AllAnnounced == \A s \in Symbols : Undisturbed(s) => Announced(s)

\* A step of session b that puts nothing, for a symbol it does not set or delete.
LEMMA SessionAnnounced ==
    ASSUME IInv, NEW s \in Symbols, Announced(s), NEW b \in Backends,
           UNCHANGED <<queue, batch, storages, currentSymbol, worker>>,
           config'[s] = config[s], missed'[s] = missed[s],
           \A c \in Backends \ {b} : Stays(c),
           s \in Shared(b)' => s \in Shared(b) \/ config[s] # NoProbe,
           (pc'[b] = "save" /\ op'[b].symbol = s) <=> (pc[b] = "save" /\ op[b].symbol = s),
           Deleting(b)' => op'[b].symbol # s
    PROVE  Announced(s)'
<1>1. Waiting(s, "DELETE")' = Waiting(s, "DELETE") /\ Waiting(s, "NEW")' = Waiting(s, "NEW")
      /\ Waiting(s, "CUSTOM")' = Waiting(s, "CUSTOM")
  BY DEF Waiting, Transit
<1>2. Ready(s)' = Ready(s)
  BY DEF Ready, Present
<1>3. Saving(s)' = Saving(s)
  BY DEF Saving, Stays
<1>4. ASSUME NEW c \in Backends PROVE s \in Shared(c)' => config[s] # NoProbe
  <2>1. c # b => Shared(c)' = Shared(c)
    BY DEF Stays, Shared, Has
  <2>2. QED
    BY <2>1 DEF Announced
<1>5. ASSUME NEW c \in Backends, Deleting(c)' PROVE op'[c].symbol # s
  BY <1>5 DEF Stays, Deleting, Announced
<1> HIDE DEF Waiting
<1>6. QED
  BY <1>1, <1>2, <1>3, <1>4, <1>5 DEF Announced

\* A symbol that a step marks was disturbed.
LEMMA MarkedNot ==
    ASSUME NEW s \in Symbols, past'[s] = {}, NEW S, NEW w, Mark(S, w)
    PROVE  s \notin S /\ past[s] = {}
  BY DEF Mark

\* Whatever became of the config file, the entry of a symbol that is not marked as cut
\* short is what it should be.
Unhurt(s) == "cut short" \notin past'[s]

LEMMA UnhurtUnmarked ==
    ASSUME NEW s \in Symbols, Unhurt(s), NEW S, Mark(S, "cut short")
    PROVE  s \notin S /\ past'[s] = past[s]
  BY DEF Unhurt, Mark

LEMMA UnhurtUndisturbed ==
    ASSUME NEW s \in Symbols
    PROVE  /\ Undisturbed(s)' => Unhurt(s)
           /\ Intact(s)' => Unhurt(s)
  BY DEF Undisturbed, Intact, Unhurt

LEMMA NotAstray ==
    ASSUME NEW s \in Symbols, NEW new, s \notin Astray(new)
    PROVE  config'[s] = new[s]
  BY DEF Astray

LEMMA SavedConfig ==
    ASSUME IInv, NEW b \in Backends, SaveInConfig(b), NEW s \in Symbols, Unhurt(s)
    PROVE  /\ config'[s] = IF s = op[b].symbol THEN op[b].kind ELSE config[s]
           /\ past'[s] = past[s]
<1> DEFINE saved == [config EXCEPT ![op[b].symbol] = op[b].kind]
<1>1. config \in [Symbols -> Types \cup {NoProbe}]
  BY DEF IInv, HistoryType
<1>2. PICK S : Mark(S, "cut short") /\ Astray(saved) \subseteq S
  <2> HIDE DEF saved
  <2>1. Mark(Astray(saved), "cut short") \/ Mark(Astray(saved) \cup {op[b].symbol}, "cut short")
    BY DEF SaveInConfig, saved
  <2>2. QED
    BY <2>1
<1>3. s \notin S /\ past'[s] = past[s]
  BY <1>2, UnhurtUnmarked
<1>4. config'[s] = saved[s]
  <2> HIDE DEF saved
  <2>1. QED
    BY <1>2, <1>3, NotAstray
<1>5. QED
  BY <1>1, <1>3, <1>4

LEMMA RemovedConfig ==
    ASSUME IInv, NEW b \in Backends, DeleteFromConfig(b), NEW s \in Symbols, Unhurt(s)
    PROVE  /\ config'[s] = IF s = op[b].symbol THEN NoProbe ELSE config[s]
           /\ past'[s] = past[s]
<1> DEFINE rest == [config EXCEPT ![op[b].symbol] = NoProbe]
<1>1. config \in [Symbols -> Types \cup {NoProbe}]
  BY DEF IInv, HistoryType
<1>2. Mark(Astray(rest), "cut short")
  BY DEF DeleteFromConfig
<1> HIDE DEF rest
<1>3. s \notin Astray(rest) /\ past'[s] = past[s]
  BY <1>2, UnhurtUnmarked
<1>4. config'[s] = rest[s]
  BY <1>3, NotAstray
<1>5. QED
  BY <1>1, <1>3, <1>4 DEF rest

LEMMA AbortedConfig ==
    ASSUME NEW b \in Backends, Abort(b), NEW s \in Symbols, Unhurt(s)
    PROVE  /\ config'[s] = config[s] /\ past'[s] = past[s]
           /\ s \notin {op[b].symbol, op[b].current}
<1>1. Mark({op[b].symbol, op[b].current} \cup Astray(config), "cut short")
  BY DEF Abort
<1>2. s \notin {op[b].symbol, op[b].current} \cup Astray(config) /\ past'[s] = past[s]
  BY <1>1, UnhurtUnmarked
<1>3. QED
  BY <1>2, NotAstray

\* A collector that starts finds the entries or nothing.
LEMMA RestartedStorage ==
    ASSUME IInv, StartStatCollector, NEW s \in Symbols, Unhurt(s)
    PROVE  /\ storages'[s] = IF config[s] \in Types THEN NewStorage(config[s]) ELSE NoStorage
           /\ past'[s] = past[s]
<1>1. CASE storages' = StoragesFor(config) /\ UNCHANGED past
  BY <1>1 DEF StoragesFor
<1>2. CASE /\ storages' = StoragesFor(NoConfig)
           /\ Mark({r \in Symbols : config[r] # NoProbe}, "cut short")
  <2>1. config[s] = NoProbe /\ past'[s] = past[s]
    BY <1>2, UnhurtUnmarked
  <2>2. storages'[s] = NoStorage
    BY <1>2, SharedUprobesAssumption DEF StoragesFor, NoConfig
  <2>3. QED
    BY <2>1, <2>2, SharedUprobesAssumption
<1>3. QED
  BY <1>1, <1>2 DEF StartStatCollector

\* Sessions at rest or about to send.
LEMMA ConnectAnnounced ==
    ASSUME IInv, AllAnnounced, NEW b \in Backends, Connect(b), NEW s \in Symbols, Undisturbed(s)'
    PROVE  Announced(s)'
<1>1. /\ UNCHANGED <<queue, batch, storages, currentSymbol, worker, config, missed, closed, op>>
      /\ pc[b] = "away" /\ Goto(b, "idle") /\ SessionType
  BY DEF Connect, collector, channel, IInv, SessionInv
<1>2. op[b] = NoOp
  BY <1>1, AtRest
<1>3. ~ \E w : Mark(Symbols, w)
  BY MarkedNot DEF Undisturbed
<1>4. /\ UNCHANGED past
      /\ probes' = [probes EXCEPT ![b] = [r \in Symbols |->
            IF config[r] = NoProbe THEN NoProbe ELSE NewProbe(config[r], TRUE)]]
  BY <1>3 DEF Connect
<1>5. Announced(s)
  BY <1>1, <1>4 DEF Undisturbed, AllAnnounced
<1>6. \A c \in Backends \ {b} : Stays(c)
  BY <1>1, <1>4 DEF Stays, Goto, SessionType
<1>7. s \in Shared(b)' => config[s] # NoProbe
  <2>1. probes'[b][s] = IF config[s] = NoProbe THEN NoProbe ELSE NewProbe(config[s], TRUE)
    BY <1>1, <1>4 DEF SessionType
  <2>2. QED
    BY <2>1 DEF Shared, Has
<1>8. pc'[b] = "idle" /\ op'[b] = NoOp
  BY <1>1, <1>2 DEF Goto, SessionType
<1>9. ~Deleting(b)'
  BY <1>8 DEF Deleting, NoOp
<1>10. QED
  BY <1>1, <1>5, <1>6, <1>7, <1>8, <1>9, SessionAnnounced

LEMMA StartAnnounced ==
    ASSUME IInv, AllAnnounced, NEW b \in Backends, NEW s \in Symbols, Undisturbed(s)',
           \/ Disconnect(b) \/ TimedStatSend(b)
           \/ \E r \in Symbols, f \in BOOLEAN : DumpUprobeStat(b, r, f)
    PROVE  Announced(s)'
<1>1. /\ UNCHANGED <<queue, batch, storages, currentSymbol, worker, config, missed, closed, past,
                     probes>>
      /\ pc[b] = "idle" /\ Goto(b, "send") /\ SessionType
  BY DEF Disconnect, TimedStatSend, DumpUprobeStat, collector, channel, history, IInv, SessionInv
<1>2. op'[b].name \in {"exit", "tick", "dump"} /\ \A c \in Backends \ {b} : op'[c] = op[c]
  <2>1. CASE Disconnect(b)
    BY <1>1, <2>1 DEF Disconnect, NoOp, SessionType
  <2>2. CASE TimedStatSend(b)
    BY <1>1, <2>2 DEF TimedStatSend, NoOp, SessionType
  <2>3. ASSUME NEW r, NEW f, DumpUprobeStat(b, r, f)
        PROVE  op'[b].name \in {"exit", "tick", "dump"} /\ \A c \in Backends \ {b} : op'[c] = op[c]
    BY <1>1, <2>3 DEF DumpUprobeStat, NoOp, SessionType
  <2>4. QED
    BY <2>1, <2>2, <2>3
<1>3. Announced(s)
  BY <1>1 DEF Undisturbed, AllAnnounced
<1>4. pc'[b] = "send" /\ \A c \in Backends \ {b} : Stays(c)
  BY <1>1, <1>2 DEF Stays, Goto, SessionType
<1>5. ~Deleting(b)' /\ Shared(b)' = Shared(b)
  BY <1>1, <1>2, <1>4 DEF Deleting, Shared, Has
<1>6. QED
  BY <1>1, <1>3, <1>4, <1>5, SessionAnnounced

LEMMA CallAnnounced ==
    ASSUME IInv, AllAnnounced, NEW b \in Backends, NEW r \in Symbols, Call(b, r),
           NEW s \in Symbols, Undisturbed(s)'
    PROVE  Announced(s)'
<1>1. /\ UNCHANGED <<queue, batch, storages, currentSymbol, worker, config, missed, closed, past,
                     pc, op>>
      /\ probes' = [probes EXCEPT ![b][r].count = @ + 1]
      /\ pc[b] = "idle" /\ r \in Shared(b) /\ SessionType
  BY DEF Call, collector, channel, IInv, SessionInv
<1>2. PICK n \in Nat : n = probes[b][r].count
  BY <1>1, AtRest DEF Probe
<1>3. probes' = [probes EXCEPT ![b][r].count = n + 1] /\ n + 1 \in Nat
  BY <1>1, <1>2
<1>4. /\ \A c \in Backends \ {b} : probes'[c] = probes[c]
      /\ \A q \in Symbols \ {r} : probes'[b][q] = probes[b][q]
  BY <1>1, <1>3, AtRest, CountChanged
<1>5. s \in Shared(b)' => s \in Shared(b)
  BY <1>1, <1>4 DEF Shared, Has
<1>6. Announced(s)
  BY <1>1 DEF Undisturbed, AllAnnounced
<1>7. \A c \in Backends \ {b} : Stays(c)
  BY <1>1, <1>4 DEF Stays
<1>8. Deleting(b)' => op'[b].symbol # s
  BY <1>1, <1>6 DEF Announced, Deleting
<1>9. QED
  BY <1>1, <1>5, <1>6, <1>7, <1>8, SessionAnnounced

LEMMA SetUprobeAnnounced ==
    ASSUME IInv, AllAnnounced, NEW b \in Backends, NEW r \in Symbols, NEW t \in Types,
           NEW f \in BOOLEAN, SetUprobe(b, r, t, f), NEW s \in Symbols, Undisturbed(s)'
    PROVE  Announced(s)'
<1>1. /\ UNCHANGED <<queue, batch, storages, currentSymbol, worker, config, missed, closed, past>>
      /\ pc[b] = "idle" /\ SessionType
  BY DEF SetUprobe, collector, channel, IInv, SessionInv
<1>2. Announced(s) /\ op[b] = NoOp
  BY <1>1, AtRest DEF Undisturbed, AllAnnounced
<1>3. CASE f
  <2>1. UNCHANGED probes /\ Goto(b, "putNew")
        /\ op' = [op EXCEPT ![b] = [NoOp EXCEPT !.name = "set", !.symbol = r, !.kind = t]]
    BY <1>3 DEF SetUprobe
  <2>2. op'[b].name = "set" /\ pc'[b] = "putNew" /\ \A c \in Backends \ {b} : Stays(c)
    BY <1>1, <2>1 DEF Stays, Goto, SessionType, NoOp
  <2>3. ~Deleting(b)' /\ Shared(b)' = Shared(b)
    BY <2>1, <2>2 DEF Deleting, Shared, Has
  <2>4. QED
    BY <1>1, <1>2, <2>2, <2>3, SessionAnnounced
<1>4. CASE ~f
  <2>1. SetProbe(b, r, NewProbe(t, FALSE)) /\ UNCHANGED <<op, pc>>
    BY <1>4 DEF SetUprobe
  <2>2. /\ \A c \in Backends \ {b} : Stays(c)
        /\ probes'[b][r] = NewProbe(t, FALSE)
        /\ \A q \in Symbols \ {r} : probes'[b][q] = probes[b][q]
    BY <1>1, <2>1 DEF SetProbe, SessionType, Stays
  <2>3. s \in Shared(b)' => s \in Shared(b)
    BY <2>2 DEF Shared, Has, NewProbe
  <2>4. ~Deleting(b)'
    BY <1>1, <1>2, <2>1 DEF Deleting, NoOp
  <2>5. QED
    BY <1>1, <1>2, <2>1, <2>2, <2>3, <2>4, SessionAnnounced
<1>5. QED
  BY <1>3, <1>4

\* The data thrown away with the probe are those of a symbol marked as deleted.
LEMMA DeleteUprobeAnnounced ==
    ASSUME IInv, AllAnnounced, NEW b \in Backends, NEW r \in Symbols, NEW f \in BOOLEAN,
           DeleteUprobe(b, r, f), NEW s \in Symbols, Undisturbed(s)'
    PROVE  Announced(s)'
<1>1. /\ UNCHANGED <<queue, batch, storages, currentSymbol, worker, config, closed>>
      /\ pc[b] = "idle" /\ SessionType /\ SetProbe(b, r, NoProbe)
  BY DEF DeleteUprobe, channel, IInv, SessionInv
<1>2. /\ \A c \in Backends \ {b} : probes'[c] = probes[c]
      /\ \A q \in Symbols \ {r} : probes'[b][q] = probes[b][q]
      /\ probes'[b][r] = NoProbe
  BY <1>1 DEF SetProbe, SessionType
<1>3. s \in Shared(b)' => s \in Shared(b)
  BY <1>2 DEF Shared, Has
<1>4. CASE r \in Shared(b)
  <2>1. /\ op' = [op EXCEPT ![b] = [NoOp EXCEPT !.name = "delete", !.symbol = r, !.flag = f,
                                                !.todo = Shared(b) \ {r}]]
        /\ Goto(b, "send")
        /\ Miss(r, b, probes[b][r].count)
        /\ Mark({r}, "deleted")
    BY <1>4 DEF DeleteUprobe
  <2>2. s # r /\ past[s] = {}
    BY <2>1, MarkedNot DEF Undisturbed
  <2>3. Announced(s)
    BY <1>1, <2>2 DEF Undisturbed, AllAnnounced
  <2>4. missed'[s] = missed[s]
    BY <2>1, <2>2 DEF Miss, IInv, CollectorInv, CollectorTypeOK
  <2>5. op'[b].symbol = r /\ pc'[b] = "send" /\ \A c \in Backends \ {b} : Stays(c)
    BY <1>1, <1>2, <2>1 DEF Stays, Goto, SessionType, NoOp
  <2>6. QED
    BY <1>1, <1>3, <2>2, <2>3, <2>4, <2>5, SessionAnnounced
<1>5. CASE r \notin Shared(b)
  <2>1. UNCHANGED <<op, pc, missed, past>>
    BY <1>5 DEF DeleteUprobe
  <2>2. Announced(s)
    BY <1>1, <2>1 DEF Undisturbed, AllAnnounced
  <2>3. \A c \in Backends \ {b} : Stays(c)
    BY <1>2, <2>1 DEF Stays
  <2>4. Deleting(b)' => op'[b].symbol # s
    BY <2>1, <2>2 DEF Announced, Deleting
  <2>5. QED
    BY <1>1, <1>3, <2>1, <2>2, <2>3, <2>4, SessionAnnounced
<1>6. QED
  BY <1>4, <1>5

\* Sessions inside a function.
LEMMA SendAnnounced ==
    ASSUME IInv, AllAnnounced, NEW b \in Backends, SendNext(b) \/ SendDone(b),
           NEW s \in Symbols, Undisturbed(s)'
    PROVE  Announced(s)'
<1>1. /\ UNCHANGED <<queue, batch, storages, currentSymbol, worker, config, missed, closed, past>>
      /\ pc[b] = "send" /\ SessionType
  BY DEF SendNext, SendDone, collector, channel, history, IInv, SessionInv
<1>2. Announced(s)
  BY <1>1 DEF Undisturbed, AllAnnounced
<1>3. CASE SendNext(b)
  <2>1. PICK r \in Busy(b) :
           /\ op' = [op EXCEPT ![b].todo = @ \ {r}, ![b].current = r, ![b].left = probes[b][r].count]
           /\ IF probes[b][r].type = "TIME" THEN probes' = [probes EXCEPT ![b][r].count = 0]
              ELSE UNCHANGED probes
    BY <1>3 DEF SendNext
  <2>2. r \in Shared(b) /\ r \in Symbols /\ probes[b][r] \in Probe
    <3>1. r \in Shared(b)
      BY AtRest DEF OpAt, Busy
    <3>2. QED
      BY <3>1, SharedType, AtRest
  <2>3. /\ \A c \in Backends \ {b} : probes'[c] = probes[c]
        /\ \A q \in Symbols \ {r} : probes'[b][q] = probes[b][q]
    BY <1>1, <2>1, <2>2, CountChanged
  <2>4. s \in Shared(b)' => s \in Shared(b)
    BY <2>2, <2>3 DEF Shared, Has
  <2>5. /\ pc'[b] = "putData" /\ op'[b].name = op[b].name /\ op'[b].symbol = op[b].symbol
        /\ \A c \in Backends \ {b} : Stays(c)
    <3>1. Goto(b, "putData")
      BY <1>3 DEF SendNext
    <3>2. op[b] \in OpSet /\ \A c \in Backends \ {b} : op'[c] = op[c]
      BY <1>1, <2>1 DEF SessionType
    <3>3. op'[b] = [op[b] EXCEPT !.todo = @ \ {r}, !.current = r, !.left = probes[b][r].count]
      BY <1>1, <2>1 DEF SessionType
    <3>4. op'[b].name = op[b].name /\ op'[b].symbol = op[b].symbol
      BY <3>2, <3>3 DEF OpSet
    <3>5. QED
      BY <1>1, <2>3, <3>1, <3>2, <3>4 DEF SessionType, Stays, Goto
  <2>6. Deleting(b)' => op'[b].symbol # s
    BY <1>2, <2>5 DEF Deleting, Announced
  <2>7. QED
    BY <1>1, <1>2, <2>4, <2>5, <2>6, SessionAnnounced
<1>4. CASE SendDone(b)
  <2>1. OpAt(b) /\ op[b].name \in {"dump", "delete", "tick", "exit"}
    BY <1>1, AtRest DEF OpAt
  <2>2. /\ \A c \in Backends \ {b} : Stays(c)
        /\ pc'[b] \in {"putWrite", "putDelete", "away", "idle"}
        /\ pc'[b] = "putDelete" => op[b].name = "delete" /\ op'[b] = op[b]
        /\ pc'[b] = "putWrite" => op[b].name = "dump" /\ op'[b] = op[b]
        /\ pc'[b] \in {"away", "idle"} => op'[b] = NoOp
        /\ probes'[b] = probes[b] \/ \A r \in Symbols : probes'[b][r] = NoProbe
    BY <1>1, <1>4, <2>1 DEF SendDone, Goto, SessionType, Stays
  <2>3. s \in Shared(b)' => s \in Shared(b)
    BY <2>2 DEF Shared, Has
  <2>4. Deleting(b)' => op'[b].symbol # s
    BY <1>2, <2>2 DEF Deleting, Announced, NoOp
  <2>5. QED
    BY <1>1, <1>2, <2>2, <2>3, <2>4, SessionAnnounced
<1>5. QED
  BY <1>3, <1>4

LEMMA FinishAnnounced ==
    ASSUME IInv, AllAnnounced, NEW b \in Backends, WaitLatch(b) \/ DeleteFromConfig(b) \/ Abort(b),
           NEW s \in Symbols, Undisturbed(s)'
    PROVE  Announced(s)'
<1>1. /\ UNCHANGED <<queue, batch, storages, currentSymbol, worker, closed, probes>>
      /\ SessionType
  BY DEF WaitLatch, DeleteFromConfig, Abort, collector, channel, IInv, SessionInv
<1>2. Unhurt(s)
  BY UnhurtUndisturbed
<1>3. past[s] = {} /\ (Abort(b) => s \notin {op[b].symbol, op[b].current})
  <2>1. CASE Abort(b)
    BY <1>2, <2>1, AbortedConfig DEF Undisturbed
  <2>2. CASE DeleteFromConfig(b) /\ ~Abort(b)
    BY <1>2, <2>2, RemovedConfig DEF Undisturbed
  <2>3. CASE WaitLatch(b) /\ ~Abort(b)
    BY <2>3 DEF WaitLatch, history, Undisturbed
  <2>4. QED
    BY <2>1, <2>2, <2>3
<1>4. Announced(s)
  BY <1>1, <1>3 DEF Undisturbed, AllAnnounced
<1>5. config'[s] = config[s]
  <2>1. CASE DeleteFromConfig(b)
    <3>1. op[b].symbol # s
      BY <1>4, <2>1 DEF DeleteFromConfig, Announced, Deleting
    <3>2. QED
      BY <1>2, <2>1, <3>1, RemovedConfig
  <2>2. CASE WaitLatch(b)
    BY <2>2 DEF WaitLatch
  <2>3. CASE Abort(b)
    BY <1>2, <2>3, AbortedConfig
  <2>4. QED
    BY <2>1, <2>2, <2>3
<1>6. missed'[s] = missed[s]
  <2>1. CASE Abort(b)
    <3>1. UNCHANGED missed \/ \E n : Miss(op[b].current, b, n)
      BY <2>1 DEF Abort
    <3>2. QED
      BY <1>3, <2>1, <3>1 DEF Miss, IInv, CollectorInv, CollectorTypeOK
  <2>2. CASE WaitLatch(b) \/ DeleteFromConfig(b)
    BY <2>2 DEF WaitLatch, DeleteFromConfig, collector
  <2>3. QED
    BY <2>1, <2>2
<1>7. /\ \A c \in Backends \ {b} : Stays(c)
      /\ \/ pc'[b] = "idle" /\ op'[b] = NoOp
         \/ pc'[b] = "wait" /\ op'[b] = op[b] /\ pc[b] = "unsave"
  <2>1. CASE Finish(b)
    BY <1>1, <2>1 DEF Finish, Goto, Stays, SessionType
  <2>2. CASE DeleteFromConfig(b) /\ ~Finish(b)
    BY <1>1, <2>2 DEF DeleteFromConfig, Goto, Stays, SessionType
  <2>3. QED
    BY <2>1, <2>2 DEF WaitLatch, Abort
<1>8. Deleting(b)' => op'[b].symbol # s
  BY <1>4, <1>7 DEF Deleting, Announced, NoOp
<1>9. ~(pc[b] = "save" /\ op[b].symbol = s) /\ pc'[b] # "save"
  BY <1>3, <1>7 DEF WaitLatch, DeleteFromConfig
<1>10. Shared(b)' = Shared(b)
  BY <1>1 DEF Shared, Has
<1>11. QED
  BY <1>1, <1>4, <1>5, <1>6, <1>7, <1>8, <1>9, <1>10, SessionAnnounced

\* The config has the entry that the message announced.
LEMMA SaveAnnounced ==
    ASSUME IInv, AllAnnounced, NEW b \in Backends, SaveInConfig(b),
           NEW s \in Symbols, Undisturbed(s)'
    PROVE  Announced(s)'
<1> DEFINE r == op[b].symbol
<1>1. /\ UNCHANGED <<queue, batch, storages, currentSymbol, worker, missed, closed>>
      /\ pc[b] = "save" /\ SessionType
  BY DEF SaveInConfig, collector, channel, IInv, SessionInv
<1>2. r \in Symbols /\ op[b].kind \in Types /\ op[b].kind # NoProbe
  BY <1>1, AtRest, SharedUprobesAssumption DEF OpAt
<1>3. /\ s = r => config'[s] # NoProbe
      /\ s # r => config'[s] = config[s]
      /\ past[s] = {}
  BY <1>2, UnhurtUndisturbed, SavedConfig DEF Undisturbed
<1>4. CASE SetProbe(b, r, NewProbe(op[b].kind, TRUE)) /\ Finish(b)
  <2>1. Announced(s)
    BY <1>1, <1>3 DEF Undisturbed, AllAnnounced
  <2>2. /\ \A c \in Backends \ {b} : Stays(c)
        /\ \A q \in Symbols \ {r} : probes'[b][q] = probes[b][q]
        /\ pc'[b] = "idle" /\ op'[b] = NoOp
    BY <1>1, <1>4 DEF SetProbe, Finish, Goto, SessionType, Stays
  <2>3. ~Deleting(b)'
    BY <2>2 DEF Deleting, NoOp
  <2>4. CASE s # r
    <3>1. s \in Shared(b)' => s \in Shared(b)
      BY <2>2, <2>4 DEF Shared, Has
    <3>2. QED
      BY <1>1, <1>3, <2>1, <2>2, <2>3, <2>4, <3>1, SessionAnnounced
  <2>5. CASE s = r
    <3>1. Waiting(s, "DELETE")' = Waiting(s, "DELETE") /\ Waiting(s, "NEW")' = Waiting(s, "NEW")
          /\ Waiting(s, "CUSTOM")' = Waiting(s, "CUSTOM")
      BY <1>1 DEF Waiting, Transit
    <3>2. Ready(s) => Ready(s)'
      BY <1>1, <1>3, <2>5 DEF Ready, Present
    <3>3. Ready(s) \/ Waiting(s, "NEW") # {}
      BY <1>1, <2>1, <2>5 DEF Announced, Saving
    <3>4. \A c \in Backends : Deleting(c)' => op'[c].symbol # s
      BY <2>1, <2>2, <2>3 DEF Stays, Deleting, Announced
    <3> HIDE DEF Waiting
    <3>5. QED
      BY <1>1, <1>3, <2>1, <2>5, <3>1, <3>2, <3>3, <3>4 DEF Announced
  <2>6. QED
    BY <2>4, <2>5
<1>5. CASE /\ \E S : Mark(S \cup {r}, "cut short")
           /\ Goto(b, "putDelete") /\ UNCHANGED <<probes, op, latch>>
  <2>1. s # r /\ past[s] = {}
    <3>1. PICK S, w : Mark(S \cup {r}, w)
      BY <1>5
    <3>2. past'[s] = {}
      BY DEF Undisturbed
    <3>3. s \notin S \cup {r} /\ past[s] = {}
      BY <3>1, <3>2, MarkedNot
    <3>4. QED
      BY <3>3
  <2>2. Announced(s)
    BY <1>1, <2>1 DEF Undisturbed, AllAnnounced
  <2>3. pc'[b] = "putDelete" /\ \A c \in Backends \ {b} : Stays(c)
    BY <1>1, <1>5 DEF Goto, Stays, SessionType
  <2>4. Shared(b)' = Shared(b)
    BY <1>5 DEF Shared, Has
  <2>5. QED
    BY <1>1, <1>3, <1>5, <2>1, <2>2, <2>3, <2>4, SessionAnnounced
<1>6. QED
  BY <1>4, <1>5 DEF SaveInConfig

\* A put: NEW announces the symbol, and data are put for symbols in the config only.
LEMMA PutAnnounced ==
    ASSUME IInv, NEW s \in Symbols, Announced(s), NEW b \in Backends,
           NEW a \in Symbols, NEW m \in Request, Appends(a, m),
           UNCHANGED <<batch, storages, currentSymbol, worker, config>>, missed'[s] = missed[s],
           \A c \in Backends \ {b} : Stays(c),
           m.type = "DELETE" => a # s,
           m.type = "CUSTOM" => a \in Shared(b),
           s \in Shared(b)' => s \in Shared(b),
           Deleting(b)' => op'[b].symbol # s,
           pc[b] # "save",
           (pc'[b] = "save" /\ op'[b].symbol = s) <=> (m.type = "NEW" /\ a = s)
    PROVE  Announced(s)'
<1> DEFINE n == Len(Transit)
           D == Waiting(s, "DELETE")
           N == Waiting(s, "NEW")
           C == Waiting(s, "CUSTOM")
<1>1. /\ D' = D
      /\ N' = N \cup IF m.type = "NEW" /\ a = s THEN {n + 2} ELSE {}
      /\ C' = C \cup IF m.type = "CUSTOM" /\ a = s THEN {n + 2} ELSE {}
      /\ n \in Nat /\ N \subseteq 1 .. n
  <2>1. /\ n \in Nat
        /\ \A t : t # "SYMBOL" =>
              /\ Waiting(s, t) \subseteq 1 .. n
              /\ Waiting(s, t)' = Waiting(s, t) \cup IF m.type = t /\ a = s THEN {n + 2} ELSE {}
    BY PutWaiting
  <2> HIDE DEF Waiting
  <2>2. QED
    BY <2>1
<1>2. Ready(s)' = Ready(s)
  BY DEF Ready, Present
<1>3. Saving(s)' <=> Saving(s) \/ (m.type = "NEW" /\ a = s)
  BY DEF Saving, Stays
<1>4. ASSUME NEW c \in Backends PROVE s \in Shared(c)' => config'[s] # NoProbe
  <2>1. c # b => Shared(c)' = Shared(c)
    BY DEF Stays, Shared, Has
  <2>2. QED
    BY <2>1 DEF Announced
<1>5. ASSUME NEW c \in Backends, Deleting(c)' PROVE op'[c].symbol # s
  BY <1>5 DEF Stays, Deleting, Announced
<1>6. D = {} /\ missed[s] = Nothing
       /\ (Ready(s) \/ \A i \in C : \E j \in N : j < i)
       /\ ((Ready(s) \/ N # {}) <=> (config[s] # NoProbe \/ Saving(s)))
       /\ \A c \in Backends : s \in Shared(c) => config[s] # NoProbe
  BY DEF Announced
<1> HIDE DEF D, N, C, n
<1>7. Ready(s) \/ \A i \in C' : \E j \in N' : j < i
  <2>1. SUFFICES ASSUME ~Ready(s), NEW i \in C' PROVE \E j \in N' : j < i
    OBVIOUS
  <2>2. CASE i \in C
    BY <1>1, <1>6, <2>1, <2>2
  <2>3. CASE i \notin C
    <3>1. i = n + 2 /\ m.type = "CUSTOM" /\ a = s
      BY <1>1, <2>1, <2>3
    <3>2. N # {}
      BY <1>6, <2>1, <3>1
    <3>3. PICK j \in N : TRUE
      BY <3>2
    <3>4. j < i /\ j \in N'
      BY <1>1, <3>1, <3>3
    <3>5. QED
      BY <3>4
  <2>4. QED
    BY <2>2, <2>3
<1>8. (Ready(s) \/ N' # {}) <=> (config[s] # NoProbe \/ Saving(s)')
  <2>1. CASE m.type = "NEW" /\ a = s
    BY <1>1, <1>3, <2>1
  <2>2. CASE ~(m.type = "NEW" /\ a = s)
    BY <1>1, <1>3, <1>6, <2>2
  <2>3. QED
    BY <2>1, <2>2
<1>9. QED
  BY <1>1, <1>2, <1>4, <1>5, <1>6, <1>7, <1>8 DEF Announced, D, N, C

LEMMA PutDataAnnounced ==
    ASSUME IInv, AllAnnounced, NEW b \in Backends, PutData(b), NEW s \in Symbols, Undisturbed(s)'
    PROVE  Announced(s)'
<1> DEFINE r == op[b].current
<1>1. /\ pc[b] = "putData" /\ SessionType
      /\ UNCHANGED <<storages, currentSymbol, config, batch, closed, worker, past>>
  BY DEF PutData, history, IInv, SessionInv
<1>2. Announced(s) /\ ~closed
  BY <1>1 DEF Undisturbed, AllAnnounced
<1>3. PICK k \in 1 .. op[b].left :
         /\ Stored(b, r, [type |-> "CUSTOM", kind |-> probes[b][r].type, from |-> b, n |-> k])
         /\ Remain(b, op[b].left - k)
         /\ UNCHANGED missed
  BY <1>2 DEF PutData
<1>4. PICK m : m = [type |-> "CUSTOM", kind |-> probes[b][r].type, from |-> b, n |-> k]
  OBVIOUS
<1>5. r \in Symbols /\ r \in Shared(b) /\ probes[b][r] \in Probe /\ m \in Request
      /\ m.type = "CUSTOM"
  BY <1>1, <1>4, DataMessage DEF Request, IInv
<1>6. Appends(r, m)
  BY <1>3, <1>4 DEF Stored, Appends
<1>7. op[b] \in OpSet /\ op[b].left - k \in Int
  BY <1>1 DEF SessionType, OpSet
<1>8. /\ \A c \in Backends \ {b} : Stays(c)
      /\ pc'[b] \in {"putData", "send"}
      /\ op'[b].name = op[b].name /\ op'[b].symbol = op[b].symbol
      /\ \A q \in Symbols \ {r} : probes'[b][q] = probes[b][q]
  <2>1. CASE op[b].left - k > 0
    <3>1. op' = [op EXCEPT ![b].left = op[b].left - k] /\ UNCHANGED <<probes, pc>>
      BY <1>3, <2>1 DEF Remain
    <3>2. op'[b] = [op[b] EXCEPT !.left = op[b].left - k] /\ \A c \in Backends \ {b} : op'[c] = op[c]
      BY <1>1, <3>1 DEF SessionType
    <3>3. op'[b].name = op[b].name /\ op'[b].symbol = op[b].symbol
      BY <1>7, <3>2 DEF OpSet
    <3>4. QED
      BY <1>1, <3>1, <3>2, <3>3 DEF Stays
  <2>2. CASE ~(op[b].left - k > 0)
    <3>1. /\ op' = [op EXCEPT ![b].current = NoSymbol, ![b].left = 0]
          /\ probes' = [probes EXCEPT ![b][r].count = 0]
          /\ Goto(b, "send")
      BY <1>3, <2>2 DEF Remain
    <3>2. op'[b] = [op[b] EXCEPT !.current = NoSymbol, !.left = 0]
          /\ \A c \in Backends \ {b} : op'[c] = op[c]
      BY <1>1, <3>1 DEF SessionType
    <3>3. op'[b].name = op[b].name /\ op'[b].symbol = op[b].symbol
      BY <1>7, <3>2 DEF OpSet
    <3>4. /\ \A c \in Backends \ {b} : probes'[c] = probes[c]
          /\ \A q \in Symbols \ {r} : probes'[b][q] = probes[b][q]
      <4>1. PICK z \in Nat : z = 0
        OBVIOUS
      <4>2. probes' = [probes EXCEPT ![b][r].count = z]
        BY <3>1, <4>1
      <4>3. QED
        BY <1>1, <1>5, <4>2, CountChanged
    <3>5. QED
      BY <1>1, <3>1, <3>2, <3>3, <3>4 DEF Stays, Goto, SessionType
  <2>3. QED
    BY <2>1, <2>2
<1>9. s \in Shared(b)' => s \in Shared(b)
  BY <1>5, <1>8 DEF Shared, Has
<1>10. Deleting(b)' => op'[b].symbol # s
  BY <1>2, <1>8 DEF Deleting, Announced
<1> HIDE DEF r
<1>11. QED
  BY <1>1, <1>2, <1>3, <1>5, <1>6, <1>8, <1>9, <1>10, PutAnnounced

LEMMA PutsAnnounced ==
    ASSUME IInv, AllAnnounced, NEW b \in Backends, PutNew(b) \/ PutWrite(b) \/ PutDelete(b),
           NEW s \in Symbols, Undisturbed(s)'
    PROVE  Announced(s)'
<1>1. PICK m : \/ pc[b] = "putNew" /\ m = [type |-> "NEW", kind |-> op[b].kind] /\ PutNew(b)
               \/ pc[b] = "putWrite" /\ m = [type |-> "WRITE", from |-> b, flag |-> op[b].flag]
                  /\ PutWrite(b)
               \/ pc[b] = "putDelete" /\ m = [type |-> "DELETE", from |-> b, flag |-> op[b].flag]
                  /\ PutDelete(b)
  BY DEF PutNew, PutWrite, PutDelete
<1>2. /\ Put(b, op[b].symbol, m) /\ SessionType
      /\ UNCHANGED <<batch, storages, currentSymbol, missed, config, worker, closed, past, probes, op>>
      /\ pc' = [pc EXCEPT ![b] = CASE pc[b] = "putNew" -> "save" [] pc[b] = "putWrite" -> "wait"
                                   [] OTHER -> "unsave"]
  <2>1. CASE pc[b] = "putNew"
    BY <1>1, <2>1 DEF PutNew, history, collector, Goto, IInv, SessionInv
  <2>2. CASE pc[b] = "putWrite"
    BY <1>1, <2>2 DEF PutWrite, history, collector, Goto, IInv, SessionInv
  <2>3. CASE pc[b] = "putDelete"
    BY <1>1, <2>3 DEF PutDelete, history, collector, Goto, IInv, SessionInv
  <2>4. QED
    BY <1>1, <2>1, <2>2, <2>3
<1>3. Announced(s) /\ ~closed
  BY <1>2 DEF Undisturbed, AllAnnounced
<1>4. PICK a : a = op[b].symbol
  OBVIOUS
<1>5. a \in Symbols /\ m \in Request
      /\ m.type = CASE pc[b] = "putNew" -> "NEW" [] pc[b] = "putWrite" -> "WRITE" [] OTHER -> "DELETE"
  <2>1. CASE pc[b] = "putNew"
    BY <1>1, <1>4, <2>1, NewMessage DEF IInv, Request
  <2>2. CASE pc[b] = "putWrite"
    <3>1. m = [type |-> "WRITE", from |-> b, flag |-> op[b].flag]
      BY <1>1, <2>2
    <3>2. a \in Symbols /\ m \in Message
      BY <1>4, <2>2, <3>1, RequestMessage DEF IInv
    <3>3. m.type = "WRITE"
      BY <3>1
    <3>4. QED
      BY <2>2, <3>2, <3>3 DEF Request
  <2>3. CASE pc[b] = "putDelete"
    <3>1. m = [type |-> "DELETE", from |-> b, flag |-> op[b].flag]
      BY <1>1, <2>3
    <3>2. a \in Symbols /\ m \in Message
      BY <1>4, <2>3, <3>1, RequestMessage DEF IInv
    <3>3. m.type = "DELETE"
      BY <3>1
    <3>4. QED
      BY <2>3, <3>2, <3>3 DEF Request
  <2>4. QED
    BY <1>1, <2>1, <2>2, <2>3
<1>6. Appends(a, m)
  BY <1>2, <1>3, <1>4 DEF Put, Stored, Appends
<1>7. /\ \A c \in Backends \ {b} : Stays(c)
      /\ pc'[b] = CASE pc[b] = "putNew" -> "save" [] pc[b] = "putWrite" -> "wait"
                    [] OTHER -> "unsave"
      /\ op'[b] = op[b] /\ Shared(b)' = Shared(b)
  BY <1>2 DEF SessionType, Stays, Shared, Has
<1>8. pc[b] \in {"putNew", "putWrite", "putDelete"}
  BY <1>1
<1>9. Deleting(b)' => op'[b].symbol # s
  <2>1. pc[b] = "putDelete" \/ op[b].name = "delete" => op[b].symbol # s
    BY <1>3 DEF Announced, Deleting
  <2>2. QED
    BY <1>7, <1>8, <2>1 DEF Deleting
<1>10. m.type = "DELETE" => a # s
  <2>1. m.type = "DELETE" => pc[b] = "putDelete"
    BY <1>5, <1>8
  <2>2. QED
    BY <1>3, <1>4, <2>1 DEF Announced, Deleting
<1>11. /\ m.type # "CUSTOM" /\ pc[b] # "save"
       /\ (pc'[b] = "save" /\ op'[b].symbol = s) <=> (m.type = "NEW" /\ a = s)
  BY <1>4, <1>5, <1>7, <1>8
<1>12. UNCHANGED <<batch, storages, currentSymbol, worker, config>> /\ missed'[s] = missed[s]
  BY <1>2
<1>13. QED
  BY <1>3, <1>5, <1>6, <1>7, <1>9, <1>10, <1>11, <1>12, PutAnnounced

\* The steps of the collector.
LEMMA TakeBatchAnnounced ==
    ASSUME IInv, AllAnnounced, TakeBatch, NEW s \in Symbols, Undisturbed(s)'
    PROVE  Announced(s)'
<1>1. /\ batch = <<>> /\ batch' = queue /\ queue' = <<>>
      /\ UNCHANGED <<storages, currentSymbol, missed, config, closed, worker, probes, pc, op, past>>
  BY DEF TakeBatch, collector, history
<1>2. Transit' = Transit
  <2>1. queue \in Seq(Message)
    BY DEF IInv, CollectorInv, ChannelType
  <2>2. queue \o <<>> = queue /\ <<>> \o queue = queue
    BY <2>1, Transits
  <2>3. QED
    BY <1>1, <2>2 DEF Transit
<1>3. \A t : Waiting(s, t)' = Waiting(s, t)
  BY <1>1, <1>2 DEF Waiting
<1>4. Announced(s)
  BY <1>1 DEF Undisturbed, AllAnnounced
<1> HIDE DEF Waiting
<1>5. QED
  BY <1>1, <1>3, <1>4 DEF Announced, Ready, Present, Saving, Deleting, Shared, Has

LEMMA StartStatCollectorAnnounced ==
    ASSUME IInv, AllAnnounced, StartStatCollector, NEW s \in Symbols, Undisturbed(s)'
    PROVE  Announced(s)'
<1>1. /\ worker = "failed" /\ worker' = "second"
      /\ UNCHANGED <<currentSymbol, missed, config, queue, batch, closed, probes, pc, op>>
      /\ past[s] = {}
      /\ storages'[s] = IF config[s] \in Types THEN NewStorage(config[s]) ELSE NoStorage
  BY RestartedStorage, UnhurtUndisturbed DEF StartStatCollector, backend, Undisturbed
<1>2. Waiting(s, "DELETE")' = Waiting(s, "DELETE") /\ Waiting(s, "NEW")' = Waiting(s, "NEW")
      /\ Waiting(s, "CUSTOM")' = Waiting(s, "CUSTOM")
  BY <1>1 DEF Waiting, Transit
<1>3. Ready(s)' <=> Ready(s)
  <2>1. storages'[s] = IF config[s] \in Types THEN NewStorage(config[s]) ELSE NoStorage
    BY <1>1
  <2>2. config[s] # NoProbe <=> config[s] \in Types
    BY SharedUprobesAssumption DEF IInv, HistoryType
  <2>3. config[s] \in Types => NewStorage(config[s]) # NoStorage
    BY SharedUprobesAssumption, PlusType DEF NewStorage, Storage
  <2>4. QED
    BY <1>1, <2>1, <2>2, <2>3 DEF Ready, Present
<1>4. Announced(s)
  BY <1>1 DEF Undisturbed, AllAnnounced
<1> HIDE DEF Waiting
<1>5. QED
  BY <1>1, <1>2, <1>3, <1>4 DEF Announced, Saving, Deleting, Shared, Has

\* Of a collector that fails only the storages and the messages it took are lost; the
\* entry in the config stands for both.
LEMMA EndsAnnounced ==
    ASSUME IInv, AllAnnounced, Stop \/ CollectorFails, NEW s \in Symbols, Undisturbed(s)'
    PROVE  Announced(s)'
<1>1. CollectorFails
  BY DEF Stop, Undisturbed
<1>2. /\ UNCHANGED <<queue, config, closed, probes, pc, op>>
      /\ batch' = <<>> /\ worker = "first" /\ worker' = "failed" /\ currentSymbol' = NoSymbol
  BY <1>1 DEF CollectorFails, Ends, WriteAllAtExit
<1>3. Mark({r \in Symbols : missed'[r] # missed[r]}
              \cup {op[b].symbol : b \in {c \in Backends : pc[c] \in {"save", "unsave"}}},
           "cut short")
  BY <1>1 DEF CollectorFails
<1>4. /\ missed'[s] = missed[s] /\ past[s] = {}
      /\ \A b \in Backends : pc[b] = "save" => op[b].symbol # s
  <2> DEFINE S == {r \in Symbols : missed'[r] # missed[r]}
                    \cup {op[b].symbol : b \in {c \in Backends : pc[c] \in {"save", "unsave"}}}
  <2>1. Mark(S, "cut short") /\ past'[s] = {}
    BY <1>3 DEF Undisturbed
  <2> HIDE DEF S
  <2>2. s \notin S /\ past[s] = {}
    BY <2>1, MarkedNot
  <2>3. QED
    BY <2>2 DEF S
<1>5. Announced(s)
  BY <1>2, <1>4 DEF Undisturbed, AllAnnounced
<1>6. ~Saving(s) /\ ~Saving(s)'
  BY <1>2, <1>4 DEF Saving
<1>7. /\ batch \in Seq(Message) /\ queue \in Seq(Message) /\ StartsNamed(queue)
  BY DEF IInv, CollectorInv, ChannelType, PairInv
<1>8. Transit' = queue
  <2>1. <<>> \o queue = queue
    BY <1>7, Transits
  <2>2. QED
    BY <1>2, <2>1 DEF Transit
<1>9. ASSUME NEW t, t # "SYMBOL"
      PROVE  \A i \in Waiting(s, t)' : Len(batch) + i \in Waiting(s, t)
  <2>1. Waiting(s, t)' = For(queue, NoSymbol, s, t)
    BY <1>2, <1>8 DEF Waiting
  <2>2. \A i \in For(queue, NoSymbol, s, t) : Len(batch) + i \in For(batch \o queue, currentSymbol, s, t)
    BY <1>7, <1>9, ForJoined
  <2>3. QED
    BY <2>1, <2>2 DEF Waiting, Transit
<1>10. /\ Waiting(s, "DELETE")' # {} => Waiting(s, "DELETE") # {}
       /\ Waiting(s, "NEW")' # {} => Waiting(s, "NEW") # {}
       /\ Waiting(s, "CUSTOM")' # {} => Waiting(s, "CUSTOM") # {}
  BY <1>9
<1> HIDE DEF Waiting
<1>11. Ready(s)' <=> config[s] # NoProbe
  BY <1>2 DEF Ready
<1>12. Ready(s)' \/ Waiting(s, "CUSTOM")' = {}
  BY <1>5, <1>6, <1>10, <1>11 DEF Announced
<1>13. QED
  BY <1>2, <1>4, <1>5, <1>6, <1>10, <1>11, <1>12 DEF Announced, Deleting, Shared, Has

LEMMA ProcessAnnounced ==
    ASSUME IInv, AllAnnounced, Process, NEW s \in Symbols, Undisturbed(s)'
    PROVE  Announced(s)'
<1> DEFINE m == Head(batch)
           n == Len(Transit)
           D == Waiting(s, "DELETE")
           N == Waiting(s, "NEW")
           C == Waiting(s, "CUSTOM")
<1>1. /\ ProcessOneMessage(m) /\ m \in Message
      /\ m.type = "SYMBOL" \/ Fresh
      /\ UNCHANGED <<config, queue, closed, worker, probes, pc, op, past>>
      /\ worker # "failed" /\ batch # <<>> /\ batch' = Tail(batch)
      /\ CollectorTypeOK
  BY ProcessesFresh DEF Process, IInv, history, Running, CollectorInv
<1>2. Announced(s)
  BY <1>1 DEF Undisturbed, AllAnnounced
<1>3. /\ D = {} /\ missed[s] = Nothing
      /\ (Ready(s) \/ \A i \in C : \E j \in N : j < i)
      /\ ((Ready(s) \/ N # {}) <=> (config[s] # NoProbe \/ Saving(s)))
  BY <1>2 DEF Announced
<1>4. /\ D' \subseteq 1 .. n - 1 /\ \A i \in 1 .. n - 1 : i \in D' <=> i + 1 \in D
      /\ N' \subseteq 1 .. n - 1 /\ \A i \in 1 .. n - 1 : i \in N' <=> i + 1 \in N
      /\ C' \subseteq 1 .. n - 1 /\ \A i \in 1 .. n - 1 : i \in C' <=> i + 1 \in C
      /\ D \subseteq 1 .. n /\ N \subseteq 1 .. n /\ C \subseteq 1 .. n
      /\ 1 \in D <=> m.type = "DELETE" /\ currentSymbol = s
      /\ 1 \in N <=> m.type = "NEW" /\ currentSymbol = s
      /\ 1 \in C <=> m.type = "CUSTOM" /\ currentSymbol = s
      /\ n \in Nat
  BY TakenWaiting
<1>5. Saving(s)' = Saving(s)
  BY <1>1 DEF Saving
<1>6. /\ \A b \in Backends : s \in Shared(b)' => config'[s] # NoProbe
      /\ \A b \in Backends : Deleting(b)' => op'[b].symbol # s
  BY <1>1, <1>2 DEF Announced, Deleting, Shared, Has
<1>7. (Ready(s) <=> Present(s)) /\ (Ready(s)' <=> Present(s)')
  BY <1>1 DEF Ready
<1> HIDE DEF D, N, C, n, m
<1>8. D' = {}
  BY <1>3, <1>4
<1>9. ASSUME ~(m.type \in {"NEW", "DELETE"} /\ currentSymbol = s)
      PROVE  Ready(s)' <=> Ready(s)
  BY <1>7, <1>9, StorageKept DEF m
<1>10. ASSUME m.type = "NEW", currentSymbol = s
       PROVE  Ready(s)'
  BY <1>7, <1>10, StorageMade DEF m
<1>11. missed'[s] = missed[s]
  <2>1. CASE m.type \in {"SYMBOL", "NEW", "WRITE"}
    BY <1>1, <2>1 DEF ProcessOneMessage, ProcessSymbol, ProcessNewSharedUprobe, ProcessWriteStat
  <2>2. CASE currentSymbol # s
    BY <1>1, <2>2 DEF ProcessOneMessage, ProcessSymbol, ProcessNewSharedUprobe,
       ProcessDeleteSharedUprobe, ProcessWriteStat, ProcessCustom, CollectorTypeOK, collector
  <2>3. CASE m.type = "CUSTOM" /\ currentSymbol = s
    <3>1. 1 \in C /\ \A j \in N : ~(j < 1)
      BY <1>4, <2>3
    <3>2. Present(s)
      BY <1>3, <1>7, <3>1
    <3>3. currentStorage = "live"
      BY <1>1, <2>3, <3>2 DEF Fresh
    <3>4. QED
      BY <1>1, <2>3, <3>3 DEF ProcessOneMessage, ProcessCustom
  <2>4. CASE m.type = "DELETE" /\ currentSymbol = s
    BY <1>3, <1>4, <2>4
  <2>5. QED
    BY <1>1, <2>1, <2>2, <2>3, <2>4, MessageTypes
<1>12. Ready(s)' \/ \A i \in C' : \E j \in N' : j < i
  <2>1. SUFFICES ASSUME ~Ready(s)', NEW i \in C' PROVE \E j \in N' : j < i
    OBVIOUS
  <2>2. ~(m.type = "NEW" /\ currentSymbol = s) /\ ~(m.type = "DELETE" /\ currentSymbol = s)
    BY <1>3, <1>4, <1>10, <2>1
  <2>3. ~Ready(s)
    BY <1>9, <2>1, <2>2
  <2>4. i \in 1 .. n - 1 /\ i + 1 \in C
    BY <1>4, <2>1
  <2>5. PICK j \in N : j < i + 1
    BY <1>3, <2>3, <2>4
  <2>6. j # 1 /\ j \in 1 .. n
    BY <1>4, <2>2
  <2>7. j - 1 \in 1 .. n - 1 /\ (j - 1) + 1 = j /\ j - 1 < i
    BY <1>4, <2>4, <2>5, <2>6
  <2>8. j - 1 \in N'
    BY <1>4, <2>5, <2>7
  <2>9. QED
    BY <2>7, <2>8
<1>13. (Ready(s)' \/ N' # {}) <=> (config[s] # NoProbe \/ Saving(s))
  <2>1. CASE m.type = "NEW" /\ currentSymbol = s
    <3>1. N # {}
      BY <1>4, <2>1
    <3>2. QED
      BY <1>3, <1>10, <2>1, <3>1
  <2>2. CASE ~(m.type = "NEW" /\ currentSymbol = s)
    <3>1. ~(m.type = "DELETE" /\ currentSymbol = s)
      BY <1>3, <1>4
    <3>2. Ready(s)' <=> Ready(s)
      BY <1>9, <2>2, <3>1
    <3>3. N' # {} <=> N # {}
      <4>1. ASSUME NEW j \in N PROVE j - 1 \in N'
        <5>1. j # 1 /\ j \in 1 .. n
          BY <1>4, <2>2
        <5>2. j - 1 \in 1 .. n - 1 /\ (j - 1) + 1 = j
          BY <1>4, <5>1
        <5>3. QED
          BY <1>4, <5>2
      <4>2. ASSUME NEW j \in N' PROVE j + 1 \in N
        BY <1>4
      <4>3. QED
        BY <4>1, <4>2
    <3>4. QED
      BY <1>3, <3>2, <3>3
  <2>3. QED
    BY <2>1, <2>2
<1>14. QED
  BY <1>1, <1>3, <1>5, <1>6, <1>8, <1>11, <1>12, <1>13 DEF Announced, D, N, C

LEMMA InitAnnounced == Init => AllAnnounced
<1> SUFFICES ASSUME Init, NEW s \in Symbols PROVE Announced(s)
  BY DEF AllAnnounced
<1>1. Transit = <<>>
  BY DEF Init, Transit
<1>2. \A t : Waiting(s, t) = {}
  BY <1>1 DEF Waiting, For
<1>3. Ready(s) <=> config[s] # NoProbe
  <2>1. storages[s] = IF config[s] \in Types THEN NewStorage(config[s]) ELSE NoStorage
    BY DEF Init, CollectorInit, StoragesFor
  <2>2. config[s] \in Types <=> config[s] # NoProbe
    BY SharedUprobesAssumption DEF Init
  <2>3. config[s] \in Types => NewStorage(config[s]) \in Storage
    BY PlusType DEF Storage, NewStorage
  <2>4. QED
    BY <2>1, <2>2, <2>3, SharedUprobesAssumption DEF Init, Ready, Present
<1>4. \A b \in Backends : Shared(b) = {} /\ op[b].name = "none" /\ pc[b] = "away"
  BY DEF Init, Shared, Has, NoOp
<1>5. missed[s] = Nothing
  BY DEF Init, CollectorInit
<1>6. QED
  BY <1>2, <1>3, <1>4, <1>5 DEF Announced, Saving, Deleting

LEMMA AnnouncedStep == IInv /\ AllAnnounced /\ [Next]_vars => AllAnnounced'
<1> SUFFICES ASSUME IInv, AllAnnounced, [Next]_vars, NEW s \in Symbols, Undisturbed(s)'
             PROVE  Announced(s)'
  BY DEF AllAnnounced
<1>1. ASSUME NEW b \in Backends,
             \/ Connect(b) \/ Disconnect(b) \/ TimedStatSend(b)
             \/ \E r \in Symbols :
                   \/ Call(b, r)
                   \/ \E t \in Types, f \in BOOLEAN : SetUprobe(b, r, t, f)
                   \/ \E f \in BOOLEAN : DeleteUprobe(b, r, f) \/ DumpUprobeStat(b, r, f)
      PROVE  Announced(s)'
  BY <1>1, ConnectAnnounced, StartAnnounced, CallAnnounced, SetUprobeAnnounced,
     DeleteUprobeAnnounced
<1>2. ASSUME NEW b \in Backends, BackendStep(b) \/ Abort(b)
      PROVE  Announced(s)'
  BY <1>2, SendAnnounced, FinishAnnounced, SaveAnnounced, PutDataAnnounced, PutsAnnounced
     DEF BackendStep
<1>3. ASSUME TakeBatch \/ Process \/ Stop \/ CollectorFails \/ StartStatCollector
      PROVE  Announced(s)'
  BY <1>3, TakeBatchAnnounced, ProcessAnnounced, EndsAnnounced, StartStatCollectorAnnounced
<1>4. CASE UNCHANGED vars
  <2>1. UNCHANGED <<past, closed, queue, batch, storages, currentSymbol, worker, config, probes,
                    pc, op, missed>>
    BY <1>4 DEF vars, collector, channel, backend, history
  <2>2. Announced(s)
    BY <2>1 DEF Undisturbed, AllAnnounced
  <2>3. QED
    BY <2>1, <2>2 DEF Announced, Waiting, Transit, Ready, Present, Saving, Deleting, Shared, Has
<1>5. QED
  BY <1>1, <1>2, <1>3, <1>4 DEF Next

\* No statistics are dropped on the way to the collector as long as the probe is not
\* deleted, no function is cut short and the collector is not stopped: set_uprobe puts
\* its message before the probe counts, and a collector started in place of a failed
\* one has the storages of the config.
THEOREM NothingIsDropped == Spec => []NothingDropped
<1>1. IInv /\ AllAnnounced /\ [Next]_vars => AllAnnounced'
  BY AnnouncedStep
<1>2. AllAnnounced => NothingDropped
  BY DEF AllAnnounced, Undisturbed, Announced, NothingDropped
<1>3. QED
  BY <1>1, <1>2, InitAnnounced, Invariance, PTL DEF Spec

-----------------------------------------------------------------------------
\* Why a report is complete: a request follows all data of the session that waits.

Asked(tr, b) ==
    \A j \in DOMAIN tr : tr[j].type = "CUSTOM" /\ tr[j].from = b =>
        \E k \in DOMAIN tr : k > j /\ tr[k].type = "WRITE" /\ tr[k].from = b

LEMMA AskedAppended ==
    ASSUME NEW tr \in Seq(Message), NEW a \in Symbols, NEW m \in Request, NEW b \in Backends
    PROVE  LET now == tr \o << [type |-> "SYMBOL", symbol |-> a], m >>
           IN  /\ Asked(tr, b) /\ (m.type = "CUSTOM" => m.from # b) => Asked(now, b)
               /\ m.type = "WRITE" /\ m.from = b => Asked(now, b)
<1> DEFINE y   == [type |-> "SYMBOL", symbol |-> a]
           now == tr \o <<y, m>>
           n   == Len(tr)
<1>1. y \in Message /\ y.type = "SYMBOL" /\ m \in Message
  BY MadeMessages DEF Request
<1>2. /\ n \in Nat /\ DOMAIN tr = 1 .. n
      /\ DOMAIN now = (1 .. n) \cup {n + 1, n + 2}
      /\ \A i \in 1 .. n : now[i] = tr[i]
      /\ now[n + 1] = y
      /\ now[n + 2] = m
  <2> HIDE DEF y
  <2>1. QED
    BY <1>1, TwoAppended
<1> HIDE DEF y, n, now
<1>3. ASSUME Asked(tr, b), m.type = "CUSTOM" => m.from # b PROVE Asked(now, b)
  <2>1. SUFFICES ASSUME NEW j \in DOMAIN now, now[j].type = "CUSTOM", now[j].from = b
                 PROVE  \E k \in DOMAIN now : k > j /\ now[k].type = "WRITE" /\ now[k].from = b
    BY DEF Asked
  <2>2. j \in DOMAIN tr /\ tr[j].type = "CUSTOM" /\ tr[j].from = b
    BY <1>1, <1>2, <1>3, <2>1
  <2>3. PICK k \in DOMAIN tr : k > j /\ tr[k].type = "WRITE" /\ tr[k].from = b
    BY <1>3, <2>2 DEF Asked
  <2>4. QED
    BY <1>2, <2>3
<1>4. ASSUME m.type = "WRITE", m.from = b PROVE Asked(now, b)
  <2>1. ASSUME NEW j \in DOMAIN now, now[j].type = "CUSTOM"
        PROVE  n + 2 > j
    BY <1>1, <1>2, <1>4, <2>1
  <2>2. QED
    BY <1>2, <1>4, <2>1 DEF Asked
<1>5. QED
  BY <1>3, <1>4 DEF now, y

LEMMA AskedTail ==
    ASSUME NEW tr \in Seq(Message), tr # <<>>, NEW b \in Backends, Asked(tr, b)
    PROVE  Asked(Tail(tr), b)
<1> DEFINE q == Tail(tr)
           n == Len(tr)
<1>1. /\ n \in Nat \ {0} /\ DOMAIN tr = 1 .. n /\ DOMAIN q = 1 .. n - 1
      /\ \A i \in 1 .. n - 1 : q[i] = tr[i + 1] /\ i + 1 \in DOMAIN tr
  BY OneTaken
<1> HIDE DEF q, n
<1>2. ASSUME NEW j \in DOMAIN q, q[j].type = "CUSTOM", q[j].from = b
      PROVE  \E k \in DOMAIN q : k > j /\ q[k].type = "WRITE" /\ q[k].from = b
  <2>1. PICK k \in DOMAIN tr : k > j + 1 /\ tr[k].type = "WRITE" /\ tr[k].from = b
    BY <1>1, <1>2 DEF Asked
  <2>2. k - 1 \in 1 .. n - 1 /\ (k - 1) + 1 = k /\ k - 1 > j
    BY <1>1, <1>2, <2>1
  <2>3. q[k - 1] = tr[k]
    BY <1>1, <2>2
  <2>4. QED
    BY <1>1, <2>1, <2>2, <2>3
<1>3. QED
  BY <1>2 DEF Asked, q

LEMMA AskedLater ==
    ASSUME NEW p \in Seq(Message), NEW q \in Seq(Message), NEW b \in Backends, Asked(p \o q, b)
    PROVE  Asked(q, b)
<1> DEFINE tr == p \o q
           m  == Len(p)
           n  == Len(q)
<1>1. /\ m \in Nat /\ n \in Nat /\ DOMAIN q = 1 .. n /\ DOMAIN tr = 1 .. m + n
      /\ \A i \in 1 .. n : tr[m + i] = q[i]
  BY Joined
<1>2. Asked(tr, b)
  OBVIOUS
<1> HIDE DEF m, n, tr
<1>3. ASSUME NEW j \in DOMAIN q, q[j].type = "CUSTOM", q[j].from = b
      PROVE  \E k \in DOMAIN q : k > j /\ q[k].type = "WRITE" /\ q[k].from = b
  <2>1. m + j \in DOMAIN tr /\ tr[m + j] = q[j]
    BY <1>1, <1>3
  <2>2. PICK k \in DOMAIN tr : k > m + j /\ tr[k].type = "WRITE" /\ tr[k].from = b
    BY <1>2, <1>3, <2>1 DEF Asked
  <2>3. k - m \in 1 .. n /\ m + (k - m) = k /\ k - m > j
    BY <1>1, <1>3, <2>2
  <2>4. q[k - m] = tr[k]
    BY <1>1, <2>3
  <2>5. QED
    BY <1>1, <2>2, <2>3, <2>4
<1>4. QED
  BY <1>3 DEF Asked

Waits(b) == pc[b] = "wait" /\ op[b].name = "dump"

AllAsked == \A b \in Backends : ~closed /\ Waits(b) => Asked(Transit, b)

\* A step that puts nothing and after which no more sessions wait.
LEMMA AskedStays ==
    ASSUME AllAsked, UNCHANGED <<queue, batch, closed>>,
           \A b \in Backends : Waits(b)' => Waits(b)
    PROVE  AllAsked'
<1>1. Transit' = Transit
  BY DEF Transit
<1>2. QED
  BY <1>1 DEF AllAsked

\* Where the session is that takes a step.
LEMMA WaitsStep ==
    ASSUME IInv, NEW b \in Backends,
           \/ Connect(b) \/ Disconnect(b) \/ TimedStatSend(b)
           \/ \E s \in Symbols :
                 \/ Call(b, s)
                 \/ \E t \in Types, f \in BOOLEAN : SetUprobe(b, s, t, f)
                 \/ \E f \in BOOLEAN : DeleteUprobe(b, s, f) \/ DumpUprobeStat(b, s, f)
           \/ SendNext(b) \/ SendDone(b) \/ SaveInConfig(b) \/ DeleteFromConfig(b)
           \/ WaitLatch(b) \/ Abort(b)
    PROVE  UNCHANGED <<queue, batch, closed>> /\ \A c \in Backends : Waits(c)' => Waits(c)
<1>1. SessionType /\ OpAt(b)
  BY DEF IInv, SessionInv, OpInv
<1>2. CASE Connect(b)
  BY <1>1, <1>2 DEF Connect, Goto, channel, SessionType, Waits
<1>3. CASE Disconnect(b)
  BY <1>1, <1>3 DEF Disconnect, Goto, channel, SessionType, Waits
<1>4. CASE TimedStatSend(b)
  BY <1>1, <1>4 DEF TimedStatSend, Goto, channel, SessionType, Waits
<1>5. ASSUME NEW s \in Symbols, Call(b, s)
      PROVE  UNCHANGED <<queue, batch, closed>> /\ \A c \in Backends : Waits(c)' => Waits(c)
  BY <1>5 DEF Call, channel, Waits
<1>6. ASSUME NEW s \in Symbols, NEW t \in Types, NEW f \in BOOLEAN, SetUprobe(b, s, t, f)
      PROVE  UNCHANGED <<queue, batch, closed>> /\ \A c \in Backends : Waits(c)' => Waits(c)
  BY <1>1, <1>6 DEF SetUprobe, Goto, channel, SessionType, Waits
<1>7. ASSUME NEW s \in Symbols, NEW f \in BOOLEAN, DeleteUprobe(b, s, f)
      PROVE  UNCHANGED <<queue, batch, closed>> /\ \A c \in Backends : Waits(c)' => Waits(c)
  BY <1>1, <1>7 DEF DeleteUprobe, Goto, channel, SessionType, Waits
<1>8. ASSUME NEW s \in Symbols, NEW f \in BOOLEAN, DumpUprobeStat(b, s, f)
      PROVE  UNCHANGED <<queue, batch, closed>> /\ \A c \in Backends : Waits(c)' => Waits(c)
  BY <1>1, <1>8 DEF DumpUprobeStat, Goto, channel, SessionType, Waits
<1>9. CASE SendNext(b)
  <2>1. PICK s \in Busy(b) :
           op' = [op EXCEPT ![b].todo = @ \ {s}, ![b].current = s, ![b].left = probes[b][s].count]
    BY <1>9 DEF SendNext
  <2>2. \A c \in Backends \ {b} : op'[c] = op[c]
    BY <1>1, <2>1 DEF SessionType
  <2>3. QED
    BY <1>1, <1>9, <2>2 DEF SendNext, Goto, channel, SessionType, Waits
<1>10. CASE SendDone(b)
  BY <1>1, <1>10 DEF SendDone, Goto, channel, SessionType, Waits
<1>11. CASE SaveInConfig(b)
  BY <1>1, <1>11 DEF SaveInConfig, Finish, Goto, channel, SessionType, Waits
<1>12. CASE DeleteFromConfig(b)
  BY <1>1, <1>12 DEF DeleteFromConfig, Finish, Goto, channel, SessionType, Waits, OpAt
<1>13. CASE WaitLatch(b)
  BY <1>1, <1>13 DEF WaitLatch, Finish, Goto, channel, SessionType, Waits
<1>14. CASE Abort(b)
  BY <1>1, <1>14 DEF Abort, Finish, Goto, channel, SessionType, Waits
<1>15. QED
  BY <1>2, <1>3, <1>4, <1>5, <1>6, <1>7, <1>8, <1>9, <1>10, <1>11, <1>12, <1>13, <1>14

\* A message goes to the end; a session's data go ahead of its own request.
LEMMA PutAsked ==
    ASSUME IInv, AllAsked, NEW b \in Backends, NEW a \in Symbols, NEW m \in Request,
           Appends(a, m), UNCHANGED <<batch, closed>>,
           m.type = "CUSTOM" => m.from = b,
           \A c \in Backends \ {b} : Waits(c)' => Waits(c),
           Waits(b)' => m.type = "WRITE" /\ m.from = b
    PROVE  AllAsked'
<1>1. SUFFICES ASSUME NEW c \in Backends, ~closed, Waits(c)'
               PROVE  Asked(Transit', c)
  BY DEF AllAsked, Asked
<1>2. Transit \in Seq(Message) /\ batch \in Seq(Message) /\ queue \in Seq(Message)
  BY TransitType DEF IInv, CollectorInv, ChannelType
<1>3. Transit' = Transit \o << [type |-> "SYMBOL", symbol |-> a], m >>
  <2>1. m \in Message /\ [type |-> "SYMBOL", symbol |-> a] \in Message
    BY MadeMessages DEF Request
  <2>2. QED
    BY <1>2, <2>1, Transits DEF Transit, Appends
<1>4. c # b => Asked(Transit, c)
  BY <1>1 DEF AllAsked
<1>5. QED
  BY <1>1, <1>2, <1>3, <1>4, AskedAppended

LEMMA PutsAsked ==
    ASSUME IInv, AllAsked, NEW b \in Backends,
           PutData(b) \/ PutNew(b) \/ PutWrite(b) \/ PutDelete(b)
    PROVE  AllAsked'
<1>1. SessionType /\ UNCHANGED <<batch, closed>>
  BY DEF PutData, PutNew, PutWrite, PutDelete, IInv, SessionInv
<1>2. CASE closed
  BY <1>1, <1>2 DEF AllAsked
<1>3. CASE ~closed /\ PutData(b)
  <2> DEFINE r == op[b].current
  <2>1. PICK k \in 1 .. op[b].left :
           /\ Stored(b, r, [type |-> "CUSTOM", kind |-> probes[b][r].type, from |-> b, n |-> k])
           /\ Remain(b, op[b].left - k)
    BY <1>3 DEF PutData
  <2>2. PICK m : m = [type |-> "CUSTOM", kind |-> probes[b][r].type, from |-> b, n |-> k]
    OBVIOUS
  <2>3. r \in Symbols /\ m \in Request /\ m.type = "CUSTOM" /\ m.from = b
    <3>1. pc[b] = "putData" /\ SessionInv
      BY <1>3 DEF PutData, IInv
    <3>2. r \in Symbols /\ m \in Message
      BY <2>2, <3>1, DataMessage
    <3>3. QED
      BY <2>2, <3>2 DEF Request
  <2>4. Appends(r, m)
    BY <2>1, <2>2 DEF Stored, Appends
  <2>5. pc[b] = "putData" /\ pc' \in {pc, [pc EXCEPT ![b] = "send"]}
    BY <1>3, <2>1 DEF PutData, Remain, Goto
  <2>6. \A c \in Backends \ {b} : pc'[c] = pc[c] /\ op'[c] = op[c]
    <3>1. \/ op' = [op EXCEPT ![b].left = op[b].left - k]
          \/ op' = [op EXCEPT ![b].current = NoSymbol, ![b].left = 0]
      BY <2>1 DEF Remain
    <3>2. \A c \in Backends \ {b} : op'[c] = op[c]
      BY <1>1, <3>1 DEF SessionType
    <3>3. QED
      BY <1>1, <2>5, <3>2 DEF SessionType
  <2>7. pc'[b] # "wait"
    BY <1>1, <2>5 DEF SessionType
  <2> HIDE DEF r
  <2>8. QED
    BY <1>1, <2>3, <2>4, <2>6, <2>7, PutAsked DEF Waits
<1>4. CASE ~closed /\ (PutNew(b) \/ PutWrite(b) \/ PutDelete(b))
  <2>1. PICK m : \/ pc[b] = "putNew" /\ m = [type |-> "NEW", kind |-> op[b].kind] /\ PutNew(b)
                 \/ pc[b] = "putWrite" /\ m = [type |-> "WRITE", from |-> b, flag |-> op[b].flag]
                    /\ PutWrite(b)
                 \/ pc[b] = "putDelete" /\ m = [type |-> "DELETE", from |-> b, flag |-> op[b].flag]
                    /\ PutDelete(b)
    BY <1>4 DEF PutNew, PutWrite, PutDelete
  <2>2. PICK a : a = op[b].symbol
    OBVIOUS
  <2>3. /\ a \in Symbols /\ m \in Message /\ m.type \in {"NEW", "WRITE", "DELETE"}
        /\ m.type = "WRITE" => m.from = b
        /\ pc[b] = "putWrite" => m.type = "WRITE"
    <3>1. CASE pc[b] = "putNew"
      <4>1. m = [type |-> "NEW", kind |-> op[b].kind]
        BY <2>1, <3>1
      <4>2. a \in Symbols /\ m \in Message
        BY <2>2, <3>1, <4>1, NewMessage DEF IInv
      <4>3. m.type = "NEW"
        BY <4>1
      <4>4. QED
        BY <3>1, <4>2, <4>3
    <3>2. CASE pc[b] = "putWrite"
      <4>1. m = [type |-> "WRITE", from |-> b, flag |-> op[b].flag]
        BY <2>1, <3>2
      <4>2. a \in Symbols /\ m \in Message
        BY <2>2, <3>2, <4>1, RequestMessage DEF IInv
      <4>3. m.type = "WRITE" /\ m.from = b
        BY <4>1
      <4>4. QED
        BY <4>2, <4>3
    <3>3. CASE pc[b] = "putDelete"
      <4>1. m = [type |-> "DELETE", from |-> b, flag |-> op[b].flag]
        BY <2>1, <3>3
      <4>2. a \in Symbols /\ m \in Message
        BY <2>2, <3>3, <4>1, RequestMessage DEF IInv
      <4>3. m.type = "DELETE"
        BY <4>1
      <4>4. QED
        BY <3>3, <4>2, <4>3
    <3>4. QED
      BY <2>1, <3>1, <3>2, <3>3
  <2>4. m \in Request
    BY <2>3 DEF Request
  <2>5. Appends(a, m)
    <3>1. Put(b, op[b].symbol, m)
      BY <2>1 DEF PutNew, PutWrite, PutDelete
    <3>2. QED
      BY <1>4, <2>2, <3>1 DEF Put, Stored, Appends
  <2>6. \/ pc[b] = "putNew" /\ Goto(b, "save") /\ UNCHANGED op
        \/ pc[b] = "putWrite" /\ Goto(b, "wait") /\ UNCHANGED op
        \/ pc[b] = "putDelete" /\ Goto(b, "unsave") /\ UNCHANGED op
    BY <1>4 DEF PutNew, PutWrite, PutDelete
  <2>7. /\ \A c \in Backends \ {b} : Waits(c)' => Waits(c)
        /\ Waits(b)' => pc[b] = "putWrite"
    BY <1>1, <2>6 DEF Waits, Goto, SessionType
  <2>8. QED
    BY <1>1, <2>3, <2>4, <2>5, <2>7, PutAsked
<1>5. QED
  BY <1>2, <1>3, <1>4

\* The collector takes messages from the front.
LEMMA CollectorAsked ==
    ASSUME IInv, AllAsked, CollectorStep
    PROVE  AllAsked'
<1>1. /\ queue \in Seq(Message) /\ batch \in Seq(Message) /\ Transit \in Seq(Message)
      /\ batch \o queue = Transit
  BY TransitType DEF IInv, CollectorInv, ChannelType, Transit
<1>2. CASE StartStatCollector
  BY <1>2, AskedStays DEF StartStatCollector, backend, Waits
<1>3. CASE Stop
  BY <1>3 DEF Stop, AllAsked
<1>4. CASE TakeBatch \/ Process \/ CollectorFails
  <2>1. UNCHANGED <<pc, op, closed>>
    BY <1>4 DEF TakeBatch, Process, CollectorFails
  <2>2. SUFFICES ASSUME NEW b \in Backends, Asked(Transit, b)
                 PROVE  Asked(Transit', b)
    BY <2>1 DEF AllAsked, Waits, Asked
  <2>3. CASE TakeBatch
    <3>1. batch = <<>> /\ batch' = queue /\ queue' = <<>>
      BY <2>3 DEF TakeBatch
    <3>2. Transit' = Transit
      BY <1>1, <3>1, Transits DEF Transit
    <3>3. QED
      BY <2>2, <3>2
  <2>4. CASE Process
    <3>1. batch # <<>> /\ batch' = Tail(batch) /\ queue' = queue
      BY <2>4 DEF Process
    <3>2. Transit # <<>> /\ Transit' = Tail(Transit)
      BY <1>1, <3>1, Transits DEF Transit
    <3>3. QED
      BY <1>1, <2>2, <3>2, AskedTail
  <2>5. CASE CollectorFails
    <3>1. batch' = <<>> /\ queue' = queue
      BY <2>5 DEF CollectorFails, Ends
    <3>2. Transit' = queue
      BY <1>1, <3>1, Transits DEF Transit
    <3>3. QED
      BY <1>1, <2>2, <3>2, AskedLater
  <2>6. QED
    BY <1>4, <2>3, <2>4, <2>5
<1>5. QED
  BY <1>2, <1>3, <1>4 DEF CollectorStep

LEMMA AskedStep == IInv /\ AllAsked /\ [Next]_vars => AllAsked'
<1> SUFFICES ASSUME IInv, AllAsked, [Next]_vars PROVE AllAsked'
  OBVIOUS
<1>1. ASSUME NEW b \in Backends,
             \/ Connect(b) \/ Disconnect(b) \/ TimedStatSend(b)
             \/ \E s \in Symbols :
                   \/ Call(b, s)
                   \/ \E t \in Types, f \in BOOLEAN : SetUprobe(b, s, t, f)
                   \/ \E f \in BOOLEAN : DeleteUprobe(b, s, f) \/ DumpUprobeStat(b, s, f)
             \/ SendNext(b) \/ SendDone(b) \/ SaveInConfig(b) \/ DeleteFromConfig(b)
             \/ WaitLatch(b) \/ Abort(b)
      PROVE  AllAsked'
  BY <1>1, WaitsStep, AskedStays
<1>2. ASSUME NEW b \in Backends, PutData(b) \/ PutNew(b) \/ PutWrite(b) \/ PutDelete(b)
      PROVE  AllAsked'
  BY <1>2, PutsAsked
<1>3. CASE CollectorStep
  BY <1>3, CollectorAsked
<1>4. CASE UNCHANGED vars
  BY <1>4, AskedStays DEF vars, channel, backend, Waits
<1>5. QED
  BY <1>1, <1>2, <1>3, <1>4 DEF Next, BackendStep, CollectorStep

\* When the collector comes to the request a session waits for, it has every call
\* that session's shared probes counted before: UprobeTimedStatSend went through all
\* of them ahead of the request, in dump_uprobe_stat, and the buffer keeps the order.
THEOREM ReportsAreComplete == Spec => []ReportIsComplete
<1>1. Init => AllAsked
  BY DEF Init, AllAsked, Waits
<1>2. IInv /\ AllAsked => ReportIsComplete
  <2>1. SUFFICES ASSUME IInv, AllAsked, NEW b \in Backends, NEW i \in DOMAIN Transit,
                        ~closed, pc[b] = "wait", op[b].name = "dump",
                        \A j \in i + 1 .. Len(Transit) :
                           Transit[j].type \in {"WRITE", "DELETE"} => Transit[j].from # b,
                        NEW s \in Shared(b)
                 PROVE  probes[b][s].count = 0 /\ \A j \in Data(b, s) : j < i
    BY DEF ReportIsComplete
  <2>2. probes[b][s].count = 0
    BY <2>1, AtRest DEF OpAt
  <2>3. Len(Transit) \in Nat /\ DOMAIN Transit = 1 .. Len(Transit)
    BY TransitType DEF IInv, CollectorInv, ChannelType
  <2>4. ASSUME NEW j \in Data(b, s) PROVE j < i
    <3>1. j \in DOMAIN Transit /\ Transit[j].type = "CUSTOM" /\ Transit[j].from = b
      BY DEF Data
    <3>2. PICK k \in DOMAIN Transit : k > j /\ Transit[k].type = "WRITE" /\ Transit[k].from = b
      BY <2>1, <3>1 DEF AllAsked, Waits, Asked
    <3>3. k \notin i + 1 .. Len(Transit)
      BY <2>1, <3>2
    <3>4. QED
      BY <2>3, <3>1, <3>2, <3>3
  <2>5. QED
    BY <2>2, <2>4
<1>3. QED
  BY <1>1, <1>2, AskedStep, Invariance, PTL DEF Spec

-----------------------------------------------------------------------------
\* Why the collector ends with a storage for each entry of the config, when one
\* session sets and deletes the probes: what the messages under way make of its
\* storages is what the config has or is about to have.

Unsaving(s) == \E b \in Backends : pc[b] = "unsave" /\ op[b].symbol = s

\* The last the collector was told of s.
Told(s) == (config[s] # NoProbe \/ Saving(s)) /\ ~Unsaving(s)

\* The type a probe on s has in the config, or is about to have.
IsKind(s, t) ==
    /\ config[s] # NoProbe => t = config[s]
    /\ \A b \in Backends : pc[b] = "save" /\ op[b].symbol = s => t = op[b].kind

\* The announcements of s that no deletion follows.
Final(s) == {i \in Waiting(s, "NEW") : \A j \in Waiting(s, "DELETE") : j < i}

\* A session that sets and deletes probes has those of the config, but for the one
\* it deletes.
KnowsConfig(b, s) ==
    b \in Admins /\ pc[b] # "away" /\ config[s] # NoProbe =>
        s \in Shared(b) \/ (op[b].name = "delete" /\ op[b].symbol = s /\ pc[b] # "wait")

\* A deletion that is not the end of a set_uprobe cut short.
Deletes(b, s) == op[b].symbol = s /\ pc[b] \in {"putDelete", "unsave"} => op[b].name = "delete"

Aligned(s) ==
    /\ Told(s) <=> Final(s) # {} \/ (Waiting(s, "DELETE") = {} /\ Ready(s))
    /\ \A i \in Final(s) : IsKind(s, Transit[i].kind)
    /\ Waiting(s, "DELETE") = {} /\ Present(s) => IsKind(s, storages[s].type)
    /\ \A b \in Backends : KnowsConfig(b, s) /\ Deletes(b, s)

AllAligned == \A s \in Symbols : Intact(s) => Aligned(s)

OneAdmin == \A a, b \in Admins : a = b

AdminOps == \A b \in Backends : op[b].name \in {"set", "delete"} => b \in Admins

LEMMA AdminOpsStep == IInv /\ AdminOps /\ [Next]_vars => AdminOps'
<1> SUFFICES ASSUME IInv, AdminOps, [Next]_vars PROVE AdminOps'
  OBVIOUS
<1>1. SessionType
  BY DEF IInv, SessionInv
<1>2. ASSUME NEW b \in Backends, \A c \in Backends \ {b} : op'[c] = op[c],
             op'[b].name = op[b].name \/ op'[b].name \notin {"set", "delete"} \/ b \in Admins
      PROVE  AdminOps'
  BY <1>2 DEF AdminOps
<1>3. CASE UNCHANGED op
  BY <1>3 DEF AdminOps
<1>4. ASSUME NEW b \in Backends, Disconnect(b) \/ TimedStatSend(b) PROVE AdminOps'
  <2>1. CASE Disconnect(b)
    BY <1>1, <1>2, <2>1 DEF Disconnect, SessionType, NoOp
  <2>2. CASE TimedStatSend(b)
    BY <1>1, <1>2, <2>2 DEF TimedStatSend, SessionType, NoOp
  <2>3. QED
    BY <1>4, <2>1, <2>2
<1>5. ASSUME NEW b \in Backends, NEW s \in Symbols, NEW t \in Types, NEW f \in BOOLEAN,
             SetUprobe(b, s, t, f)
      PROVE  AdminOps'
  BY <1>1, <1>2, <1>3, <1>5 DEF SetUprobe, SessionType
<1>6. ASSUME NEW b \in Backends, NEW s \in Symbols, NEW f \in BOOLEAN, DeleteUprobe(b, s, f)
      PROVE  AdminOps'
  BY <1>1, <1>2, <1>3, <1>6 DEF DeleteUprobe, SessionType
<1>7. ASSUME NEW b \in Backends, NEW s \in Symbols, NEW f \in BOOLEAN, DumpUprobeStat(b, s, f)
      PROVE  AdminOps'
  BY <1>1, <1>2, <1>7 DEF DumpUprobeStat, SessionType, NoOp
<1>8. ASSUME NEW b \in Backends, SendNext(b) PROVE AdminOps'
  <2>1. PICK s \in Busy(b) :
           op' = [op EXCEPT ![b].todo = @ \ {s}, ![b].current = s, ![b].left = probes[b][s].count]
    BY <1>8 DEF SendNext
  <2>2. op[b] \in OpSet /\ \A c \in Backends \ {b} : op'[c] = op[c]
    BY <1>1, <2>1 DEF SessionType
  <2>3. op'[b] = [op[b] EXCEPT !.todo = @ \ {s}, !.current = s, !.left = probes[b][s].count]
    BY <1>1, <2>1 DEF SessionType
  <2>4. op'[b].name = op[b].name
    BY <2>2, <2>3 DEF OpSet
  <2>5. QED
    BY <1>2, <2>2, <2>4
<1>9. ASSUME NEW b \in Backends, NEW n, Remain(b, n) PROVE AdminOps'
  <2>1. \/ op' = [op EXCEPT ![b].left = n]
        \/ op' = [op EXCEPT ![b].current = NoSymbol, ![b].left = 0]
    BY <1>9 DEF Remain
  <2>2. op[b] \in OpSet /\ \A c \in Backends \ {b} : op'[c] = op[c]
    BY <1>1, <2>1 DEF SessionType
  <2>3. \/ op'[b] = [op[b] EXCEPT !.left = n]
        \/ op'[b] = [op[b] EXCEPT !.current = NoSymbol, !.left = 0]
    BY <1>1, <2>1 DEF SessionType
  <2>4. op'[b].name = op[b].name
    BY <2>2, <2>3 DEF OpSet
  <2>5. QED
    BY <1>2, <2>2, <2>4
<1>10. ASSUME NEW b \in Backends, PutData(b) PROVE AdminOps'
  BY <1>9, <1>10 DEF PutData
<1>11. ASSUME NEW b \in Backends, op' = [op EXCEPT ![b] = NoOp] PROVE AdminOps'
  BY <1>1, <1>2, <1>11 DEF SessionType, NoOp
<1>12. ASSUME NEW b \in Backends, SendDone(b) PROVE AdminOps'
  BY <1>3, <1>11, <1>12 DEF SendDone
<1>13. ASSUME NEW b \in Backends,
              SaveInConfig(b) \/ DeleteFromConfig(b) \/ WaitLatch(b) \/ Abort(b)
       PROVE  AdminOps'
  BY <1>3, <1>11, <1>13 DEF SaveInConfig, DeleteFromConfig, WaitLatch, Abort, Finish
<1>14. ASSUME NEW b \in Backends, Connect(b) \/ (\E s \in Symbols : Call(b, s))
                                  \/ PutNew(b) \/ PutWrite(b) \/ PutDelete(b)
       PROVE  AdminOps'
  BY <1>3, <1>14 DEF Connect, Call, PutNew, PutWrite, PutDelete
<1>15. CASE CollectorStep
  BY <1>3, <1>15 DEF CollectorStep, TakeBatch, Process, Stop, CollectorFails, StartStatCollector,
     backend
<1>16. CASE UNCHANGED vars
  BY <1>3, <1>16 DEF vars, backend
<1>17. QED
  BY <1>4, <1>5, <1>6, <1>7, <1>8, <1>10, <1>12, <1>13, <1>14, <1>15, <1>16
     DEF Next, BackendStep, CollectorStep

\* What is said of the kinds of s when the config has it already.
LEMMA NoneSetting ==
    ASSUME IInv, AdminOps, NEW s \in Symbols, Aligned(s), NEW b \in Backends,
           op[b].name = "set", op[b].symbol = s
    PROVE  config[s] = NoProbe
<1>1. b \in Admins /\ OpAt(b)
  BY AtRest DEF AdminOps
<1>2. pc[b] # "away" /\ s \notin Shared(b)
  BY <1>1 DEF OpAt, NoOp, Shared
<1>3. QED
  BY <1>1, <1>2 DEF Aligned, KnowsConfig

LEMMA SavingSets ==
    ASSUME IInv, NEW b \in Backends
    PROVE  /\ pc[b] \in {"putNew", "save"} => op[b].name = "set"
           /\ pc[b] \in {"putDelete", "unsave"} => op[b].name \in {"set", "delete"}
  BY AtRest DEF OpAt

\* A step of session b that puts nothing, for a symbol it does not save or remove.
LEMMA SessionAligned ==
    ASSUME IInv, NEW s \in Symbols, Aligned(s), NEW b \in Backends,
           UNCHANGED <<queue, batch, storages, currentSymbol, worker>>,
           config'[s] = config[s],
           \A c \in Backends \ {b} : Stays(c),
           ~(pc[b] \in {"save", "unsave"} /\ op[b].symbol = s),
           ~(pc'[b] \in {"save", "unsave"} /\ op'[b].symbol = s),
           KnowsConfig(b, s)', Deletes(b, s)'
    PROVE  Aligned(s)'
<1>1. Waiting(s, "DELETE")' = Waiting(s, "DELETE") /\ Final(s)' = Final(s)
      /\ Transit' = Transit
  BY DEF Waiting, Transit, Final
<1>2. Ready(s)' = Ready(s) /\ Present(s)' = Present(s) /\ storages'[s] = storages[s]
  BY DEF Ready, Present
<1>3. Saving(s)' = Saving(s) /\ Unsaving(s)' = Unsaving(s)
  BY DEF Saving, Unsaving, Stays
<1>4. Told(s)' = Told(s)
  BY <1>3 DEF Told
<1>5. \A t : IsKind(s, t) => IsKind(s, t)'
  BY DEF IsKind, Stays
<1>6. ASSUME NEW c \in Backends PROVE KnowsConfig(c, s)' /\ Deletes(c, s)'
  <2>1. CASE c = b
    BY <2>1
  <2>2. CASE c # b
    <3>1. Shared(c)' = Shared(c) /\ pc'[c] = pc[c] /\ op'[c] = op[c]
      BY <2>2 DEF Stays, Shared, Has
    <3>2. KnowsConfig(c, s) /\ Deletes(c, s)
      BY DEF Aligned
    <3>3. QED
      BY <3>1, <3>2 DEF KnowsConfig, Deletes
  <2>3. QED
    BY <2>1, <2>2
<1> HIDE DEF Waiting, Final, Told, Ready, Present, IsKind, KnowsConfig, Deletes
<1>7. QED
  BY <1>1, <1>2, <1>4, <1>5, <1>6 DEF Aligned

\* A session at rest has its probes in the list.
LEMMA RestKnows ==
    ASSUME IInv, NEW s \in Symbols, Aligned(s), NEW b \in Backends, b \in Admins,
           config[s] # NoProbe, pc[b] # "away", op[b].name # "delete" \/ pc[b] = "wait"
    PROVE  s \in Shared(b)
  BY DEF Aligned, KnowsConfig

LEMMA ConnectAligned ==
    ASSUME IInv, AllAligned, NEW b \in Backends, Connect(b), NEW s \in Symbols, Intact(s)'
    PROVE  Aligned(s)'
<1>1. /\ UNCHANGED <<queue, batch, storages, currentSymbol, worker, config, closed, op>>
      /\ pc[b] = "away" /\ Goto(b, "idle") /\ SessionType
  BY DEF Connect, collector, channel, IInv, SessionInv
<1>2. ~ Mark(Symbols, "cut short")
  BY DEF Mark, Intact
<1>3. /\ UNCHANGED past
      /\ probes' = [probes EXCEPT ![b] = [r \in Symbols |->
            IF config[r] = NoProbe THEN NoProbe ELSE NewProbe(config[r], TRUE)]]
  BY <1>2 DEF Connect
<1>4. Aligned(s)
  BY <1>1, <1>3 DEF Intact, AllAligned
<1>5. \A c \in Backends \ {b} : Stays(c)
  BY <1>1, <1>3 DEF Stays, Goto, SessionType
<1>6. config[s] # NoProbe => s \in Shared(b)'
  <2>1. probes'[b][s] = IF config[s] = NoProbe THEN NoProbe ELSE NewProbe(config[s], TRUE)
    BY <1>1, <1>3 DEF SessionType
  <2>2. config[s] # NoProbe => NewProbe(config[s], TRUE) \in Probe
    BY DEF NewProbe, Probe, IInv, HistoryType
  <2>3. NewProbe(config[s], TRUE).shared
    BY DEF NewProbe
  <2>4. NoProbe \notin Probe
    BY SharedUprobesAssumption
  <2>5. config[s] # NoProbe => probes'[b][s] # NoProbe /\ probes'[b][s].shared
    BY <2>1, <2>2, <2>3, <2>4
  <2>6. QED
    BY <2>5 DEF Shared, Has
<1>7. pc'[b] = "idle" /\ UNCHANGED config
  BY <1>1 DEF Goto, SessionType
<1>8. KnowsConfig(b, s)' /\ Deletes(b, s)'
  BY <1>6, <1>7 DEF KnowsConfig, Deletes
<1>9. QED
  BY <1>1, <1>4, <1>5, <1>7, <1>8, SessionAligned

LEMMA StartAligned ==
    ASSUME IInv, AllAligned, NEW b \in Backends, NEW s \in Symbols, Intact(s)',
           \/ Disconnect(b) \/ TimedStatSend(b)
           \/ \E r \in Symbols, f \in BOOLEAN : DumpUprobeStat(b, r, f)
    PROVE  Aligned(s)'
<1>1. /\ UNCHANGED <<queue, batch, storages, currentSymbol, worker, config, closed, past,
                     probes>>
      /\ pc[b] = "idle" /\ Goto(b, "send") /\ SessionType
  BY DEF Disconnect, TimedStatSend, DumpUprobeStat, collector, channel, history, IInv, SessionInv
<1>2. \A c \in Backends \ {b} : op'[c] = op[c]
  BY <1>1 DEF Disconnect, TimedStatSend, DumpUprobeStat, SessionType
<1>3. Aligned(s) /\ op[b].name = "none"
  <2>1. Aligned(s)
    BY <1>1 DEF Intact, AllAligned
  <2>2. op[b] = NoOp
    BY <1>1, AtRest
  <2>3. QED
    BY <2>1, <2>2 DEF NoOp
<1>4. pc'[b] = "send" /\ \A c \in Backends \ {b} : Stays(c)
  BY <1>1, <1>2 DEF Stays, Goto, SessionType
<1>5. Shared(b)' = Shared(b)
  BY <1>1 DEF Shared, Has
<1>6. KnowsConfig(b, s)' /\ Deletes(b, s)'
  BY <1>1, <1>3, <1>4, <1>5, RestKnows DEF KnowsConfig, Deletes
<1>7. QED
  BY <1>1, <1>3, <1>4, <1>6, SessionAligned

LEMMA CallAligned ==
    ASSUME IInv, AllAligned, NEW b \in Backends, NEW r \in Symbols, Call(b, r),
           NEW s \in Symbols, Intact(s)'
    PROVE  Aligned(s)'
<1>1. /\ UNCHANGED <<queue, batch, storages, currentSymbol, worker, config, closed, past,
                     pc, op>>
      /\ probes' = [probes EXCEPT ![b][r].count = @ + 1]
      /\ pc[b] = "idle" /\ r \in Shared(b) /\ SessionType
  BY DEF Call, collector, channel, IInv, SessionInv
<1>2. PICK n \in Nat : n = probes[b][r].count
  BY <1>1, AtRest DEF Probe
<1>3. probes' = [probes EXCEPT ![b][r].count = n + 1] /\ n + 1 \in Nat
  BY <1>1, <1>2
<1>4. /\ \A c \in Backends \ {b} : probes'[c] = probes[c]
      /\ \A q \in Symbols \ {r} : probes'[b][q] = probes[b][q]
      /\ probes'[b][r] \in Probe /\ probes'[b][r].shared = probes[b][r].shared
  <2>1. probes[b][r] \in Probe
    BY <1>1, AtRest
  <2>2. PICK k \in Nat : k = n + 1
    OBVIOUS
  <2>3. probes' = [probes EXCEPT ![b][r].count = k]
    BY <1>3, <2>2
  <2>4. SessionType
    BY <1>1
  <2>5. QED
    BY <2>1, <2>3, <2>4, CountChanged
<1>5. s \in Shared(b) => s \in Shared(b)'
  <2>1. NoProbe \notin Probe
    BY SharedUprobesAssumption
  <2>2. probes[b][r].shared /\ probes'[b][r].shared /\ probes'[b][r] # NoProbe
    BY <1>1, <1>4, <2>1 DEF Shared
  <2>3. QED
    BY <1>4, <2>2 DEF Shared, Has
<1>6. Aligned(s) /\ op[b].name = "none"
  <2>1. Aligned(s)
    BY <1>1 DEF Intact, AllAligned
  <2>2. op[b] = NoOp
    BY <1>1, AtRest
  <2>3. QED
    BY <2>1, <2>2 DEF NoOp
<1>7. \A c \in Backends \ {b} : Stays(c)
  BY <1>1, <1>4 DEF Stays
<1>8. KnowsConfig(b, s)' /\ Deletes(b, s)'
  BY <1>1, <1>5, <1>6, RestKnows DEF KnowsConfig, Deletes
<1>9. QED
  BY <1>1, <1>6, <1>7, <1>8, SessionAligned

LEMMA SetUprobeAligned ==
    ASSUME IInv, AllAligned, NEW b \in Backends, NEW r \in Symbols, NEW t \in Types,
           NEW f \in BOOLEAN, SetUprobe(b, r, t, f), NEW s \in Symbols, Intact(s)'
    PROVE  Aligned(s)'
<1>1. /\ UNCHANGED <<queue, batch, storages, currentSymbol, worker, config, closed, past>>
      /\ pc[b] = "idle" /\ SessionType /\ r \notin Shared(b)
  BY DEF SetUprobe, collector, channel, IInv, SessionInv, Shared
<1>2. Aligned(s)
  BY <1>1 DEF Intact, AllAligned
<1>3. op[b].name = "none"
  BY <1>1, AtRest DEF NoOp
<1>4. CASE f
  <2>1. UNCHANGED probes /\ Goto(b, "putNew")
        /\ op' = [op EXCEPT ![b] = [NoOp EXCEPT !.name = "set", !.symbol = r, !.kind = t]]
    BY <1>4 DEF SetUprobe
  <2>2. pc'[b] = "putNew" /\ \A c \in Backends \ {b} : Stays(c)
    BY <1>1, <2>1 DEF Stays, Goto, SessionType
  <2>3. Shared(b)' = Shared(b)
    BY <2>1 DEF Shared, Has
  <2>4. KnowsConfig(b, s)' /\ Deletes(b, s)'
    BY <1>1, <1>2, <1>3, <2>2, <2>3, RestKnows DEF KnowsConfig, Deletes
  <2>5. QED
    BY <1>1, <1>2, <2>2, <2>4, SessionAligned
<1>5. CASE ~f
  <2>1. SetProbe(b, r, NewProbe(t, FALSE)) /\ UNCHANGED <<op, pc>>
    BY <1>5 DEF SetUprobe
  <2>2. /\ \A c \in Backends \ {b} : Stays(c)
        /\ \A q \in Symbols \ {r} : probes'[b][q] = probes[b][q]
    BY <1>1, <2>1 DEF SetProbe, SessionType, Stays
  <2>3. s \in Shared(b) => s \in Shared(b)'
    BY <1>1, <2>2 DEF Shared, Has
  <2>4. KnowsConfig(b, s)' /\ Deletes(b, s)'
    BY <1>1, <1>2, <1>3, <2>1, <2>3, RestKnows DEF KnowsConfig, Deletes
  <2>5. QED
    BY <1>1, <1>2, <2>1, <2>2, <2>4, SessionAligned
<1>6. QED
  BY <1>4, <1>5

LEMMA DeleteUprobeAligned ==
    ASSUME IInv, AllAligned, NEW b \in Backends, NEW r \in Symbols, NEW f \in BOOLEAN,
           DeleteUprobe(b, r, f), NEW s \in Symbols, Intact(s)'
    PROVE  Aligned(s)'
<1>1. /\ UNCHANGED <<queue, batch, storages, currentSymbol, worker, config, closed>>
      /\ pc[b] = "idle" /\ SessionType /\ SetProbe(b, r, NoProbe)
  BY DEF DeleteUprobe, channel, IInv, SessionInv
<1>2. /\ \A c \in Backends \ {b} : probes'[c] = probes[c]
      /\ \A q \in Symbols \ {r} : probes'[b][q] = probes[b][q]
  BY <1>1 DEF SetProbe, SessionType
<1>3. "cut short" \notin past[s]
  BY DEF DeleteUprobe, Mark, Intact
<1>4. Aligned(s)
  BY <1>1, <1>3 DEF Intact, AllAligned
<1>5. op[b].name = "none"
  BY <1>1, AtRest DEF NoOp
<1>6. s # r /\ s \in Shared(b) => s \in Shared(b)'
  BY <1>2 DEF Shared, Has
<1>7. CASE r \in Shared(b)
  <2>1. /\ op' = [op EXCEPT ![b] = [NoOp EXCEPT !.name = "delete", !.symbol = r, !.flag = f,
                                                !.todo = Shared(b) \ {r}]]
        /\ Goto(b, "send")
    BY <1>7 DEF DeleteUprobe
  <2>2. op'[b].symbol = r /\ op'[b].name = "delete" /\ pc'[b] = "send"
        /\ \A c \in Backends \ {b} : Stays(c)
    BY <1>1, <1>2, <2>1 DEF Stays, Goto, SessionType, NoOp
  <2>3. KnowsConfig(b, s)' /\ Deletes(b, s)'
    BY <1>1, <1>4, <1>5, <1>6, <2>2, RestKnows DEF KnowsConfig, Deletes
  <2>4. QED
    BY <1>1, <1>4, <2>2, <2>3, SessionAligned
<1>8. CASE r \notin Shared(b)
  <2>1. UNCHANGED <<op, pc>>
    BY <1>8 DEF DeleteUprobe
  <2>2. \A c \in Backends \ {b} : Stays(c)
    BY <1>2, <2>1 DEF Stays
  <2>3. KnowsConfig(b, s)' /\ Deletes(b, s)'
    BY <1>1, <1>4, <1>5, <1>6, <1>8, <2>1, RestKnows DEF KnowsConfig, Deletes
  <2>4. QED
    BY <1>1, <1>4, <2>1, <2>2, <2>3, SessionAligned
<1>9. QED
  BY <1>7, <1>8

LEMMA SendAligned ==
    ASSUME IInv, AllAligned, NEW b \in Backends, SendNext(b) \/ SendDone(b),
           NEW s \in Symbols, Intact(s)'
    PROVE  Aligned(s)'
<1>1. /\ UNCHANGED <<queue, batch, storages, currentSymbol, worker, config, closed, past>>
      /\ pc[b] = "send" /\ SessionType
  BY DEF SendNext, SendDone, collector, channel, history, IInv, SessionInv
<1>2. Aligned(s)
  BY <1>1 DEF Intact, AllAligned
<1>3. KnowsConfig(b, s)
  BY <1>2 DEF Aligned
<1>4. CASE SendNext(b)
  <2>1. PICK r \in Busy(b) :
           /\ op' = [op EXCEPT ![b].todo = @ \ {r}, ![b].current = r, ![b].left = probes[b][r].count]
           /\ IF probes[b][r].type = "TIME" THEN probes' = [probes EXCEPT ![b][r].count = 0]
              ELSE UNCHANGED probes
    BY <1>4 DEF SendNext
  <2>2. r \in Shared(b) /\ r \in Symbols /\ probes[b][r] \in Probe
    <3>1. r \in Shared(b)
      BY AtRest DEF OpAt, Busy
    <3>2. QED
      BY <3>1, SharedType, AtRest
  <2>3. /\ \A c \in Backends \ {b} : probes'[c] = probes[c]
        /\ \A q \in Symbols \ {r} : probes'[b][q] = probes[b][q]
        /\ probes'[b][r] \in Probe /\ probes'[b][r].shared = probes[b][r].shared
    <3>1. CASE UNCHANGED probes
      BY <2>2, <3>1
    <3>2. CASE probes' = [probes EXCEPT ![b][r].count = 0]
      <4>1. PICK z \in Nat : z = 0
        OBVIOUS
      <4>2. probes' = [probes EXCEPT ![b][r].count = z]
        BY <3>2, <4>1
      <4>3. QED
        BY <1>1, <2>2, <4>2, CountChanged
    <3>3. QED
      BY <2>1, <3>1, <3>2
  <2>4. s \in Shared(b) => s \in Shared(b)'
    <3>1. NoProbe \notin Probe
      BY SharedUprobesAssumption
    <3>2. probes[b][r].shared /\ probes'[b][r].shared /\ probes'[b][r] # NoProbe
      BY <2>2, <2>3, <3>1 DEF Shared
    <3>3. QED
      BY <2>3, <3>2 DEF Shared, Has
  <2>5. /\ pc'[b] = "putData" /\ op'[b].name = op[b].name /\ op'[b].symbol = op[b].symbol
        /\ \A c \in Backends \ {b} : Stays(c)
    <3>1. Goto(b, "putData")
      BY <1>4 DEF SendNext
    <3>2. op[b] \in OpSet /\ \A c \in Backends \ {b} : op'[c] = op[c]
      BY <1>1, <2>1 DEF SessionType
    <3>3. op'[b] = [op[b] EXCEPT !.todo = @ \ {r}, !.current = r, !.left = probes[b][r].count]
      BY <1>1, <2>1 DEF SessionType
    <3>4. op'[b].name = op[b].name /\ op'[b].symbol = op[b].symbol
      BY <3>2, <3>3 DEF OpSet
    <3>5. QED
      BY <1>1, <2>3, <3>1, <3>2, <3>4 DEF SessionType, Stays, Goto
  <2>6. KnowsConfig(b, s)' /\ Deletes(b, s)'
    BY <1>1, <1>3, <2>4, <2>5 DEF KnowsConfig, Deletes
  <2>7. QED
    BY <1>1, <1>2, <2>5, <2>6, SessionAligned
<1>5. CASE SendDone(b)
  <2>1. OpAt(b) /\ op[b].name \in {"dump", "delete", "tick", "exit"}
    BY <1>1, AtRest DEF OpAt
  <2>2. /\ \A c \in Backends \ {b} : Stays(c)
        /\ pc'[b] = CASE op[b].name = "dump"   -> "putWrite"
                      [] op[b].name = "delete" -> "putDelete"
                      [] op[b].name = "exit"   -> "away"
                      [] OTHER                 -> "idle"
        /\ pc'[b] \in {"putWrite", "putDelete"} => op'[b] = op[b]
        /\ pc'[b] # "away" => probes'[b] = probes[b]
    BY <1>1, <1>5, <2>1 DEF SendDone, Goto, SessionType, Stays
  <2>3. pc'[b] # "away" => Shared(b)' = Shared(b)
    BY <2>2 DEF Shared, Has
  <2>4. KnowsConfig(b, s)' /\ Deletes(b, s)'
    BY <1>1, <1>3, <2>1, <2>2, <2>3 DEF KnowsConfig, Deletes
  <2>5. QED
    BY <1>1, <1>2, <2>1, <2>2, <2>4, SessionAligned
<1>6. QED
  BY <1>4, <1>5

\* The end of a function.
LEMMA FinishAligned ==
    ASSUME IInv, AllAligned, NEW b \in Backends, WaitLatch(b) \/ Abort(b),
           NEW s \in Symbols, Intact(s)'
    PROVE  Aligned(s)'
<1>1. /\ UNCHANGED <<queue, batch, storages, currentSymbol, worker, closed, probes>>
      /\ SessionType /\ Finish(b)
  BY DEF WaitLatch, Abort, collector, channel, IInv, SessionInv
<1>2. /\ config'[s] = config[s] /\ past'[s] = past[s]
      /\ Abort(b) => op[b].symbol # s
  <2>1. CASE Abort(b)
    BY <2>1, UnhurtUndisturbed, AbortedConfig
  <2>2. CASE WaitLatch(b) /\ ~Abort(b)
    BY <2>2 DEF WaitLatch, history
  <2>3. QED
    BY <2>1, <2>2
<1>3. Aligned(s)
  BY <1>1, <1>2 DEF Intact, AllAligned
<1>4. /\ \A c \in Backends \ {b} : Stays(c)
      /\ pc'[b] = "idle" /\ op'[b] = NoOp
  BY <1>1 DEF Finish, Goto, Stays, SessionType
<1>5. Shared(b)' = Shared(b)
  BY <1>1 DEF Shared, Has
<1>6. WaitLatch(b) => pc[b] = "wait"
  BY DEF WaitLatch
<1>7. KnowsConfig(b, s)
  BY <1>3 DEF Aligned
<1>8. pc[b] # "away"
  BY DEF WaitLatch, Abort, Putting
<1>9. KnowsConfig(b, s)' /\ Deletes(b, s)'
  BY <1>1, <1>2, <1>4, <1>5, <1>6, <1>7, <1>8 DEF KnowsConfig, Deletes
<1>10. ~(pc[b] \in {"save", "unsave"} /\ op[b].symbol = s)
  BY <1>2, <1>6
<1>11. ~(pc'[b] \in {"save", "unsave"} /\ op'[b].symbol = s)
  BY <1>4
<1>12. config'[s] = config[s]
  BY <1>2
<1>13. QED
  BY <1>1, <1>3, <1>4, <1>9, <1>10, <1>11, <1>12, SessionAligned

\* One session at a time saves or removes.
LEMMA SoleAdmin ==
    ASSUME IInv, AdminOps, OneAdmin, NEW b \in Backends,
           op[b].name \in {"set", "delete"}
    PROVE  /\ b \in Admins
           /\ \A c \in Backends \ {b} :
                 c \notin Admins /\ pc[c] \notin {"putNew", "save", "putDelete", "unsave"}
<1>1. ASSUME NEW c \in Backends \ {b} PROVE c \notin Admins
  BY DEF AdminOps, OneAdmin
<1>2. ASSUME NEW c \in Backends \ {b}
      PROVE  pc[c] \notin {"putNew", "save", "putDelete", "unsave"}
  BY <1>1, SavingSets DEF AdminOps
<1>3. QED
  BY <1>1, <1>2 DEF AdminOps

LEMMA SaveAligned ==
    ASSUME IInv, AdminOps, OneAdmin, AllAligned, NEW b \in Backends, SaveInConfig(b),
           NEW s \in Symbols, Intact(s)'
    PROVE  Aligned(s)'
<1> DEFINE r == op[b].symbol
<1>1. /\ UNCHANGED <<queue, batch, storages, currentSymbol, worker, closed>>
      /\ pc[b] = "save" /\ SessionType
  BY DEF SaveInConfig, collector, channel, IInv, SessionInv
<1>2. /\ r \in Symbols /\ op[b].kind \in Types /\ op[b].kind # NoProbe /\ op[b].name = "set"
      /\ r \notin Shared(b)
  BY <1>1, AtRest, SharedUprobesAssumption DEF OpAt, Shared
<1>3. /\ s = r => config'[s] = op[b].kind
      /\ s # r => config'[s] = config[s]
      /\ past'[s] = past[s]
  BY UnhurtUndisturbed, SavedConfig
<1>4. "cut short" \notin past[s]
  BY <1>3 DEF Intact
<1>5. Aligned(s)
  BY <1>1, <1>4 DEF Intact, AllAligned
<1>6. KnowsConfig(b, s)
  BY <1>5 DEF Aligned
<1>7. CASE SetProbe(b, r, NewProbe(op[b].kind, TRUE)) /\ Finish(b)
  <2>1. /\ \A c \in Backends \ {b} : Stays(c)
        /\ \A q \in Symbols \ {r} : probes'[b][q] = probes[b][q]
        /\ probes'[b][r] = NewProbe(op[b].kind, TRUE)
        /\ pc'[b] = "idle" /\ op'[b] = NoOp
    BY <1>1, <1>2, <1>7 DEF SetProbe, Finish, Goto, SessionType, Stays
  <2>2. CASE s # r
    <3>1. s \in Shared(b) => s \in Shared(b)'
      BY <2>1, <2>2 DEF Shared, Has
    <3>2. KnowsConfig(b, s)' /\ Deletes(b, s)'
      BY <1>1, <1>2, <1>3, <1>6, <2>1, <2>2, <3>1 DEF KnowsConfig, Deletes
    <3>3. QED
      BY <1>1, <1>3, <1>5, <2>1, <2>2, <3>2, SessionAligned
  <2>3. CASE s = r
    <3>1. b \in Admins /\ \A c \in Backends \ {b} :
             c \notin Admins /\ pc[c] \notin {"putNew", "save", "putDelete", "unsave"}
      BY <1>2, SoleAdmin
    <3>2. Told(s) /\ Told(s)'
      <4>1. Saving(s) /\ ~Unsaving(s)
        BY <1>1, <2>3, <3>1 DEF Saving, Unsaving
      <4>2. ~Unsaving(s)'
        BY <2>1, <3>1 DEF Unsaving, Stays
      <4>3. QED
        BY <1>2, <1>3, <2>3, <4>1, <4>2 DEF Told
    <3>3. Ready(s) => Ready(s)'
      BY <1>1, <1>2, <1>3, <2>3 DEF Ready, Present
    <3>4. ASSUME NEW t, IsKind(s, t) PROVE IsKind(s, t)'
      <4>1. t = op[b].kind
        BY <1>1, <2>3, <3>4 DEF IsKind
      <4>2. \A c \in Backends : pc'[c] # "save"
        BY <2>1, <3>1 DEF Stays
      <4>3. QED
        BY <1>3, <2>3, <4>1, <4>2 DEF IsKind
    <3>5. s \in Shared(b)'
      <4>1. PICK k \in Types : k = op[b].kind
        BY <1>2
      <4>2. NewProbe(k, TRUE) \in Probe /\ NewProbe(k, TRUE).shared
        BY DEF NewProbe, Probe
      <4>3. probes'[b][s] = NewProbe(k, TRUE)
        BY <2>1, <2>3, <4>1
      <4>4. NoProbe \notin Probe
        BY SharedUprobesAssumption
      <4>5. QED
        BY <4>2, <4>3, <4>4 DEF Shared, Has
    <3>6. \A c \in Backends : KnowsConfig(c, s)' /\ Deletes(c, s)'
      BY <2>1, <3>1, <3>5 DEF KnowsConfig, Deletes, Stays
    <3>7. Waiting(s, "DELETE")' = Waiting(s, "DELETE") /\ Final(s)' = Final(s)
          /\ Transit' = Transit /\ Present(s)' = Present(s) /\ storages'[s] = storages[s]
      BY <1>1 DEF Waiting, Transit, Final, Present
    <3> HIDE DEF Waiting, Final, Told, Ready, Present, IsKind, KnowsConfig, Deletes
    <3>8. QED
      BY <1>5, <3>2, <3>3, <3>4, <3>6, <3>7 DEF Aligned
  <2>4. QED
    BY <2>2, <2>3
<1>8. CASE /\ \E S : Mark(S \cup {r}, "cut short")
           /\ Goto(b, "putDelete") /\ UNCHANGED <<probes, op, latch>>
  <2>1. s # r
    BY <1>8, UnhurtUndisturbed, UnhurtUnmarked
  <2>2. pc'[b] = "putDelete" /\ \A c \in Backends \ {b} : Stays(c)
    BY <1>1, <1>8 DEF Goto, Stays, SessionType
  <2>3. Shared(b)' = Shared(b)
    BY <1>8 DEF Shared, Has
  <2>4. KnowsConfig(b, s)' /\ Deletes(b, s)'
    BY <1>1, <1>2, <1>3, <1>6, <1>8, <2>1, <2>2, <2>3 DEF KnowsConfig, Deletes
  <2>5. QED
    BY <1>1, <1>3, <1>5, <1>8, <2>1, <2>2, <2>4, SessionAligned
<1>9. QED
  BY <1>7, <1>8 DEF SaveInConfig

\* Where the collector is told, it has a storage or is about to create it.
LEMMA PresentReady ==
    ASSUME IInv, NEW s \in Symbols
    PROVE  Present(s) => worker # "failed" /\ Ready(s)
  BY DEF IInv, CollectorInv, IdleWorker, Ready

LEMMA RemoveAligned ==
    ASSUME IInv, AdminOps, OneAdmin, AllAligned, NEW b \in Backends, DeleteFromConfig(b),
           NEW s \in Symbols, Intact(s)'
    PROVE  Aligned(s)'
<1> DEFINE r == op[b].symbol
<1>1. /\ UNCHANGED <<queue, batch, storages, currentSymbol, worker, closed, probes>>
      /\ pc[b] = "unsave" /\ SessionType
  BY DEF DeleteFromConfig, collector, channel, IInv, SessionInv
<1>2. r \in Symbols /\ op[b].name \in {"set", "delete"}
  BY <1>1, AtRest DEF OpAt
<1>3. /\ s = r => config'[s] = NoProbe
      /\ s # r => config'[s] = config[s]
      /\ past'[s] = past[s]
  BY UnhurtUndisturbed, RemovedConfig
<1>4. Aligned(s)
  BY <1>1, <1>3 DEF Intact, AllAligned
<1>5. /\ \A c \in Backends \ {b} : Stays(c)
      /\ pc'[b] \in {"idle", "wait"}
      /\ op'[b] = NoOp \/ op'[b] = op[b]
  <2>1. CASE op[b].flag
    BY <1>1, <2>1 DEF DeleteFromConfig, Goto, Stays, SessionType
  <2>2. CASE ~op[b].flag
    BY <1>1, <2>2 DEF DeleteFromConfig, Finish, Goto, Stays, SessionType
  <2>3. QED
    BY <2>1, <2>2
<1>6. CASE s # r
  <2>1. Shared(b)' = Shared(b)
    BY <1>1 DEF Shared, Has
  <2>2. KnowsConfig(b, s)
    BY <1>4 DEF Aligned
  <2>3. KnowsConfig(b, s)' /\ Deletes(b, s)'
    BY <1>1, <1>3, <1>5, <1>6, <2>1, <2>2 DEF KnowsConfig, Deletes
  <2>4. QED
    BY <1>1, <1>3, <1>4, <1>5, <1>6, <2>3, SessionAligned
<1>7. CASE s = r
  <2>1. \A c \in Backends \ {b} :
           c \notin Admins /\ pc[c] \notin {"putNew", "save", "putDelete", "unsave"}
    BY <1>2, SoleAdmin
  <2>2. ~Told(s)
    BY <1>1, <1>7 DEF Told, Unsaving
  <2>3. ~Told(s)'
    <3>1. ~Saving(s)'
      BY <1>5, <2>1 DEF Saving, Stays
    <3>2. QED
      BY <1>3, <1>7, <3>1 DEF Told
  <2>4. Waiting(s, "DELETE")' = Waiting(s, "DELETE") /\ Final(s)' = Final(s)
        /\ Transit' = Transit /\ Present(s)' = Present(s)
    BY <1>1 DEF Waiting, Transit, Final, Present
  <2>5. Ready(s)' => Ready(s)
    BY <1>1, <1>3, <1>7 DEF Ready, Present
  <2>6. \A c \in Backends : KnowsConfig(c, s)' /\ Deletes(c, s)'
    BY <1>3, <1>5, <1>7, <2>1 DEF KnowsConfig, Deletes, Stays
  <2>7. Final(s) = {} /\ ~(Waiting(s, "DELETE") = {} /\ Ready(s))
    BY <1>4, <2>2 DEF Aligned
  <2>8. ~(Waiting(s, "DELETE") = {} /\ Present(s))
    BY <2>7, PresentReady
  <2> HIDE DEF Waiting, Final, Told, Ready, Present, IsKind, KnowsConfig, Deletes
  <2>9. QED
    BY <2>3, <2>4, <2>5, <2>6, <2>7, <2>8 DEF Aligned
<1>8. QED
  BY <1>6, <1>7

\* A put that does not tell of s.
LEMMA OtherPutAligned ==
    ASSUME IInv, NEW s \in Symbols, Aligned(s), NEW b \in Backends,
           NEW a \in Symbols, NEW m \in Request, Appends(a, m),
           m.type \in {"NEW", "DELETE"} => a # s,
           UNCHANGED <<batch, storages, currentSymbol, worker, config>>,
           \A c \in Backends \ {b} : Stays(c),
           ~(pc[b] \in {"save", "unsave"} /\ op[b].symbol = s),
           ~(pc'[b] \in {"save", "unsave"} /\ op'[b].symbol = s),
           KnowsConfig(b, s)', Deletes(b, s)'
    PROVE  Aligned(s)'
<1>1. Waiting(s, "DELETE")' = Waiting(s, "DELETE") /\ Waiting(s, "NEW")' = Waiting(s, "NEW")
  <2>1. \A t : t # "SYMBOL" =>
           Waiting(s, t)' = Waiting(s, t) \cup IF m.type = t /\ a = s THEN {Len(Transit) + 2} ELSE {}
    BY PutWaiting
  <2> HIDE DEF Waiting
  <2>2. QED
    BY <2>1
<1>2. Final(s)' = Final(s) /\ \A i \in Final(s) : Transit'[i] = Transit[i]
  BY <1>1, PutWaiting DEF Final
<1>3. Ready(s)' = Ready(s) /\ Present(s)' = Present(s) /\ storages'[s] = storages[s]
  BY DEF Ready, Present
<1>4. Saving(s)' = Saving(s) /\ Unsaving(s)' = Unsaving(s)
  BY DEF Saving, Unsaving, Stays
<1>5. Told(s)' = Told(s)
  BY <1>4 DEF Told
<1>6. \A t : IsKind(s, t) => IsKind(s, t)'
  BY DEF IsKind, Stays
<1>7. ASSUME NEW c \in Backends PROVE KnowsConfig(c, s)' /\ Deletes(c, s)'
  <2>1. CASE c = b
    BY <2>1
  <2>2. CASE c # b
    <3>1. Shared(c)' = Shared(c) /\ pc'[c] = pc[c] /\ op'[c] = op[c]
      BY <2>2 DEF Stays, Shared, Has
    <3>2. KnowsConfig(c, s) /\ Deletes(c, s)
      BY DEF Aligned
    <3>3. QED
      BY <3>1, <3>2 DEF KnowsConfig, Deletes
  <2>3. QED
    BY <2>1, <2>2
<1> HIDE DEF Waiting, Final, Told, Ready, Present, IsKind, KnowsConfig, Deletes
<1>8. QED
  BY <1>1, <1>2, <1>3, <1>5, <1>6, <1>7 DEF Aligned

LEMMA PutDataAligned ==
    ASSUME IInv, AllAligned, NEW b \in Backends, PutData(b), NEW s \in Symbols, Intact(s)'
    PROVE  Aligned(s)'
<1> DEFINE r == op[b].current
<1>1. /\ pc[b] = "putData" /\ SessionType
      /\ UNCHANGED <<storages, currentSymbol, config, batch, closed, worker, past>>
  BY DEF PutData, history, IInv, SessionInv
<1>2. Aligned(s) /\ ~closed
  BY <1>1 DEF Intact, AllAligned
<1>3. PICK k \in 1 .. op[b].left :
         /\ Stored(b, r, [type |-> "CUSTOM", kind |-> probes[b][r].type, from |-> b, n |-> k])
         /\ Remain(b, op[b].left - k)
  BY <1>2 DEF PutData
<1>4. PICK m : m = [type |-> "CUSTOM", kind |-> probes[b][r].type, from |-> b, n |-> k]
  OBVIOUS
<1>5. r \in Symbols /\ r \in Shared(b) /\ probes[b][r] \in Probe /\ m \in Request
      /\ m.type = "CUSTOM"
  BY <1>1, <1>4, DataMessage DEF Request, IInv
<1>6. Appends(r, m)
  BY <1>3, <1>4 DEF Stored, Appends
<1>7. op[b] \in OpSet /\ op[b].left - k \in Int
  BY <1>1 DEF SessionType, OpSet
<1>8. /\ \A c \in Backends \ {b} : Stays(c)
      /\ pc'[b] \in {"putData", "send"}
      /\ op'[b].name = op[b].name /\ op'[b].symbol = op[b].symbol
      /\ s \in Shared(b) => s \in Shared(b)'
  <2>1. CASE op[b].left - k > 0
    <3>1. op' = [op EXCEPT ![b].left = op[b].left - k] /\ UNCHANGED <<probes, pc>>
      BY <1>3, <2>1 DEF Remain
    <3>2. op'[b] = [op[b] EXCEPT !.left = op[b].left - k] /\ \A c \in Backends \ {b} : op'[c] = op[c]
      BY <1>1, <3>1 DEF SessionType
    <3>3. op'[b].name = op[b].name /\ op'[b].symbol = op[b].symbol
      BY <1>7, <3>2 DEF OpSet
    <3>4. Shared(b)' = Shared(b)
      BY <3>1 DEF Shared, Has
    <3>5. QED
      BY <1>1, <3>1, <3>2, <3>3, <3>4 DEF Stays
  <2>2. CASE ~(op[b].left - k > 0)
    <3>1. /\ op' = [op EXCEPT ![b].current = NoSymbol, ![b].left = 0]
          /\ probes' = [probes EXCEPT ![b][r].count = 0]
          /\ Goto(b, "send")
      BY <1>3, <2>2 DEF Remain
    <3>2. op'[b] = [op[b] EXCEPT !.current = NoSymbol, !.left = 0]
          /\ \A c \in Backends \ {b} : op'[c] = op[c]
      BY <1>1, <3>1 DEF SessionType
    <3>3. op'[b].name = op[b].name /\ op'[b].symbol = op[b].symbol
      BY <1>7, <3>2 DEF OpSet
    <3>4. /\ \A c \in Backends \ {b} : probes'[c] = probes[c]
          /\ \A q \in Symbols \ {r} : probes'[b][q] = probes[b][q]
          /\ probes'[b][r] \in Probe /\ probes'[b][r].shared = probes[b][r].shared
      <4>1. PICK z \in Nat : z = 0
        OBVIOUS
      <4>2. probes' = [probes EXCEPT ![b][r].count = z]
        BY <3>1, <4>1
      <4>3. SessionType /\ r \in Symbols /\ probes[b][r] \in Probe
        BY <1>1, <1>5
      <4> HIDE DEF r
      <4>4. QED
        BY <4>2, <4>3, CountChanged
    <3>5. s \in Shared(b) => s \in Shared(b)'
      <4>1. NoProbe \notin Probe
        BY SharedUprobesAssumption
      <4>2. probes[b][r].shared /\ probes'[b][r].shared /\ probes'[b][r] # NoProbe
        BY <1>5, <3>4, <4>1 DEF Shared
      <4>3. QED
        BY <3>4, <4>2 DEF Shared, Has
    <3>6. QED
      BY <1>1, <3>1, <3>2, <3>3, <3>4, <3>5 DEF Stays, Goto, SessionType
  <2>3. QED
    BY <2>1, <2>2
<1>9. KnowsConfig(b, s)
  BY <1>2 DEF Aligned
<1>10. KnowsConfig(b, s)' /\ Deletes(b, s)'
  BY <1>1, <1>8, <1>9 DEF KnowsConfig, Deletes
<1> HIDE DEF r
<1>11. QED
  BY <1>1, <1>2, <1>5, <1>6, <1>8, <1>10, OtherPutAligned

\* The collector is told of a new probe when it knows of none, and of a deletion.
LEMMA PutsAligned ==
    ASSUME IInv, AdminOps, OneAdmin, AllAligned, NEW b \in Backends,
           PutNew(b) \/ PutWrite(b) \/ PutDelete(b), NEW s \in Symbols, Intact(s)'
    PROVE  Aligned(s)'
<1>1. PICK m : \/ pc[b] = "putNew" /\ m = [type |-> "NEW", kind |-> op[b].kind] /\ PutNew(b)
               \/ pc[b] = "putWrite" /\ m = [type |-> "WRITE", from |-> b, flag |-> op[b].flag]
                  /\ PutWrite(b)
               \/ pc[b] = "putDelete" /\ m = [type |-> "DELETE", from |-> b, flag |-> op[b].flag]
                  /\ PutDelete(b)
  BY DEF PutNew, PutWrite, PutDelete
<1>2. /\ Put(b, op[b].symbol, m) /\ SessionType
      /\ UNCHANGED <<batch, storages, currentSymbol, config, worker, closed, past, probes, op>>
      /\ pc' = [pc EXCEPT ![b] = CASE pc[b] = "putNew" -> "save" [] pc[b] = "putWrite" -> "wait"
                                   [] OTHER -> "unsave"]
  <2>1. CASE pc[b] = "putNew"
    BY <1>1, <2>1 DEF PutNew, history, collector, Goto, IInv, SessionInv
  <2>2. CASE pc[b] = "putWrite"
    BY <1>1, <2>2 DEF PutWrite, history, collector, Goto, IInv, SessionInv
  <2>3. CASE pc[b] = "putDelete"
    BY <1>1, <2>3 DEF PutDelete, history, collector, Goto, IInv, SessionInv
  <2>4. QED
    BY <1>1, <2>1, <2>2, <2>3
<1>3. Aligned(s) /\ ~closed
  BY <1>2 DEF Intact, AllAligned
<1>4. PICK a : a = op[b].symbol
  OBVIOUS
<1>5. /\ a \in Symbols /\ m \in Request
      /\ m.type = CASE pc[b] = "putNew" -> "NEW" [] pc[b] = "putWrite" -> "WRITE" [] OTHER -> "DELETE"
      /\ m.type = "NEW" => m.kind = op[b].kind
  <2>1. CASE pc[b] = "putNew"
    <3>1. m = [type |-> "NEW", kind |-> op[b].kind]
      BY <1>1, <2>1
    <3>2. a \in Symbols /\ m \in Message
      BY <1>4, <2>1, <3>1, NewMessage DEF IInv
    <3>3. m.type = "NEW" /\ m.kind = op[b].kind
      BY <3>1
    <3>4. QED
      BY <2>1, <3>2, <3>3 DEF Request
  <2>2. CASE pc[b] = "putWrite"
    <3>1. m = [type |-> "WRITE", from |-> b, flag |-> op[b].flag]
      BY <1>1, <2>2
    <3>2. a \in Symbols /\ m \in Message
      BY <1>4, <2>2, <3>1, RequestMessage DEF IInv
    <3>3. m.type = "WRITE"
      BY <3>1
    <3>4. QED
      BY <2>2, <3>2, <3>3 DEF Request
  <2>3. CASE pc[b] = "putDelete"
    <3>1. m = [type |-> "DELETE", from |-> b, flag |-> op[b].flag]
      BY <1>1, <2>3
    <3>2. a \in Symbols /\ m \in Message
      BY <1>4, <2>3, <3>1, RequestMessage DEF IInv
    <3>3. m.type = "DELETE"
      BY <3>1
    <3>4. QED
      BY <2>3, <3>2, <3>3 DEF Request
  <2>4. QED
    BY <1>1, <2>1, <2>2, <2>3
<1>6. Appends(a, m)
  BY <1>2, <1>3, <1>4 DEF Put, Stored, Appends
<1>7. /\ \A c \in Backends \ {b} : Stays(c)
      /\ pc'[b] = CASE pc[b] = "putNew" -> "save" [] pc[b] = "putWrite" -> "wait"
                    [] OTHER -> "unsave"
      /\ op'[b] = op[b] /\ \A c \in Backends : Shared(c)' = Shared(c)
  BY <1>2 DEF SessionType, Stays, Shared, Has
<1>8. /\ pc[b] \in {"putNew", "putWrite", "putDelete"}
      /\ pc[b] = "putNew" => op[b].name = "set"
      /\ pc[b] = "putWrite" => op[b].name = "dump"
      /\ pc[b] = "putDelete" => op[b].name \in {"set", "delete"}
  BY <1>1, AtRest DEF OpAt
<1>9. ASSUME NEW c \in Backends PROVE KnowsConfig(c, s)' /\ Deletes(c, s)'
  <2>1. KnowsConfig(c, s) /\ Deletes(c, s)
    BY <1>3 DEF Aligned
  <2>2. c # b => pc'[c] = pc[c] /\ op'[c] = op[c]
    BY <1>7 DEF Stays
  <2>3. config'[s] = config[s]
    BY <1>2
  <2>4. CASE c # b
    BY <1>7, <2>1, <2>2, <2>3, <2>4 DEF KnowsConfig, Deletes
  <2>5. CASE c = b
    BY <1>7, <1>8, <2>1, <2>3, <2>5 DEF KnowsConfig, Deletes
  <2>6. QED
    BY <2>4, <2>5
<1>10. CASE pc[b] = "putWrite" \/ a # s
  <2>1. m.type \in {"NEW", "DELETE"} => a # s
    BY <1>5, <1>10
  <2>2. ~(pc'[b] \in {"save", "unsave"} /\ op'[b].symbol = s)
    BY <1>4, <1>7, <1>10
  <2>3. ~(pc[b] \in {"save", "unsave"} /\ op[b].symbol = s)
    BY <1>8
  <2>4. UNCHANGED <<batch, storages, currentSymbol, worker, config>>
    BY <1>2
  <2>5. QED
    BY <1>3, <1>5, <1>6, <1>7, <1>9, <2>1, <2>2, <2>3, <2>4, OtherPutAligned
<1> DEFINE n == Len(Transit)
<1>11. /\ n \in Nat
       /\ \A i \in 1 .. n : Transit'[i] = Transit[i]
       /\ Transit'[n + 2] = m
       /\ \A t : t # "SYMBOL" =>
             /\ Waiting(s, t) \subseteq 1 .. n
             /\ Waiting(s, t)' =
                   Waiting(s, t) \cup IF m.type = t /\ a = s THEN {n + 2} ELSE {}
  BY <1>2, <1>5, <1>6, PutWaiting
<1> HIDE DEF n, Waiting
<1>12. /\ Waiting(s, "NEW") \subseteq 1 .. n /\ Waiting(s, "DELETE") \subseteq 1 .. n
       /\ Waiting(s, "NEW")' =
             Waiting(s, "NEW") \cup IF m.type = "NEW" /\ a = s THEN {n + 2} ELSE {}
       /\ Waiting(s, "DELETE")' =
             Waiting(s, "DELETE") \cup IF m.type = "DELETE" /\ a = s THEN {n + 2} ELSE {}
  BY <1>11
<1>13. CASE pc[b] = "putDelete" /\ a = s
  <2>1. m.type = "DELETE"
    BY <1>5, <1>13
  <2>2. n + 2 \in Waiting(s, "DELETE")' /\ Waiting(s, "NEW")' \subseteq 1 .. n
    BY <1>12, <1>13, <2>1
  <2>3. Final(s)' = {}
    BY <1>11, <2>2 DEF Final
  <2>4. ~Told(s)'
    BY <1>4, <1>7, <1>13 DEF Told, Unsaving
  <2> HIDE DEF Final, Told, IsKind, KnowsConfig, Deletes
  <2>5. QED
    BY <1>9, <2>2, <2>3, <2>4 DEF Aligned
<1>14. CASE pc[b] = "putNew" /\ a = s
  <2>1. m.type = "NEW" /\ op[b].name = "set" /\ op[b].symbol = s /\ m.kind = op[b].kind
    BY <1>4, <1>5, <1>8, <1>14
  <2>2. config[s] = NoProbe /\ config'[s] = NoProbe
    BY <1>2, <1>3, <2>1, NoneSetting
  <2>3. \A c \in Backends \ {b} : pc[c] \notin {"putNew", "save", "putDelete", "unsave"}
    BY <2>1, SoleAdmin
  <2>4. ~Told(s)
    BY <1>14, <2>2, <2>3 DEF Told, Saving
  <2>5. Told(s)'
    <3>1. pc'[b] = "save" /\ op'[b].symbol = s
      BY <1>7, <1>14, <2>1
    <3>2. ~Unsaving(s)'
      BY <1>7, <2>3, <3>1 DEF Unsaving, Stays
    <3>3. QED
      BY <3>1, <3>2 DEF Told, Saving
  <2>6. Final(s) = {} /\ ~(Waiting(s, "DELETE") = {} /\ Ready(s))
    BY <1>3, <2>4 DEF Aligned
  <2>7. ~(Waiting(s, "DELETE") = {} /\ Present(s))
    BY <2>6, PresentReady
  <2>8. Waiting(s, "DELETE")' = Waiting(s, "DELETE") /\ Present(s)' = Present(s)
    BY <1>2, <1>12, <2>1 DEF Present
  <2>9. Final(s)' = {n + 2}
    <3>1. Waiting(s, "NEW")' = Waiting(s, "NEW") \cup {n + 2}
      BY <1>12, <1>14, <2>1
    <3>2. \A j \in Waiting(s, "DELETE") : j < n + 2
      BY <1>11, <1>12
    <3>3. QED
      BY <2>6, <2>8, <3>1, <3>2 DEF Final
  <2>10. IsKind(s, m.kind)'
    <3>1. \A c \in Backends : pc'[c] = "save" => c = b
      BY <1>7, <2>3 DEF Stays
    <3>2. op'[b].kind = m.kind
      BY <1>7, <2>1
    <3>3. \A k : IsKind(s, k)' <=> k = op'[b].kind
      BY <1>7, <1>14, <2>1, <2>2, <3>1 DEF IsKind
    <3>4. m' = m
      OBVIOUS
    <3>5. QED
      BY <3>2, <3>3, <3>4
  <2>11. \A i \in Final(s)' : IsKind(s, Transit[i].kind)'
    BY <1>11, <2>9, <2>10
  <2> HIDE DEF Final, Told, IsKind, KnowsConfig, Deletes, Ready, Present
  <2>12. QED
    BY <1>9, <2>5, <2>7, <2>8, <2>9, <2>11 DEF Aligned
<1>15. QED
  BY <1>8, <1>10, <1>13, <1>14

\* What a step of the collector leaves of Aligned when only messages and storages change.
LEMMA CollectorAligned ==
    ASSUME NEW s \in Symbols, Aligned(s), UNCHANGED <<config, probes, pc, op>>,
           Told(s) => Final(s)' # {} \/ (Waiting(s, "DELETE")' = {} /\ Ready(s)'),
           Final(s)' # {} \/ (Waiting(s, "DELETE")' = {} /\ Ready(s)') => Told(s),
           \A i \in Final(s)' : IsKind(s, Transit'[i].kind),
           Waiting(s, "DELETE")' = {} /\ Present(s)' => IsKind(s, storages'[s].type)
    PROVE  Aligned(s)'
<1>1. Told(s)' = Told(s)
  BY DEF Told, Saving, Unsaving
<1>2. \A t : IsKind(s, t)' <=> IsKind(s, t)
  BY DEF IsKind
<1>3. \A b \in Backends : KnowsConfig(b, s)' /\ Deletes(b, s)'
  BY DEF Aligned, KnowsConfig, Deletes, Shared, Has
<1>4. \A i \in Final(s)' : IsKind(s, Transit[i].kind)'
  BY <1>2
<1>5. Waiting(s, "DELETE")' = {} /\ Present(s)' => IsKind(s, storages[s].type)'
  BY <1>2
<1> HIDE DEF Waiting, Final, Told, Ready, Present, IsKind, KnowsConfig, Deletes
<1>6. QED
  BY <1>1, <1>3, <1>4, <1>5 DEF Aligned

LEMMA TakeBatchAligned ==
    ASSUME IInv, AllAligned, TakeBatch, NEW s \in Symbols, Intact(s)'
    PROVE  Aligned(s)'
<1>1. /\ batch = <<>> /\ batch' = queue /\ queue' = <<>>
      /\ UNCHANGED <<storages, currentSymbol, config, closed, worker, probes, pc, op, past>>
  BY DEF TakeBatch, collector, history
<1>2. Aligned(s)
  BY <1>1 DEF Intact, AllAligned
<1>3. Transit' = Transit
  <2>1. queue \in Seq(Message)
    BY DEF IInv, CollectorInv, ChannelType
  <2>2. queue \o <<>> = queue /\ <<>> \o queue = queue
    BY <2>1, Transits
  <2>3. QED
    BY <1>1, <2>2 DEF Transit
<1>4. Waiting(s, "DELETE")' = Waiting(s, "DELETE") /\ Final(s)' = Final(s)
      /\ Present(s)' = Present(s) /\ Ready(s)' = Ready(s) /\ storages' = storages
  BY <1>1, <1>3 DEF Waiting, Final, Present, Ready
<1> HIDE DEF Waiting, Final, Told, Ready, Present, IsKind
<1>5. QED
  BY <1>1, <1>2, <1>3, <1>4, CollectorAligned DEF Aligned

LEMMA StartStatCollectorAligned ==
    ASSUME IInv, AdminOps, AllAligned, StartStatCollector, NEW s \in Symbols, Intact(s)'
    PROVE  Aligned(s)'
<1>1. /\ worker = "failed" /\ worker' = "second"
      /\ UNCHANGED <<currentSymbol, config, queue, batch, closed, probes, pc, op>>
      /\ past'[s] = past[s]
      /\ storages'[s] = IF config[s] \in Types THEN NewStorage(config[s]) ELSE NoStorage
  BY RestartedStorage, UnhurtUndisturbed DEF StartStatCollector, backend
<1>2. Aligned(s)
  BY <1>1 DEF Intact, AllAligned
<1>3. Waiting(s, "DELETE")' = Waiting(s, "DELETE") /\ Final(s)' = Final(s)
      /\ Transit' = Transit
  BY <1>1 DEF Waiting, Transit, Final
<1>4. /\ Ready(s)' <=> Ready(s)
      /\ Present(s)' => storages'[s].type = config[s] /\ config[s] # NoProbe
  <2>1. storages'[s] = IF config[s] \in Types THEN NewStorage(config[s]) ELSE NoStorage
    BY <1>1
  <2>2. config[s] # NoProbe <=> config[s] \in Types
    BY SharedUprobesAssumption DEF IInv, HistoryType
  <2>3. config[s] \in Types => NewStorage(config[s]) # NoStorage
    BY SharedUprobesAssumption, PlusType DEF NewStorage, Storage
  <2>4. NewStorage(config[s]).type = config[s]
    BY DEF NewStorage
  <2>5. QED
    BY <1>1, <2>1, <2>2, <2>3, <2>4 DEF Ready, Present
<1>5. config[s] # NoProbe => IsKind(s, config[s])
  <2>1. ASSUME config[s] # NoProbe, NEW b \in Backends, pc[b] = "save", op[b].symbol = s
        PROVE  FALSE
    BY <1>2, <2>1, SavingSets, NoneSetting
  <2>2. QED
    BY <2>1 DEF IsKind
<1>6. Present(s)' => IsKind(s, storages'[s].type)
  BY <1>4, <1>5
<1>7. UNCHANGED <<config, probes, pc, op>>
  BY <1>1
<1>8. /\ Told(s) <=> Final(s) # {} \/ (Waiting(s, "DELETE") = {} /\ Ready(s))
      /\ \A i \in Final(s) : IsKind(s, Transit[i].kind)
  BY <1>2 DEF Aligned
<1> HIDE DEF Waiting, Final, Told, Ready, Present, IsKind
<1>9. QED
  BY <1>2, <1>3, <1>4, <1>6, <1>7, <1>8, CollectorAligned

\* The messages left in the queue when those before are lost.
LEMMA ForParted ==
    ASSUME NEW p \in Seq(Message), NEW q \in Seq(Message), StartsNamed(q),
           NEW c, NEW d, NEW s, NEW t, t # "SYMBOL"
    PROVE  \A i \in For(p \o q, c, s, t) :
              i \in 1 .. Len(p) \/ (i - Len(p) \in For(q, d, s, t) /\ i > Len(p))
<1> DEFINE tr == p \o q
           m  == Len(p)
           n  == Len(q)
<1>1. /\ m \in Nat /\ n \in Nat /\ DOMAIN q = 1 .. n /\ DOMAIN tr = 1 .. m + n
      /\ \A i \in 1 .. n : tr[m + i] = q[i]
  BY Joined
<1>2. q # <<>> => q[1].type = "SYMBOL"
  BY OneTaken DEF StartsNamed
<1> HIDE DEF m, n, tr
<1>3. ASSUME NEW i \in For(tr, c, s, t), i \notin 1 .. m
      PROVE  i - m \in For(q, d, s, t) /\ i > m
  <2>1. i \in 1 .. m + n /\ tr[i].type = t /\ NameAt(tr, c, i) = s
    BY <1>1, <1>3 DEF For
  <2>2. i > m /\ i - m \in 1 .. n /\ m + (i - m) = i
    BY <1>1, <1>3, <2>1
  <2>3. q[i - m].type = t
    BY <1>1, <2>1, <2>2
  <2>4. i - m # 1
    BY <1>1, <1>2, <2>2, <2>3
  <2>5. (i - m) - 1 \in 1 .. n /\ m + ((i - m) - 1) = i - 1 /\ i # 1
    BY <1>1, <2>2, <2>4
  <2>6. NameAt(q, d, i - m) = NameAt(tr, c, i)
    BY <1>1, <2>4, <2>5 DEF NameAt
  <2>7. QED
    BY <1>1, <2>1, <2>2, <2>3, <2>6 DEF For
<1>4. QED
  BY <1>3 DEF tr, m

\* Where a collector fails, the config stands for the messages it took: no session is
\* between telling the collector and writing the config, or it is marked as cut short.
LEMMA EndsAligned ==
    ASSUME IInv, AllAligned, Stop \/ CollectorFails, NEW s \in Symbols, Intact(s)'
    PROVE  Aligned(s)'
<1>1. CollectorFails
  BY DEF Stop, Intact
<1>2. /\ UNCHANGED <<queue, config, closed, probes, pc, op>>
      /\ batch' = <<>> /\ worker' = "failed" /\ currentSymbol' = NoSymbol
      /\ storages' = [r \in Symbols |-> NoStorage]
  BY <1>1 DEF CollectorFails, Ends, WriteAllAtExit
<1>3. Mark({r \in Symbols : missed'[r] # missed[r]}
              \cup {op[b].symbol : b \in {c \in Backends : pc[c] \in {"save", "unsave"}}},
           "cut short")
  BY <1>1 DEF CollectorFails
<1>4. /\ "cut short" \notin past[s]
      /\ \A b \in Backends : pc[b] \in {"save", "unsave"} => op[b].symbol # s
  <2> DEFINE S == {r \in Symbols : missed'[r] # missed[r]}
                    \cup {op[b].symbol : b \in {c \in Backends : pc[c] \in {"save", "unsave"}}}
  <2>1. Mark(S, "cut short") /\ "cut short" \notin past'[s]
    BY <1>3 DEF Intact
  <2> HIDE DEF S
  <2>2. s \notin S /\ "cut short" \notin past[s]
    BY <2>1 DEF Mark
  <2>3. QED
    BY <2>2 DEF S
<1>5. Aligned(s)
  BY <1>2, <1>4 DEF Intact, AllAligned
<1>6. Told(s) <=> config[s] # NoProbe
  BY <1>4 DEF Told, Saving, Unsaving
<1>7. ~Present(s)' /\ (Ready(s)' <=> config[s] # NoProbe)
  BY <1>2 DEF Present, Ready
<1>8. /\ batch \in Seq(Message) /\ queue \in Seq(Message) /\ StartsNamed(queue)
  BY DEF IInv, CollectorInv, ChannelType, PairInv
<1>9. Transit' = queue
  <2>1. <<>> \o queue = queue
    BY <1>8, Transits
  <2>2. QED
    BY <1>2, <2>1 DEF Transit
<1> DEFINE m == Len(batch)
<1>10. /\ m \in Nat
       /\ \A i \in 1 .. Len(queue) : Transit[m + i] = Transit'[i]
       /\ DOMAIN queue = 1 .. Len(queue)
  BY <1>8, <1>9, Joined DEF Transit
<1>11. ASSUME NEW t, t # "SYMBOL"
       PROVE  /\ Waiting(s, t)' \subseteq 1 .. Len(queue)
              /\ \A i \in Waiting(s, t)' : m + i \in Waiting(s, t)
              /\ \A i \in Waiting(s, t) : i \in 1 .. m \/ (i - m \in Waiting(s, t)' /\ i > m)
  <2>1. Waiting(s, t)' = For(queue, NoSymbol, s, t)
    BY <1>2, <1>9 DEF Waiting
  <2>2. \A i \in For(queue, NoSymbol, s, t) : m + i \in For(batch \o queue, currentSymbol, s, t)
    BY <1>8, <1>11, ForJoined
  <2>3. \A i \in For(batch \o queue, currentSymbol, s, t) :
           i \in 1 .. m \/ (i - m \in For(queue, NoSymbol, s, t) /\ i > m)
    BY <1>8, <1>11, ForParted
  <2>4. For(queue, NoSymbol, s, t) \subseteq 1 .. Len(queue)
    BY <1>10 DEF For
  <2>5. QED
    BY <2>1, <2>2, <2>3, <2>4 DEF Waiting, Transit
<1> DEFINE D == Waiting(s, "DELETE")
           N == Waiting(s, "NEW")
<1>12. /\ D' \subseteq 1 .. Len(queue) /\ N' \subseteq 1 .. Len(queue)
       /\ \A i \in D' : m + i \in D
       /\ \A i \in N' : m + i \in N
       /\ \A i \in D : i \in 1 .. m \/ (i - m \in D' /\ i > m)
       /\ \A i \in N : i \in 1 .. m \/ (i - m \in N' /\ i > m)
  BY <1>11
<1> HIDE DEF Waiting, m
<1>13. ASSUME NEW i \in Final(s)' PROVE m + i \in Final(s) /\ Transit'[i] = Transit[m + i]
  <2>1. i \in N' /\ \A j \in D' : j < i
    BY <1>13 DEF Final
  <2>2. i \in 1 .. Len(queue) /\ Len(queue) \in Nat
    BY <1>8, <1>12, <2>1
  <2>3. ASSUME NEW j \in D PROVE j < m + i
    <3>1. CASE j \in 1 .. m
      BY <1>10, <2>2, <3>1
    <3>2. CASE j - m \in D' /\ j > m
      <4>1. j - m < i /\ j - m \in 1 .. Len(queue)
        BY <1>12, <2>1, <3>2
      <4>2. j \in Int
        BY <1>8, <1>10 DEF Waiting, For, Transit
      <4>3. QED
        BY <1>10, <2>2, <4>1, <4>2
    <3>3. QED
      BY <1>12, <3>1, <3>2
  <2>4. m + i \in Final(s)
    BY <1>12, <2>1, <2>3 DEF Final
  <2>5. QED
    BY <1>10, <2>2, <2>4
<1>14. Final(s)' # {} => Told(s)
  BY <1>5, <1>13 DEF Aligned
<1>15. Told(s) /\ D' # {} => Final(s)' # {}
  <2>1. SUFFICES ASSUME Told(s), NEW j \in D' PROVE Final(s)' # {}
    OBVIOUS
  <2>2. m + j \in D /\ j \in 1 .. Len(queue)
    BY <1>12, <2>1
  <2>3. PICK i \in Final(s) : TRUE
    BY <1>5, <2>1, <2>2 DEF Aligned
  <2>4. i \in N /\ m + j < i /\ \A k \in D : k < i
    BY <2>2, <2>3 DEF Final
  <2>5. i \in Int
    BY <1>8, <1>10, <2>4 DEF Waiting, For, Transit
  <2>6. i \notin 1 .. m
    BY <1>10, <2>2, <2>4, <2>5
  <2>7. i - m \in N'
    BY <1>12, <2>4, <2>6
  <2>8. ASSUME NEW k \in D' PROVE k < i - m
    <3>1. m + k < i /\ k \in 1 .. Len(queue)
      BY <1>12, <2>4
    <3>2. QED
      BY <1>10, <2>5, <3>1
  <2>9. i - m \in Final(s)'
    BY <2>7, <2>8 DEF Final
  <2>10. QED
    BY <2>9
<1>16. \A i \in Final(s)' : IsKind(s, Transit'[i].kind)
  BY <1>5, <1>13 DEF Aligned
<1>17. UNCHANGED <<config, probes, pc, op>>
  BY <1>2
<1> HIDE DEF Final, Told, Ready, Present, IsKind
<1>18. QED
  BY <1>5, <1>6, <1>7, <1>14, <1>15, <1>16, <1>17, CollectorAligned

LEMMA ProcessAligned ==
    ASSUME IInv, AllAligned, Process, NEW s \in Symbols, Intact(s)'
    PROVE  Aligned(s)'
<1> DEFINE m == Head(batch)
           n == Len(Transit)
           D == Waiting(s, "DELETE")
           N == Waiting(s, "NEW")
<1>1. /\ UNCHANGED <<config, closed, worker, probes, pc, op, past>>
      /\ worker # "failed"
  BY DEF Process, history, Running
<1>2. Aligned(s)
  BY <1>1 DEF Intact, AllAligned
<1>3. /\ D' \subseteq 1 .. n - 1 /\ \A i \in 1 .. n - 1 : i \in D' <=> i + 1 \in D
      /\ N' \subseteq 1 .. n - 1 /\ \A i \in 1 .. n - 1 : i \in N' <=> i + 1 \in N
      /\ D \subseteq 1 .. n /\ N \subseteq 1 .. n
      /\ 1 \in D <=> m.type = "DELETE" /\ currentSymbol = s
      /\ 1 \in N <=> m.type = "NEW" /\ currentSymbol = s
      /\ n \in Nat /\ m = Transit[1]
      /\ \A i \in 1 .. n - 1 : Transit'[i] = Transit[i + 1]
  BY TakenWaiting
<1>4. (Ready(s) <=> Present(s)) /\ (Ready(s)' <=> Present(s)')
  BY <1>1 DEF Ready
<1>5. /\ Told(s) <=> Final(s) # {} \/ (D = {} /\ Ready(s))
      /\ \A i \in Final(s) : IsKind(s, Transit[i].kind)
      /\ D = {} /\ Present(s) => IsKind(s, storages[s].type)
  BY <1>2 DEF Aligned
<1>6. /\ Final(s) = {i \in N : \A j \in D : j < i}
      /\ Final(s)' = {i \in N' : \A j \in D' : j < i}
  BY DEF Final
<1>7. 1 \notin D \/ 1 \notin N
  BY <1>3
<1>8. /\ ~(m.type \in {"NEW", "DELETE"} /\ currentSymbol = s) =>
            /\ Present(s)' <=> Present(s)
            /\ Present(s) => storages'[s].type = storages[s].type
      /\ 1 \in N => /\ Present(s)'
                    /\ storages'[s].type = IF Present(s) THEN storages[s].type ELSE m.kind
      /\ 1 \in D => ~Present(s)'
  BY <1>3, StorageKept, StorageMade, StorageRemoved
<1> HIDE DEF D, N, n, m
<1>9. ASSUME NEW i \in Final(s)'
      PROVE  i + 1 \in Final(s) /\ Transit'[i] = Transit[i + 1]
  <2>1. i \in N' /\ i \in 1 .. n - 1 /\ \A j \in D' : j < i
    BY <1>3, <1>6, <1>9
  <2>2. ASSUME NEW j \in D PROVE j < i + 1
    <3>1. j \in 1 .. n
      BY <1>3
    <3>2. CASE j = 1
      BY <1>3, <2>1, <3>2
    <3>3. CASE j # 1
      <4>1. j - 1 \in 1 .. n - 1 /\ (j - 1) + 1 = j
        BY <1>3, <3>1, <3>3
      <4>2. j - 1 \in D'
        BY <1>3, <4>1
      <4>3. j - 1 < i
        BY <2>1, <4>2
      <4>4. QED
        BY <1>3, <2>1, <3>1, <4>3
    <3>4. QED
      BY <3>2, <3>3
  <2>3. i + 1 \in N
    BY <1>3, <2>1
  <2>4. QED
    BY <1>3, <1>6, <2>1, <2>2, <2>3
<1>10. ASSUME NEW i \in Final(s), i # 1
       PROVE  Final(s)' # {}
  <2>1. i \in N /\ i \in 1 .. n /\ \A j \in D : j < i
    BY <1>3, <1>6
  <2>2. i - 1 \in 1 .. n - 1 /\ (i - 1) + 1 = i
    BY <1>3, <1>10, <2>1
  <2>3. i - 1 \in N'
    BY <1>3, <2>1, <2>2
  <2>4. ASSUME NEW j \in D' PROVE j < i - 1
    <3>1. j \in 1 .. n - 1
      BY <1>3
    <3>2. j + 1 \in D
      BY <1>3, <3>1
    <3>3. j + 1 < i
      BY <2>1, <3>2
    <3>4. QED
      BY <1>3, <2>1, <3>1, <3>3
  <2>5. i - 1 \in Final(s)'
    BY <1>6, <2>3, <2>4
  <2>6. QED
    BY <2>5
<1>11. 1 \in Final(s) <=> 1 \in N /\ D = {}
  <2>1. 1 \in Final(s) => D = {}
    <3>1. \A j \in D : ~(j < 1)
      BY <1>3
    <3>2. QED
      BY <1>6, <3>1
  <2>2. QED
    BY <1>6, <2>1
<1>12. D' = {} <=> D \subseteq {1}
  <2>1. ASSUME NEW j \in D, j # 1 PROVE j - 1 \in D'
    <3>1. j - 1 \in 1 .. n - 1 /\ (j - 1) + 1 = j
      BY <1>3, <2>1
    <3>2. QED
      BY <1>3, <3>1
  <2>2. ASSUME NEW j \in D' PROVE j + 1 \in D /\ j + 1 # 1
    <3>1. j \in 1 .. n - 1
      BY <1>3
    <3>2. QED
      BY <1>3, <3>1
  <2>3. QED
    BY <2>1, <2>2
<1>13. \A i \in Final(s)' : IsKind(s, Transit'[i].kind)
  BY <1>5, <1>9
<1>14. D' = {} /\ Present(s)' => IsKind(s, storages'[s].type)
  <2>1. SUFFICES ASSUME D' = {}, Present(s)' PROVE IsKind(s, storages'[s].type)
    OBVIOUS
  <2>2. D = {}
    BY <1>8, <1>12, <2>1
  <2>3. CASE 1 \in N
    BY <1>3, <1>5, <1>8, <1>11, <2>2, <2>3
  <2>4. CASE 1 \notin N
    BY <1>3, <1>5, <1>8, <2>1, <2>2, <2>4
  <2>5. QED
    BY <2>3, <2>4
<1>15. Told(s) => Final(s)' # {} \/ (D' = {} /\ Ready(s)')
  <2>1. SUFFICES ASSUME Told(s), Final(s)' = {} PROVE D' = {} /\ Ready(s)'
    OBVIOUS
  <2>2. Final(s) \subseteq {1}
    BY <1>10, <2>1
  <2>3. D = {}
    BY <1>5, <1>11, <2>1, <2>2
  <2>4. D' = {}
    BY <1>12, <2>3
  <2>5. CASE 1 \in N
    BY <1>4, <1>8, <2>4, <2>5
  <2>6. CASE 1 \notin N
    BY <1>3, <1>4, <1>5, <1>8, <1>11, <2>1, <2>2, <2>3, <2>4, <2>6
  <2>7. QED
    BY <2>5, <2>6
<1>16. Final(s)' # {} \/ (D' = {} /\ Ready(s)') => Told(s)
  <2>1. CASE Final(s)' # {}
    BY <1>5, <1>9, <2>1
  <2>2. ASSUME D' = {}, Ready(s)' PROVE Told(s)
    <3>1. D = {}
      BY <1>4, <1>8, <1>12, <2>2
    <3>2. CASE 1 \in N
      BY <1>5, <1>11, <3>1, <3>2
    <3>3. CASE 1 \notin N
      BY <1>3, <1>4, <1>5, <1>8, <2>2, <3>1, <3>3
    <3>4. QED
      BY <3>2, <3>3
  <2>3. QED
    BY <2>1, <2>2
<1> HIDE DEF Waiting, Final, Told, Ready, Present, IsKind
<1>17. UNCHANGED <<config, probes, pc, op>>
  BY <1>1
<1> USE DEF D
<1>18. QED
  BY <1>2, <1>13, <1>14, <1>15, <1>16, <1>17, CollectorAligned

LEMMA InitAligned == Init => AdminOps /\ AllAligned
<1>1. Init => AdminOps
  BY DEF Init, AdminOps, NoOp
<1> SUFFICES ASSUME Init, NEW s \in Symbols PROVE Aligned(s)
  BY <1>1 DEF AllAligned
<1>2. Transit = <<>>
  BY DEF Init, Transit
<1>3. (\A t : Waiting(s, t) = {}) /\ Final(s) = {}
  BY <1>2 DEF Waiting, For, Final
<1>4. /\ Ready(s) <=> config[s] # NoProbe
      /\ Present(s) => config[s] # NoProbe /\ storages[s].type = config[s]
  <2>1. storages[s] = IF config[s] \in Types THEN NewStorage(config[s]) ELSE NoStorage
    BY DEF Init, CollectorInit, StoragesFor
  <2>2. config[s] \in Types <=> config[s] # NoProbe
    BY SharedUprobesAssumption DEF Init
  <2>3. config[s] \in Types => NewStorage(config[s]) \in Storage /\ NewStorage(config[s]).type = config[s]
    BY PlusType DEF Storage, NewStorage
  <2>4. QED
    BY <2>1, <2>2, <2>3, SharedUprobesAssumption DEF Init, Ready, Present
<1>5. \A b \in Backends : op[b].name = "none" /\ pc[b] = "away"
  BY DEF Init, NoOp
<1> HIDE DEF Waiting, Final, Ready, Present
<1>6. QED
  BY <1>3, <1>4, <1>5 DEF Aligned, Told, Saving, Unsaving, IsKind, KnowsConfig, Deletes

LEMMA AlignedStep ==
    ASSUME OneAdmin
    PROVE  IInv /\ AdminOps /\ AllAligned /\ [Next]_vars => AllAligned'
<1> SUFFICES ASSUME IInv, AdminOps, AllAligned, [Next]_vars, NEW s \in Symbols, Intact(s)'
             PROVE  Aligned(s)'
  BY DEF AllAligned
<1>1. ASSUME NEW b \in Backends,
             \/ Connect(b) \/ Disconnect(b) \/ TimedStatSend(b)
             \/ \E r \in Symbols :
                   \/ Call(b, r)
                   \/ \E t \in Types, f \in BOOLEAN : SetUprobe(b, r, t, f)
                   \/ \E f \in BOOLEAN : DeleteUprobe(b, r, f) \/ DumpUprobeStat(b, r, f)
      PROVE  Aligned(s)'
  BY <1>1, ConnectAligned, StartAligned, CallAligned, SetUprobeAligned, DeleteUprobeAligned
<1>2. ASSUME NEW b \in Backends, BackendStep(b) \/ Abort(b)
      PROVE  Aligned(s)'
  BY <1>2, SendAligned, FinishAligned, SaveAligned, RemoveAligned, PutDataAligned, PutsAligned
     DEF BackendStep
<1>3. ASSUME TakeBatch \/ Process \/ Stop \/ CollectorFails \/ StartStatCollector
      PROVE  Aligned(s)'
  BY <1>3, TakeBatchAligned, ProcessAligned, EndsAligned, StartStatCollectorAligned
<1>4. CASE UNCHANGED vars
  <2>1. UNCHANGED <<past, closed, queue, batch, storages, currentSymbol, worker, config, probes,
                    pc, op>>
    BY <1>4 DEF vars, collector, channel, backend, history
  <2>2. Aligned(s)
    BY <2>1 DEF Intact, AllAligned
  <2>3. Waiting(s, "DELETE")' = Waiting(s, "DELETE") /\ Final(s)' = Final(s)
        /\ Present(s)' = Present(s) /\ Ready(s)' = Ready(s) /\ Transit' = Transit
    BY <2>1 DEF Waiting, Transit, Final, Present, Ready
  <2> HIDE DEF Waiting, Final, Told, Ready, Present, IsKind
  <2>4. QED
    BY <2>1, <2>2, <2>3, CollectorAligned DEF Aligned
<1>5. QED
  BY <1>1, <1>2, <1>3, <1>4 DEF Next

LEMMA AlignedStorages ==
    ASSUME IInv, AllAligned
    PROVE  StorageForEachEntry
<1> SUFFICES ASSUME Quiet, NEW s \in Symbols, Intact(s)
             PROVE  IF config[s] = NoProbe THEN ~Present(s)
                    ELSE Present(s) /\ storages[s].type = config[s]
  BY DEF StorageForEachEntry, Intact
<1>1. Aligned(s)
  BY DEF AllAligned
<1>2. Transit = <<>>
  BY DEF Quiet, Transit
<1>3. (\A t : Waiting(s, t) = {}) /\ Final(s) = {}
  BY <1>2 DEF Waiting, For, Final
<1>4. Told(s) <=> config[s] # NoProbe
  BY DEF Told, Saving, Unsaving, Quiet
<1>5. Ready(s) <=> Present(s)
  BY DEF Ready, Quiet
<1> HIDE DEF Waiting, Final, Told, Ready, Present
<1>6. QED
  BY <1>1, <1>3, <1>4, <1>5 DEF Aligned, IsKind

\* When one session sets and deletes the probes, and none of its functions was cut short,
\* the collector ends with a storage of the right type for each entry of the config and
\* with no other: set_uprobe and delete_uprobe tell it in the order in which they write
\* the config, though before they write it.
THEOREM StoragesFollowConfig ==
    ASSUME OneAdmin
    PROVE  Spec => []StorageForEachEntry
<1>1. IInv /\ AdminOps /\ AllAligned /\ [Next]_vars => AllAligned'
  BY AlignedStep
<1>2. IInv /\ AllAligned => StorageForEachEntry
  BY AlignedStorages
<1>3. QED
  BY <1>1, <1>2, InitAligned, AdminOpsStep, Invariance, PTL DEF Spec

-----------------------------------------------------------------------------
\* Why a storage gets data of its type: with one session that sets and deletes, every
\* probe that counts and every message with data are of the type the config has.

KindsFit(s) ==
    /\ \A i \in Waiting(s, "CUSTOM") : Transit[i].kind = config[s]
    /\ \A b \in Backends : s \in Shared(b) => probes[b][s].type = config[s]

AllKindsFit == \A s \in Symbols : Undisturbed(s) => KindsFit(s)

\* A step leaves the probe, with its type, or removes it.
KeptProbe(b, s) == s \in Shared(b)' => s \in Shared(b) /\ probes'[b][s].type = probes[b][s].type

LEMMA UnchangedKept ==
    ASSUME UNCHANGED probes
    PROVE  \A c \in Backends, s \in Symbols : KeptProbe(c, s)
  BY DEF KeptProbe, Shared, Has

LEMMA CountKept ==
    ASSUME IInv, NEW b \in Backends, NEW r \in Shared(b), NEW n \in Nat,
           probes' = [probes EXCEPT ![b][r].count = n]
    PROVE  \A c \in Backends, s \in Symbols : KeptProbe(c, s)
<1>1. r \in Symbols /\ probes[b][r] \in Probe /\ probes[b][r].shared /\ SessionType
  BY AtRest DEF IInv, SessionInv, Shared
<1>2. /\ \A c \in Backends \ {b} : probes'[c] = probes[c]
      /\ \A q \in Symbols \ {r} : probes'[b][q] = probes[b][q]
      /\ probes'[b][r].type = probes[b][r].type
  BY <1>1, CountChanged
<1>3. QED
  BY <1>1, <1>2 DEF KeptProbe, Shared, Has

LEMMA UnsharedKept ==
    ASSUME IInv, NEW b \in Backends, NEW r \in Symbols, NEW v, v = NoProbe \/ ~v.shared,
           SetProbe(b, r, v)
    PROVE  \A c \in Backends, s \in Symbols : KeptProbe(c, s)
<1>1. /\ \A c \in Backends \ {b} : probes'[c] = probes[c]
      /\ \A q \in Symbols \ {r} : probes'[b][q] = probes[b][q]
      /\ probes'[b][r] = v
  BY DEF IInv, SessionInv, SessionType, SetProbe
<1>2. QED
  BY <1>1 DEF KeptProbe, Shared, Has

LEMMA ProbesKept ==
    ASSUME IInv, NEW b \in Backends,
           \/ Disconnect(b) \/ TimedStatSend(b)
           \/ \E r \in Symbols :
                 \/ Call(b, r)
                 \/ \E t \in Types, f \in BOOLEAN : SetUprobe(b, r, t, f)
                 \/ \E f \in BOOLEAN : DeleteUprobe(b, r, f) \/ DumpUprobeStat(b, r, f)
           \/ SendNext(b) \/ SendDone(b) \/ PutData(b)
    PROVE  \A c \in Backends, s \in Symbols : KeptProbe(c, s)
<1> DEFINE Kept == \A c \in Backends, s \in Symbols : KeptProbe(c, s)
<1> HIDE DEF Kept
<1> SUFFICES Kept
  BY DEF Kept
<1>1. ASSUME \/ Disconnect(b) \/ TimedStatSend(b)
             \/ \E r \in Symbols, f \in BOOLEAN : DumpUprobeStat(b, r, f)
      PROVE  Kept
  BY <1>1, UnchangedKept DEF Disconnect, TimedStatSend, DumpUprobeStat, Kept
<1>2. ASSUME NEW r \in Symbols, Call(b, r) PROVE Kept
  <2>1. r \in Shared(b) /\ probes' = [probes EXCEPT ![b][r].count = @ + 1]
    BY <1>2 DEF Call
  <2>2. PICK n \in Nat : n = probes[b][r].count
    BY <2>1, AtRest DEF Probe
  <2>3. PICK k \in Nat : k = n + 1
    OBVIOUS
  <2>4. probes' = [probes EXCEPT ![b][r].count = k]
    BY <2>1, <2>2, <2>3
  <2>5. r \in Shared(b)
    BY <2>1
  <2>6. \A c \in Backends, s \in Symbols : KeptProbe(c, s)
    BY <2>4, <2>5, CountKept
  <2>7. QED
    BY <2>6 DEF Kept
<1>3. ASSUME NEW r \in Symbols, NEW t \in Types, NEW f \in BOOLEAN, SetUprobe(b, r, t, f)
      PROVE  Kept
  <2>1. CASE f
    BY <1>3, <2>1, UnchangedKept DEF SetUprobe, Kept
  <2>2. CASE ~f
    <3>1. PICK v : v = NewProbe(t, FALSE)
      OBVIOUS
    <3>2. SetProbe(b, r, v) /\ ~v.shared
      BY <1>3, <2>2, <3>1 DEF SetUprobe, NewProbe
    <3>3. QED
      BY <3>2, UnsharedKept DEF Kept
  <2>3. QED
    BY <2>1, <2>2
<1>4. ASSUME NEW r \in Symbols, NEW f \in BOOLEAN, DeleteUprobe(b, r, f) PROVE Kept
  <2>1. SetProbe(b, r, NoProbe)
    BY <1>4 DEF DeleteUprobe
  <2>2. QED
    BY <2>1, UnsharedKept DEF Kept
<1>5. CASE SendNext(b)
  <2>1. PICK r \in Busy(b) :
           IF probes[b][r].type = "TIME" THEN probes' = [probes EXCEPT ![b][r].count = 0]
           ELSE UNCHANGED probes
    BY <1>5 DEF SendNext
  <2>2. r \in Shared(b)
    BY AtRest DEF OpAt, Busy
  <2>3. PICK z \in Nat : z = 0
    OBVIOUS
  <2>4. UNCHANGED probes \/ probes' = [probes EXCEPT ![b][r].count = z]
    BY <2>1, <2>3
  <2>5. QED
    BY <2>2, <2>4, CountKept, UnchangedKept DEF Kept
<1>6. CASE SendDone(b)
  <2>1. UNCHANGED probes \/ probes' = [probes EXCEPT ![b] = [q \in Symbols |-> NoProbe]]
    BY <1>6 DEF SendDone
  <2>2. CASE probes' = [probes EXCEPT ![b] = [q \in Symbols |-> NoProbe]]
    <3>1. SessionType
      BY DEF IInv, SessionInv
    <3>2. \A c \in Backends, s \in Symbols : KeptProbe(c, s)
      BY <2>2, <3>1 DEF SessionType, KeptProbe, Shared, Has
    <3>3. QED
      BY <3>2 DEF Kept
  <2>3. QED
    BY <2>1, <2>2, UnchangedKept DEF Kept
<1>7. CASE PutData(b)
  <2>1. PICK n \in Int : Remain(b, n)
    <3>1. pc[b] = "putData" /\ op[b] \in OpSet
      BY <1>7, AtRest DEF PutData
    <3>2. \A k \in 1 .. op[b].left : op[b].left - k \in Int
      BY <3>1 DEF OpSet
    <3>3. CASE Remain(b, 0)
      BY <3>3
    <3>4. QED
      BY <1>7, <3>2, <3>3 DEF PutData
  <2>2. op[b].current \in Shared(b)
    <3>1. pc[b] = "putData"
      BY <1>7 DEF PutData
    <3>2. QED
      BY <3>1, AtRest DEF OpAt
  <2>3. PICK z \in Nat : z = 0
    OBVIOUS
  <2>4. PICK r : r = op[b].current
    OBVIOUS
  <2>5. UNCHANGED probes \/ probes' = [probes EXCEPT ![b][r].count = z]
    BY <2>1, <2>3, <2>4 DEF Remain
  <2>6. r \in Shared(b)
    BY <2>2, <2>4
  <2>7. CASE UNCHANGED probes
    BY <2>7, UnchangedKept DEF Kept
  <2>8. CASE probes' = [probes EXCEPT ![b][r].count = z]
    <3>1. \A c \in Backends, s \in Symbols : KeptProbe(c, s)
      BY <2>6, <2>8, CountKept
    <3>2. QED
      BY <3>1 DEF Kept
  <2>9. QED
    BY <2>5, <2>7, <2>8
<1>8. QED
  BY <1>1, <1>2, <1>3, <1>4, <1>5, <1>6, <1>7

LEMMA SessionKinds ==
    ASSUME NEW s \in Symbols, KindsFit(s), UNCHANGED <<queue, batch, currentSymbol>>,
           config'[s] = config[s],
           \A c \in Backends : s \in Shared(c)' => probes'[c][s].type = config[s]
    PROVE  KindsFit(s)'
<1>1. Transit' = Transit /\ Waiting(s, "CUSTOM")' = Waiting(s, "CUSTOM")
  BY DEF Transit, Waiting
<1>2. QED
  BY <1>1 DEF KindsFit

LEMMA KeptKinds ==
    ASSUME NEW s \in Symbols, KindsFit(s), \A c \in Backends : KeptProbe(c, s)
    PROVE  \A c \in Backends : s \in Shared(c)' => probes'[c][s].type = config[s]
  BY DEF KindsFit, KeptProbe

LEMMA RestKinds ==
    ASSUME IInv, AllKindsFit, NEW b \in Backends, NEW s \in Symbols, Undisturbed(s)',
           \/ Disconnect(b) \/ TimedStatSend(b)
           \/ \E r \in Symbols :
                 \/ Call(b, r)
                 \/ \E t \in Types, f \in BOOLEAN : SetUprobe(b, r, t, f)
                 \/ \E f \in BOOLEAN : DeleteUprobe(b, r, f) \/ DumpUprobeStat(b, r, f)
           \/ SendNext(b) \/ SendDone(b) \/ WaitLatch(b) \/ Abort(b)
    PROVE  KindsFit(s)'
<1>1. /\ UNCHANGED <<queue, batch, currentSymbol, closed>>
      /\ config'[s] = config[s]
  <2>1. CASE Abort(b)
    <3>1. UNCHANGED <<queue, batch, currentSymbol, closed>>
      BY <2>1 DEF Abort, channel
    <3>2. QED
      BY <2>1, <3>1, UnhurtUndisturbed, AbortedConfig
  <2>2. CASE ~Abort(b)
    BY <2>2 DEF Disconnect, TimedStatSend, Call, SetUprobe, DeleteUprobe, DumpUprobeStat,
       SendNext, SendDone, WaitLatch, collector, channel
  <2>3. QED
    BY <2>1, <2>2
<1>2. UNCHANGED past \/ \E S, w : Mark(S, w)
  <2>1. ASSUME NEW r \in Symbols, NEW f \in BOOLEAN, DeleteUprobe(b, r, f)
        PROVE  UNCHANGED past \/ Mark({r}, "deleted")
    BY <2>1 DEF DeleteUprobe
  <2>2. CASE Abort(b)
    <3>1. Mark({op[b].symbol, op[b].current} \cup Astray(config), "cut short")
      BY <2>2 DEF Abort
    <3>2. QED
      BY <3>1
  <2>3. ASSUME \/ Disconnect(b) \/ TimedStatSend(b)
               \/ \E r \in Symbols :
                     \/ Call(b, r)
                     \/ \E t \in Types, f \in BOOLEAN : SetUprobe(b, r, t, f)
                     \/ \E f \in BOOLEAN : DumpUprobeStat(b, r, f)
               \/ SendNext(b) \/ SendDone(b) \/ WaitLatch(b)
        PROVE  UNCHANGED past
    BY <2>3 DEF Disconnect, TimedStatSend, Call, SetUprobe, DumpUprobeStat, SendNext,
       SendDone, WaitLatch, history
  <2>4. QED
    BY <2>1, <2>2, <2>3
<1>3. past[s] = {}
  BY <1>2, MarkedNot DEF Undisturbed
<1>4. KindsFit(s)
  BY <1>1, <1>3 DEF Undisturbed, AllKindsFit
<1>5. \A c \in Backends : KeptProbe(c, s)
  <2>1. CASE WaitLatch(b) \/ Abort(b)
    <3>1. UNCHANGED probes
      BY <2>1 DEF WaitLatch, Abort
    <3>2. QED
      BY <3>1, UnchangedKept
  <2>2. CASE ~(WaitLatch(b) \/ Abort(b))
    BY <2>2, ProbesKept
  <2>3. QED
    BY <2>1, <2>2
<1>6. \A c \in Backends : s \in Shared(c)' => probes'[c][s].type = config[s]
  BY <1>4, <1>5, KeptKinds
<1>7. QED
  BY <1>1, <1>4, <1>6, SessionKinds

LEMMA ConnectKinds ==
    ASSUME IInv, AllKindsFit, NEW b \in Backends, Connect(b), NEW s \in Symbols, Undisturbed(s)'
    PROVE  KindsFit(s)'
<1>1. UNCHANGED <<queue, batch, currentSymbol, config, closed>> /\ SessionType
  BY DEF Connect, collector, channel, IInv, SessionInv
<1>2. ~ Mark(Symbols, "cut short")
  BY MarkedNot DEF Undisturbed
<1>3. /\ UNCHANGED past
      /\ probes' = [probes EXCEPT ![b] = [r \in Symbols |->
            IF config[r] = NoProbe THEN NoProbe ELSE NewProbe(config[r], TRUE)]]
  BY <1>2 DEF Connect
<1>4. KindsFit(s)
  BY <1>1, <1>3 DEF Undisturbed, AllKindsFit
<1>5. ASSUME NEW c \in Backends, s \in Shared(c)' PROVE probes'[c][s].type = config[s]
  <2>1. CASE c = b
    <3>1. probes'[b][s] = IF config[s] = NoProbe THEN NoProbe ELSE NewProbe(config[s], TRUE)
      BY <1>1, <1>3 DEF SessionType
    <3>2. probes'[b][s] # NoProbe
      BY <1>5, <2>1 DEF Shared, Has
    <3>3. QED
      BY <2>1, <3>1, <3>2 DEF NewProbe
  <2>2. CASE c # b
    <3>1. probes'[c] = probes[c]
      BY <1>1, <1>3, <2>2 DEF SessionType
    <3>2. s \in Shared(c)
      BY <1>5, <3>1 DEF Shared, Has
    <3>3. QED
      BY <1>4, <3>1, <3>2 DEF KindsFit
  <2>3. QED
    BY <2>1, <2>2
<1>6. QED
  BY <1>1, <1>4, <1>5, SessionKinds

\* A probe is added to the config where there was none, so no session has it and no data
\* of it are under way.
LEMMA SaveKinds ==
    ASSUME IInv, AdminOps, AllAligned, AllAnnounced, AllKindsFit, NEW b \in Backends,
           SaveInConfig(b), NEW s \in Symbols, Undisturbed(s)'
    PROVE  KindsFit(s)'
<1> DEFINE r == op[b].symbol
<1>1. /\ UNCHANGED <<queue, batch, currentSymbol, closed>>
      /\ pc[b] = "save" /\ SessionType
  BY DEF SaveInConfig, collector, channel, IInv, SessionInv
<1>2. r \in Symbols /\ op[b].kind \in Types /\ op[b].name = "set"
  BY <1>1, AtRest DEF OpAt
<1>3. /\ s = r => config'[s] = op[b].kind
      /\ s # r => config'[s] = config[s]
      /\ past'[s] = past[s]
  BY UnhurtUndisturbed, SavedConfig
<1>5. past[s] = {}
  BY <1>3 DEF Undisturbed
<1>6. KindsFit(s) /\ Announced(s) /\ Aligned(s)
  BY <1>1, <1>5 DEF Undisturbed, Intact, AllKindsFit, AllAnnounced, AllAligned
<1>7. UNCHANGED probes \/ SetProbe(b, r, NewProbe(op[b].kind, TRUE))
  BY DEF SaveInConfig
<1>8. CASE s # r
  <2>1. \A c \in Backends : probes'[c][s] = probes[c][s]
    BY <1>1, <1>2, <1>7, <1>8 DEF SessionType, SetProbe
  <2>2. \A c \in Backends : s \in Shared(c)' => probes'[c][s].type = config[s]
    BY <1>6, <2>1 DEF KindsFit, Shared, Has
  <2>3. QED
    BY <1>1, <1>3, <1>6, <1>8, <2>2, SessionKinds
<1>9. CASE s = r
  <2>1. config[s] = NoProbe
    BY <1>2, <1>6, <1>9, NoneSetting
  <2>2. Waiting(s, "CUSTOM") = {}
    <3>1. ASSUME NEW i \in Waiting(s, "CUSTOM") PROVE FALSE
      <4>1. i \in DOMAIN Transit /\ Transit[i].type = "CUSTOM"
        BY DEF Waiting, For
      <4>2. Transit[i] \in Message
        BY <4>1, TransitType DEF IInv, CollectorInv
      <4>3. Transit[i].kind \in Types
        BY <4>1, <4>2, MessageTypes
      <4>4. Transit[i].kind = NoProbe
        BY <1>6, <2>1 DEF KindsFit
      <4>5. QED
        BY <4>3, <4>4, SharedUprobesAssumption
    <3>2. QED
      BY <3>1
  <2>3. Waiting(s, "CUSTOM")' = {}
    BY <1>1, <2>2 DEF Waiting, Transit
  <2>4. \A c \in Backends : s \notin Shared(c)
    BY <1>6, <2>1 DEF Announced
  <2>5. ASSUME NEW c \in Backends, s \in Shared(c)' PROVE probes'[c][s].type = config'[s]
    <3>1. ~(c # b \/ UNCHANGED probes)
      <4>1. c # b => probes'[c] = probes[c]
        BY <1>1, <1>7 DEF SessionType, SetProbe
      <4>2. QED
        BY <2>4, <2>5, <4>1 DEF Shared, Has
    <3>2. probes'[b][s] = NewProbe(op[b].kind, TRUE)
      <4>1. PICK v : v = NewProbe(op[b].kind, TRUE)
        OBVIOUS
      <4>2. probes' = [probes EXCEPT ![b][s] = v]
        BY <1>7, <1>9, <3>1, <4>1 DEF SetProbe
      <4>3. QED
        BY <1>1, <4>1, <4>2 DEF SessionType
    <3>3. QED
      BY <1>3, <1>9, <3>1, <3>2 DEF NewProbe
  <2>6. QED
    BY <2>3, <2>5 DEF KindsFit
<1>10. QED
  BY <1>8, <1>9

LEMMA RemoveKinds ==
    ASSUME IInv, AllAnnounced, AllKindsFit, NEW b \in Backends, DeleteFromConfig(b),
           NEW s \in Symbols, Undisturbed(s)'
    PROVE  KindsFit(s)'
<1> DEFINE r == op[b].symbol
<1>0. /\ config'[s] = IF s = r THEN NoProbe ELSE config[s]
      /\ past'[s] = past[s]
  BY UnhurtUndisturbed, RemovedConfig
<1>1. /\ UNCHANGED <<queue, batch, currentSymbol, closed, probes>>
      /\ pc[b] = "unsave"
  BY DEF DeleteFromConfig, collector, channel
<1>2. KindsFit(s) /\ Announced(s)
  BY <1>0, <1>1 DEF Undisturbed, AllKindsFit, AllAnnounced
<1>3. r # s
  BY <1>1, <1>2 DEF Announced, Deleting
<1>4. config'[s] = config[s]
  BY <1>0, <1>3
<1>5. \A c \in Backends : s \in Shared(c)' => probes'[c][s].type = config[s]
  BY <1>1, <1>2 DEF KindsFit, Shared, Has
<1>6. QED
  BY <1>1, <1>2, <1>4, <1>5, SessionKinds

LEMMA PutKinds ==
    ASSUME IInv, NEW s \in Symbols, KindsFit(s), NEW a \in Symbols, NEW m \in Request,
           Appends(a, m), UNCHANGED <<batch, currentSymbol, config>>,
           m.type = "CUSTOM" /\ a = s => m.kind = config[s],
           \A c \in Backends : KeptProbe(c, s)
    PROVE  KindsFit(s)'
<1> DEFINE n == Len(Transit)
           C == Waiting(s, "CUSTOM")
<1>1. /\ n \in Nat
      /\ \A i \in 1 .. n : Transit'[i] = Transit[i]
      /\ Transit'[n + 2] = m
      /\ C \subseteq 1 .. n
      /\ C' = C \cup IF m.type = "CUSTOM" /\ a = s THEN {n + 2} ELSE {}
  BY PutWaiting
<1>2. \A c \in Backends : s \in Shared(c)' => probes'[c][s].type = config'[s]
  BY KeptKinds
<1>3. \A i \in C : Transit[i].kind = config[s]
  BY DEF KindsFit
<1> HIDE DEF n, C
<1>4. ASSUME NEW i \in C' PROVE Transit'[i].kind = config'[s]
  <2>1. CASE i \in C
    BY <1>1, <1>3, <2>1
  <2>2. CASE i \notin C
    BY <1>1, <1>4, <2>2
  <2>3. QED
    BY <2>1, <2>2
<1>5. QED
  BY <1>2, <1>4 DEF KindsFit, C

LEMMA PutDataKinds ==
    ASSUME IInv, AllKindsFit, NEW b \in Backends, PutData(b), NEW s \in Symbols, Undisturbed(s)'
    PROVE  KindsFit(s)'
<1> DEFINE r == op[b].current
<1>1. /\ pc[b] = "putData" /\ SessionType
      /\ UNCHANGED <<currentSymbol, config, batch, closed, past>>
  BY DEF PutData, history, IInv, SessionInv
<1>2. KindsFit(s) /\ ~closed
  BY <1>1 DEF Undisturbed, AllKindsFit
<1>3. PICK k \in 1 .. op[b].left :
         Stored(b, r, [type |-> "CUSTOM", kind |-> probes[b][r].type, from |-> b, n |-> k])
  BY <1>2 DEF PutData
<1>4. PICK m : m = [type |-> "CUSTOM", kind |-> probes[b][r].type, from |-> b, n |-> k]
  OBVIOUS
<1>5. r \in Symbols /\ r \in Shared(b) /\ m \in Request
      /\ m.type = "CUSTOM" /\ m.kind = probes[b][r].type
  BY <1>1, <1>4, DataMessage DEF Request, IInv
<1>6. Appends(r, m)
  BY <1>3, <1>4 DEF Stored, Appends
<1>7. r = s => m.kind = config[s]
  BY <1>2, <1>5 DEF KindsFit
<1>8. \A c \in Backends : KeptProbe(c, s)
  BY ProbesKept
<1> HIDE DEF r
<1>9. QED
  BY <1>1, <1>2, <1>5, <1>6, <1>7, <1>8, PutKinds

LEMMA PutsKinds ==
    ASSUME IInv, AllKindsFit, NEW b \in Backends, PutNew(b) \/ PutWrite(b) \/ PutDelete(b),
           NEW s \in Symbols, Undisturbed(s)'
    PROVE  KindsFit(s)'
<1>1. /\ UNCHANGED <<currentSymbol, config, batch, closed, past, probes>>
      /\ op[b].name \in {"set", "dump", "delete"} /\ OpAt(b)
  BY AtRest DEF PutNew, PutWrite, PutDelete, history, collector, OpAt
<1>2. KindsFit(s) /\ ~closed
  BY <1>1 DEF Undisturbed, AllKindsFit
<1>3. PICK a \in Symbols : a = op[b].symbol
  BY <1>1 DEF OpAt
<1>4. PICK m \in Request : Appends(a, m) /\ m.type # "CUSTOM"
  <2>1. CASE PutNew(b)
    <3>1. PICK m : m = [type |-> "NEW", kind |-> op[b].kind]
      OBVIOUS
    <3>2. m \in Message /\ m.type = "NEW"
      BY <2>1, <3>1, NewMessage DEF PutNew, IInv
    <3>3. Appends(a, m)
      BY <1>2, <1>3, <2>1, <3>1 DEF PutNew, Put, Stored, Appends
    <3>4. QED
      BY <3>2, <3>3 DEF Request
  <2>2. CASE PutWrite(b)
    <3>1. PICK m : m = [type |-> "WRITE", from |-> b, flag |-> op[b].flag]
      OBVIOUS
    <3>2. m \in Message /\ m.type = "WRITE"
      BY <2>2, <3>1, RequestMessage DEF PutWrite, IInv
    <3>3. Appends(a, m)
      BY <1>2, <1>3, <2>2, <3>1 DEF PutWrite, Put, Stored, Appends
    <3>4. QED
      BY <3>2, <3>3 DEF Request
  <2>3. CASE PutDelete(b)
    <3>1. PICK m : m = [type |-> "DELETE", from |-> b, flag |-> op[b].flag]
      OBVIOUS
    <3>2. m \in Message /\ m.type = "DELETE"
      BY <2>3, <3>1, RequestMessage DEF PutDelete, IInv
    <3>3. Appends(a, m)
      BY <1>2, <1>3, <2>3, <3>1 DEF PutDelete, Put, Stored, Appends
    <3>4. QED
      BY <3>2, <3>3 DEF Request
  <2>4. QED
    BY <2>1, <2>2, <2>3
<1>5. \A c \in Backends : KeptProbe(c, s)
  BY <1>1, UnchangedKept
<1>6. QED
  BY <1>1, <1>2, <1>4, <1>5, PutKinds

\* The collector takes messages away and changes no probe.
LEMMA CollectorKinds ==
    ASSUME IInv, AllKindsFit, CollectorStep, NEW s \in Symbols, Undisturbed(s)'
    PROVE  KindsFit(s)'
<1> DEFINE C == Waiting(s, "CUSTOM")
<1>1. UNCHANGED <<config, probes>> /\ ~closed /\ past[s] = {}
  <2>1. CASE CollectorFails
    <3>1. UNCHANGED <<config, probes, closed>> /\ \E S : Mark(S, "cut short")
      BY <2>1 DEF CollectorFails
    <3>2. QED
      BY <3>1, MarkedNot DEF Undisturbed
  <2>2. CASE StartStatCollector
    <3>1. past'[s] = past[s]
      BY <2>2, UnhurtUndisturbed, RestartedStorage
    <3>2. QED
      BY <2>2, <3>1 DEF StartStatCollector, backend, Undisturbed
  <2>3. CASE ~CollectorFails /\ ~StartStatCollector
    BY <2>3 DEF CollectorStep, TakeBatch, Process, Stop, history, Undisturbed
  <2>4. QED
    BY <2>1, <2>2, <2>3
<1>2. KindsFit(s)
  BY <1>1 DEF Undisturbed, AllKindsFit
<1>3. \A c \in Backends : s \in Shared(c)' => probes'[c][s].type = config'[s]
  BY <1>1, <1>2 DEF KindsFit, Shared, Has
<1>4. batch \in Seq(Message) /\ queue \in Seq(Message) /\ StartsNamed(queue)
  BY DEF IInv, CollectorInv, ChannelType, PairInv
<1>5. SUFFICES \A i \in C' : \E j \in C : Transit'[i] = Transit[j]
  BY <1>1, <1>2, <1>3 DEF KindsFit
<1>6. CASE TakeBatch \/ StartStatCollector
  <2>1. currentSymbol' = currentSymbol /\ Transit' = Transit
    <3>1. CASE TakeBatch
      <4>1. queue \o <<>> = queue /\ <<>> \o queue = queue
        BY <1>4, Transits
      <4>2. QED
        BY <3>1, <4>1 DEF TakeBatch, Transit, collector
    <3>2. CASE StartStatCollector
      BY <3>2 DEF StartStatCollector, Transit
    <3>3. QED
      BY <1>6, <3>1, <3>2
  <2>2. C' = C
    BY <2>1 DEF Waiting
  <2>3. QED
    BY <2>1, <2>2
<1>7. CASE Process
  <2> DEFINE n == Len(Transit)
  <2>1. /\ C' \subseteq 1 .. n - 1
        /\ \A i \in 1 .. n - 1 : i \in C' <=> i + 1 \in C
        /\ \A i \in 1 .. n - 1 : Transit'[i] = Transit[i + 1]
    BY <1>7, TakenWaiting
  <2> HIDE DEF C, n
  <2>2. QED
    BY <2>1
<1>8. CASE CollectorFails
  <2>1. batch' = <<>> /\ queue' = queue /\ currentSymbol' = NoSymbol
    BY <1>8 DEF CollectorFails, Ends, WriteAllAtExit
  <2>2. Transit' = queue
    <3>1. <<>> \o queue = queue
      BY <1>4, Transits
    <3>2. QED
      BY <2>1, <3>1 DEF Transit
  <2>3. C' = For(queue, NoSymbol, s, "CUSTOM")
    BY <2>1, <2>2 DEF Waiting
  <2>4. \A i \in C' : Len(batch) + i \in C
    BY <1>4, <2>3, ForJoined DEF Waiting, Transit
  <2>5. C' \subseteq DOMAIN queue
    BY <2>3 DEF For
  <2>6. \A i \in DOMAIN queue : Transit[Len(batch) + i] = queue[i]
    BY <1>4, Joined DEF Transit
  <2> HIDE DEF C
  <2>7. QED
    BY <2>2, <2>4, <2>5, <2>6
<1>9. QED
  BY <1>6, <1>7, <1>8 DEF CollectorStep, Stop, Undisturbed

LEMMA KindsStep ==
    IInv /\ AdminOps /\ AllAligned /\ AllAnnounced /\ AllKindsFit /\ [Next]_vars => AllKindsFit'
<1> SUFFICES ASSUME IInv, AdminOps, AllAligned, AllAnnounced, AllKindsFit, [Next]_vars,
                    NEW s \in Symbols, Undisturbed(s)'
             PROVE  KindsFit(s)'
  BY DEF AllKindsFit
<1>1. ASSUME NEW b \in Backends,
             \/ Connect(b) \/ Disconnect(b) \/ TimedStatSend(b)
             \/ \E r \in Symbols :
                   \/ Call(b, r)
                   \/ \E t \in Types, f \in BOOLEAN : SetUprobe(b, r, t, f)
                   \/ \E f \in BOOLEAN : DeleteUprobe(b, r, f) \/ DumpUprobeStat(b, r, f)
      PROVE  KindsFit(s)'
  BY <1>1, ConnectKinds, RestKinds
<1>2. ASSUME NEW b \in Backends, BackendStep(b) \/ Abort(b)
      PROVE  KindsFit(s)'
  BY <1>2, RestKinds, SaveKinds, RemoveKinds, PutDataKinds, PutsKinds DEF BackendStep
<1>3. CASE CollectorStep
  BY <1>3, CollectorKinds
<1>4. CASE UNCHANGED vars
  <2>1. UNCHANGED <<past, closed, queue, batch, currentSymbol, config, probes>>
    BY <1>4 DEF vars, collector, channel, backend, history
  <2>2. KindsFit(s)
    BY <2>1 DEF Undisturbed, AllKindsFit
  <2>3. \A c \in Backends : s \in Shared(c)' => probes'[c][s].type = config[s]
    BY <2>1, <2>2 DEF KindsFit, Shared, Has
  <2>4. QED
    BY <2>1, <2>2, <2>3, SessionKinds
<1>5. QED
  BY <1>1, <1>2, <1>3, <1>4 DEF Next, CollectorStep

LEMMA InitKinds == Init => AllKindsFit
<1> SUFFICES ASSUME Init, NEW s \in Symbols PROVE KindsFit(s)
  BY DEF AllKindsFit
<1>1. Transit = <<>>
  BY DEF Init, Transit
<1>2. Waiting(s, "CUSTOM") = {}
  BY <1>1 DEF Waiting, For
<1>3. \A b \in Backends : Shared(b) = {}
  BY DEF Init, Shared, Has
<1>4. QED
  BY <1>2, <1>3 DEF KindsFit

LEMMA KindsData ==
    ASSUME IInv, AllAnnounced, AllAligned, AllKindsFit
    PROVE  DataFitsUnlessDeleted
<1> DEFINE m == Head(batch)
<1> SUFFICES ASSUME NEW s \in Symbols, s = currentSymbol, past[s] = {}, ~closed,
                    currentStorage = "live", batch # <<>>, m.type = "CUSTOM"
             PROVE  m.kind = storages[s].type
  BY DEF DataFitsUnlessDeleted, DataFits
<1>1. Announced(s) /\ Aligned(s) /\ KindsFit(s)
  BY DEF AllAnnounced, AllAligned, AllKindsFit, Undisturbed, Intact
<1>2. /\ batch \in Seq(Message) /\ queue \in Seq(Message) /\ Transit \in Seq(Message)
      /\ StartsNamed(batch) \/ Fresh
  BY TransitType DEF IInv, CollectorInv, ChannelType, PairInv
<1>3. m = batch[1]
  BY <1>2, OneTaken
<1>4. Transit # <<>> /\ m = Head(Transit)
  BY <1>2, Transits DEF Transit
<1>5. m = Transit[1] /\ 1 \in DOMAIN Transit /\ m \in Message
  <2>1. m = Transit[1] /\ 1 \in DOMAIN Transit
    BY <1>2, <1>4, OneTaken
  <2>2. QED
    BY <2>1, TransitType DEF IInv, CollectorInv
<1>6. Fresh
  BY <1>2, <1>3 DEF StartsNamed
<1>7. Present(s)
  BY <1>6 DEF Fresh
<1>8. 1 \in Waiting(s, "CUSTOM")
  BY <1>5 DEF Waiting, For, NameAt
<1> HIDE DEF m
<1>9. m.kind = config[s] /\ m.kind \in Types
  BY <1>1, <1>5, <1>8, MessageTypes DEF KindsFit
<1>10. config[s] # NoProbe
  BY <1>9, SharedUprobesAssumption
<1>11. IsKind(s, storages[s].type)
  BY <1>1, <1>7 DEF Announced, Aligned
<1>12. QED
  BY <1>9, <1>10, <1>11 DEF IsKind

\* When one session sets and deletes the probes, a storage never gets data of another
\* type, as long as its probe was not deleted and no function on it was cut short: a
\* probe is set only where the config has none, and then no session has one and no data
\* of one are under way.
THEOREM DataFitTheirStorage ==
    ASSUME OneAdmin
    PROVE  Spec => []DataFitsUnlessDeleted
<1>1. IInv /\ AdminOps /\ AllAligned /\ [Next]_vars => AllAligned'
  BY AlignedStep
<1>2. IInv /\ AllAnnounced /\ AllAligned /\ AllKindsFit => DataFitsUnlessDeleted
  BY KindsData
<1>3. QED
  BY <1>1, <1>2, InitAligned, InitAnnounced, InitKinds, AdminOpsStep, AnnouncedStep, KindsStep,
     Invariance, PTL DEF Spec
=============================================================================
