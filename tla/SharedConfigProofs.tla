--------------------------- MODULE SharedConfigProofs ---------------------------
(***************************************************************************)
(* Proofs about the config file, for any sessions, functions, types and    *)
(* number of calls.                                                        *)
(***************************************************************************)
EXTENDS SharedConfig, TLAPS

\* Every entry of a config was asked for.
Sound(c) == \A f \in Symbols : c[f] = NoEntry \/ <<f, c[f]>> \in asked

\* What makes Asked inductive: where an entry that nobody asked for in writing yet may
\* be, namely in the config about to be written, at the function it is written for.
HonestWrites ==
    /\ Sound(entries)
    /\ \A s \in Sessions : pc[s] = "opening" =>
          \A f \in Symbols : \/ config[s][f] = NoEntry \/ <<f, config[s][f]>> \in asked
                             \/ f = op[s].symbol /\ config[s][f] = op[s].type
    /\ \A s \in Sessions : pc[s] \in {"writing", "adding"} /\ op[s].type # NoEntry =>
          <<op[s].symbol, op[s].type>> \in asked

IInv == TypeOK /\ NothingLost /\ Asked /\ HonestWrites

Requests == [symbol : Symbols, type : Types \cup {NoEntry}]

-----------------------------------------------------------------------------
\* What is read is a config.
LEMMA ContentType == TypeOK => Content \in Configs
  BY DEF TypeOK, Content, Empty, Configs

\* An entry changed in a config leaves a config.
LEMMA ChangeType ==
    ASSUME NEW c \in Configs, NEW r \in Requests
    PROVE  /\ [c EXCEPT ![r.symbol] = r.type] \in Configs
           /\ \A f \in Symbols : [c EXCEPT ![r.symbol] = r.type][f]
                                    = IF f = r.symbol THEN r.type ELSE c[f]
  BY DEF Configs, Requests

\* A session that moves on changes its own place only.
LEMMA GotoMoves ==
    ASSUME TypeOK, NEW s \in Sessions, NEW l \in States, Goto(s, l)
    PROVE  /\ pc' \in [Sessions -> States]
           /\ pc'[s] = l
           /\ \A r \in Sessions : r # s => pc'[r] = pc[r]
  BY DEF TypeOK, Goto

\* A session that takes a request: what all ways to do it have in common.  base is
\* the config the request is applied to, unless there is nothing to do.
Taken(s, r, base) ==
    /\ op' = [op EXCEPT ![s] = r]
    /\ config' = [config EXCEPT ![s] = [base EXCEPT ![r.symbol] = r.type]]
    /\ Goto(s, "opening")

LEMMA SetTakes ==
    ASSUME TypeOK, NEW s \in Sessions, NEW f \in Symbols, NEW t \in Types, set_uprobe(s, f, t)
    PROVE  LET r == [symbol |-> f, type |-> t]
           IN  \/ Taken(s, r, Content) /\ trouble' = (trouble \/ AtOnce(s))
               \/ Taken(s, r, Empty) /\ trouble' = TRUE
  BY DEF set_uprobe, PGUprobeSaveInSharedConfig, ReadAndChange, SaveCannotRead, Taken

LEMMA DeleteTakes ==
    ASSUME NEW s, NEW f, PGUprobeDeleteFromSharedConfig(s, f)
    PROVE  /\ trouble' = (trouble \/ AtOnce(s))
           /\ \/ Taken(s, [symbol |-> f, type |-> NoEntry], Content)
              \/ Goto(s, "idle") /\ UNCHANGED <<op, config>>
  BY DEF PGUprobeDeleteFromSharedConfig, ReadAndChange, Taken

LEMMA RequestType ==
    \A f \in Symbols : /\ [symbol |-> f, type |-> NoEntry] \in Requests
                       /\ \A t \in Types : [symbol |-> f, type |-> t] \in Requests
  BY DEF Requests

LEMMA TakenType ==
    ASSUME TypeOK, NEW s \in Sessions, NEW r \in Requests, NEW base \in Configs,
           Taken(s, r, base)
    PROVE  /\ op' \in [Sessions -> Requests]
           /\ config' \in [Sessions -> Configs]
           /\ pc' \in [Sessions -> States]
           /\ op'[s] = r
           /\ config'[s] \in Configs
           /\ config'[s] = [base EXCEPT ![r.symbol] = r.type]
           /\ pc'[s] = "opening"
           /\ \A q \in Sessions : q # s => op'[q] = op[q] /\ config'[q] = config[q]
                                           /\ pc'[q] = pc[q]
<1>1. [base EXCEPT ![r.symbol] = r.type] \in Configs
  BY ChangeType
<1>2. "opening" \in States
  BY DEF States
<1>3. op \in [Sessions -> Requests] /\ config \in [Sessions -> Configs]
  BY DEF TypeOK, Requests
<1>4. QED
  BY <1>1, <1>2, <1>3, GotoMoves DEF Taken

LEMMA EmptyType == Empty \in Configs /\ \A f \in Symbols : Empty[f] = NoEntry
  BY DEF Empty, Configs

-----------------------------------------------------------------------------
\* The initial state satisfies the invariant.
LEMMA InitInv == Init => IInv
<1> SUFFICES ASSUME Init PROVE IInv
  OBVIOUS
<1>1. TypeOK
  <2>1. op \in [Sessions -> [symbol : Symbols, type : Types \cup {NoEntry}]]
    BY DEF Init
  <2>2. probes \in [Sessions -> Configs] /\ config \in [Sessions -> Configs]
    BY EmptyType DEF Init
  <2>3. pc \in [Sessions -> States] /\ ops \in 0 .. MaxOps
    BY SharedConfigAssumption DEF Init, States
  <2>4. file \in Configs \cup {Blank} /\ entries \in Configs
    BY EmptyType DEF Init
  <2>5. asked \subseteq Symbols \X Types /\ trouble \in BOOLEAN
    BY DEF Init
  <2>6. QED
    BY <2>1, <2>2, <2>3, <2>4, <2>5 DEF TypeOK
<1>2. Content = Empty
  BY DEF Init, Content
<1>3. \A s \in Sessions : pc[s] = "away"
  BY DEF Init
<1>4. NothingLost
  BY <1>2, <1>3 DEF Init, NothingLost, AtOnce, Writing
<1>5. Asked /\ HonestWrites
  BY <1>2, <1>3, EmptyType DEF Init, Asked, HonestWrites, Sound
<1>6. QED
  BY <1>1, <1>4, <1>5 DEF IInv

\* Every step keeps the types.
LEMMA TypeStep == TypeOK /\ [Next]_vars => TypeOK'
<1> SUFFICES ASSUME TypeOK, [Next]_vars PROVE TypeOK'
  OBVIOUS
<1> USE DEF States
<1>1. ASSUME NEW s \in Sessions, NEW f \in Symbols, NEW t \in Types, set_uprobe(s, f, t)
      PROVE  TypeOK'
  <2>1. /\ op' \in [Sessions -> Requests]
        /\ config' \in [Sessions -> Configs]
        /\ pc' \in [Sessions -> States]
        /\ trouble' \in BOOLEAN
    BY <1>1, SetTakes, TakenType, RequestType, ContentType, EmptyType
  <2>2. ops' \in 0 .. MaxOps
    BY <1>1, SharedConfigAssumption DEF set_uprobe, Called, TypeOK
  <2>3. QED
    BY <1>1, <2>1, <2>2 DEF TypeOK, set_uprobe, Requests
<1>2. ASSUME NEW s \in Sessions, NEW f \in Symbols, PGUprobeDeleteFromSharedConfig(s, f)
      PROVE  /\ op' \in [Sessions -> Requests]
             /\ config' \in [Sessions -> Configs]
             /\ pc' \in [Sessions -> States]
             /\ trouble' \in BOOLEAN
  <2>1. CASE Taken(s, [symbol |-> f, type |-> NoEntry], Content)
    BY <1>2, <2>1, DeleteTakes, TakenType, RequestType, ContentType
  <2>2. CASE Goto(s, "idle") /\ UNCHANGED <<op, config>>
    BY <1>2, <2>2, DeleteTakes DEF TypeOK, Goto, Requests
  <2>3. QED
    BY <1>2, <2>1, <2>2, DeleteTakes
<1>3. ASSUME NEW s \in Sessions, NEW f \in Symbols, delete_uprobe(s, f)
      PROVE  TypeOK'
  <2>1. ops' \in 0 .. MaxOps
    BY <1>3, SharedConfigAssumption DEF delete_uprobe, Called, TypeOK
  <2>2. probes' \in [Sessions -> Configs]
    BY <1>3 DEF delete_uprobe, TypeOK, Configs
  <2>3. PGUprobeDeleteFromSharedConfig(s, f) /\ UNCHANGED <<file, entries, asked>>
    BY <1>3 DEF delete_uprobe
  <2>4. QED
    BY <1>2, <2>1, <2>2, <2>3 DEF TypeOK, Requests
<1>4. ASSUME NEW s \in Sessions, Undo(s)
      PROVE  TypeOK'
  <2>1. /\ PGUprobeDeleteFromSharedConfig(s, op[s].symbol)
        /\ UNCHANGED <<file, probes, entries, asked, ops>>
        /\ op[s].symbol \in Symbols
    BY <1>4 DEF Undo, TypeOK
  <2>2. QED
    BY <1>2, <2>1 DEF TypeOK, Requests
<1>5. ASSUME NEW s \in Sessions, OpenForWriting(s)
      PROVE  TypeOK'
  BY <1>5 DEF OpenForWriting, TypeOK, Goto
<1>6. ASSUME NEW s \in Sessions, CannotOpen(s) \/ CannotAdd(s)
      PROVE  TypeOK'
  BY <1>6 DEF CannotOpen, CannotAdd, TypeOK, Goto, history
<1>7. ASSUME NEW s \in Sessions, CloseWritten(s) \/ CannotWrite(s)
      PROVE  TypeOK'
  <2>1. PICK l \in States : Goto(s, l)
    BY <1>7 DEF CloseWritten, CannotWrite, AfterWriting
  <2>2. pc' \in [Sessions -> States]
    BY <2>1, GotoMoves
  <2>3. file' \in Configs \cup {Blank} /\ entries' \in Configs /\ trouble' \in BOOLEAN
    BY <1>7, ContentType DEF CloseWritten, CannotWrite, TypeOK, history
  <2>4. UNCHANGED <<probes, op, config, asked, ops>>
    BY <1>7 DEF CloseWritten, CannotWrite, history
  <2>5. QED
    BY <2>2, <2>3, <2>4 DEF TypeOK
<1>8. ASSUME NEW s \in Sessions, Connect(s) \/ Disconnect(s) \/ AddToList(s)
      PROVE  TypeOK'
  <2>1. PICK c \in Configs : probes' = [probes EXCEPT ![s] = c]
    <3>1. CASE Connect(s)
      BY <3>1, ContentType DEF Connect
    <3>2. CASE Disconnect(s)
      BY <3>2, EmptyType DEF Disconnect
    <3>3. CASE AddToList(s)
      <4>1. /\ [probes[s] EXCEPT ![op[s].symbol] = op[s].type] \in Configs
            /\ probes' = [probes EXCEPT ![s] = [probes[s] EXCEPT ![op[s].symbol] = op[s].type]]
        BY <3>3, ChangeType DEF AddToList, TypeOK, Requests
      <4>2. QED
        BY <4>1
    <3>4. QED
      BY <1>8, <3>1, <3>2, <3>3
  <2>2. probes' \in [Sessions -> Configs]
    BY <2>1 DEF TypeOK
  <2>3. PICK l \in States : Goto(s, l)
    BY <1>8 DEF Connect, Disconnect, AddToList
  <2>4. pc' \in [Sessions -> States]
    BY <2>3, GotoMoves
  <2>5. QED
    BY <1>8, <2>2, <2>4 DEF Connect, Disconnect, AddToList, TypeOK, history
<1>9. CASE Crash
  BY <1>9, ContentType, EmptyType DEF Crash, TypeOK
<1>10. CASE UNCHANGED vars
  BY <1>10 DEF vars, session, history, TypeOK
<1>11. QED
  BY <1>1, <1>3, <1>4, <1>5, <1>6, <1>7, <1>8, <1>9, <1>10 DEF Next

-----------------------------------------------------------------------------
\* A session that takes a request while nobody is at the file loses nothing.
LEMMA LossTaken ==
    ASSUME TypeOK, NothingLost, ~trouble, NEW s \in Sessions, NEW r \in Requests,
           Taken(s, r, Content), ~AtOnce(s), pc[s] # "writing", UNCHANGED <<file, entries>>
    PROVE  NothingLost'
<1>1. \A q \in Sessions : pc[q] # "writing"
  BY DEF AtOnce, Writing
<1>2. Content = entries
  BY <1>1 DEF NothingLost
<1>3. /\ pc'[s] = "opening" /\ op'[s] = r
      /\ config'[s] = [entries EXCEPT ![r.symbol] = r.type]
      /\ \A q \in Sessions : q # s => pc'[q] = pc[q]
  BY <1>2, TakenType, ContentType
<1>4. \A q \in Sessions : q # s => pc'[q] \notin {"opening", "writing"}
  BY <1>3 DEF AtOnce, Writing
<1>5. \A q \in Sessions : AtOnce(q)' => ~Writing(q)'
  BY <1>4 DEF AtOnce, Writing
<1>6. Content' = entries'
  BY <1>2 DEF Content
<1>7. QED
  BY <1>3, <1>4, <1>5, <1>6 DEF NothingLost

\* A session that turns away from the file loses nothing.
LEMMA LossQuiet ==
    ASSUME TypeOK, NothingLost, ~trouble, NEW s \in Sessions,
           NEW l \in States \ {"opening", "writing"}, Goto(s, l), pc[s] # "writing",
           UNCHANGED <<file, op, config, entries>>
    PROVE  NothingLost'
<1>1. /\ pc'[s] \notin {"opening", "writing"}
      /\ \A q \in Sessions : q # s => pc'[q] = pc[q]
  BY GotoMoves
<1>2. \A q \in Sessions : AtOnce(q)' => ~Writing(q)'
  BY <1>1 DEF NothingLost, AtOnce, Writing
<1>3. Content' = Content
  BY DEF Content
<1>4. (\A q \in Sessions : pc'[q] # "writing") => \A q \in Sessions : pc[q] # "writing"
  BY <1>1
<1>5. QED
  BY <1>1, <1>2, <1>3, <1>4 DEF NothingLost

\* Every step that is no trouble keeps NothingLost.
LEMMA LossStep == TypeOK /\ NothingLost /\ [Next]_vars => NothingLost'
<1> SUFFICES ASSUME TypeOK, NothingLost, [Next]_vars, ~trouble' PROVE NothingLost'
  BY DEF NothingLost
<1>1. ASSUME NEW s \in Sessions, NEW f \in Symbols, NEW t \in Types, set_uprobe(s, f, t)
      PROVE  NothingLost'
  <2>1. /\ Taken(s, [symbol |-> f, type |-> t], Content)
        /\ ~trouble /\ ~AtOnce(s)
    BY <1>1, SetTakes
  <2>2. pc[s] # "writing" /\ UNCHANGED <<file, entries>>
    BY <1>1 DEF set_uprobe
  <2>3. QED
    BY <2>1, <2>2, LossTaken, RequestType
<1>2. ASSUME NEW s \in Sessions, NEW f \in Symbols, PGUprobeDeleteFromSharedConfig(s, f),
             pc[s] # "writing", UNCHANGED <<file, entries>>
      PROVE  NothingLost'
  <2>1. ~trouble /\ ~AtOnce(s)
    BY <1>2, DeleteTakes
  <2>2. CASE Taken(s, [symbol |-> f, type |-> NoEntry], Content)
    BY <1>2, <2>1, <2>2, LossTaken, RequestType
  <2>3. CASE Goto(s, "idle") /\ UNCHANGED <<op, config>>
    BY <1>2, <2>1, <2>3, LossQuiet DEF States
  <2>4. QED
    BY <1>2, <2>2, <2>3, DeleteTakes
<1>3. ASSUME NEW s \in Sessions, NEW f \in Symbols, delete_uprobe(s, f)
      PROVE  NothingLost'
  BY <1>2, <1>3 DEF delete_uprobe
<1>4. ASSUME NEW s \in Sessions, Undo(s)
      PROVE  NothingLost'
  <2>1. op[s].symbol \in Symbols
    BY DEF TypeOK
  <2>2. QED
    BY <1>2, <1>4, <2>1 DEF Undo
<1>5. ASSUME NEW s \in Sessions, OpenForWriting(s)
      PROVE  NothingLost'
  <2>1. /\ pc'[s] = "writing" /\ \A q \in Sessions : q # s => pc'[q] = pc[q]
        /\ ~trouble /\ entries' = config[s] /\ config' = config
    BY <1>5, GotoMoves DEF OpenForWriting, States
  <2>2. \A q \in Sessions : q # s => pc'[q] \notin {"opening", "writing"}
    BY <1>5, <2>1 DEF OpenForWriting, NothingLost, AtOnce, Writing
  <2>3. \A q \in Sessions : AtOnce(q)' => ~Writing(q)'
    BY <2>2 DEF AtOnce, Writing
  <2>4. QED
    BY <2>1, <2>2, <2>3 DEF NothingLost
<1>6. ASSUME NEW s \in Sessions, CannotOpen(s) \/ CannotAdd(s)
      PROVE  NothingLost'
  BY <1>6, LossQuiet DEF CannotOpen, CannotAdd, history, States
<1>7. ASSUME NEW s \in Sessions, CloseWritten(s)
      PROVE  NothingLost'
  <2>1. /\ AfterWriting(s) \in States \ {"opening", "writing"}
        /\ Goto(s, AfterWriting(s))
        /\ pc[s] = "writing" /\ ~trouble
        /\ UNCHANGED <<op, config, entries>>
    BY <1>7 DEF CloseWritten, AfterWriting, States, history
  <2>2. /\ pc'[s] \notin {"opening", "writing"}
        /\ \A q \in Sessions : q # s => pc'[q] = pc[q]
    BY <2>1, GotoMoves
  <2>3. \A q \in Sessions : q # s => pc'[q] \notin {"opening", "writing"}
    BY <2>1, <2>2 DEF NothingLost, AtOnce, Writing
  <2>4. config[s] = entries /\ file' = entries
    BY <1>7, <2>1 DEF CloseWritten, NothingLost
  <2>5. Content' = entries'
    BY <2>1, <2>4, SharedConfigAssumption DEF Content, TypeOK, Configs
  <2>6. \A q \in Sessions : ~Writing(q)'
    BY <2>2, <2>3 DEF Writing
  <2>7. QED
    BY <2>5, <2>6 DEF NothingLost, Writing
<1>8. ASSUME NEW s \in Sessions, Connect(s) \/ Disconnect(s) \/ AddToList(s)
      PROVE  NothingLost'
  BY <1>8, LossQuiet DEF Connect, Disconnect, AddToList, history, States
<1>9. CASE Crash
  <2>1. \A q \in Sessions : pc[q] # "writing" /\ pc'[q] = "away"
    BY <1>9 DEF Crash
  <2>2. ~trouble /\ UNCHANGED <<file, entries>>
    BY <1>9, <2>1 DEF Crash
  <2>3. Content' = entries'
    BY <2>1, <2>2 DEF NothingLost, Content
  <2>4. QED
    BY <2>1, <2>3 DEF NothingLost, AtOnce, Writing
<1>10. CASE UNCHANGED vars
  BY <1>10 DEF vars, session, history, NothingLost, AtOnce, Writing, Content
<1>11. ASSUME NEW s \in Sessions, CannotWrite(s)
       PROVE  NothingLost'
  BY <1>11 DEF CannotWrite
<1>12. QED
  BY <1>1, <1>3, <1>4, <1>5, <1>6, <1>7, <1>8, <1>9, <1>10, <1>11 DEF Next

-----------------------------------------------------------------------------
\* What was asked for stays asked for.
LEMMA AskedGrows == [Next]_vars => asked \subseteq asked'
<1> SUFFICES ASSUME [Next]_vars PROVE asked \subseteq asked'
  OBVIOUS
<1>1. CASE \E s \in Sessions, f \in Symbols :
              delete_uprobe(s, f) \/ \E t \in Types : set_uprobe(s, f, t)
  BY <1>1 DEF delete_uprobe, set_uprobe
<1>2. CASE \E s \in Sessions :
              \/ Connect(s) \/ Disconnect(s)
              \/ OpenForWriting(s) \/ CannotOpen(s) \/ CloseWritten(s) \/ CannotWrite(s)
              \/ AddToList(s) \/ CannotAdd(s) \/ Undo(s)
  BY <1>2 DEF Connect, Disconnect, OpenForWriting, CannotOpen, CloseWritten, CannotWrite,
              AddToList, CannotAdd, Undo, history
<1>3. CASE Crash
  BY <1>3 DEF Crash
<1>4. CASE UNCHANGED vars
  BY <1>4 DEF vars, history
<1>5. QED
  BY <1>1, <1>2, <1>3, <1>4 DEF Next

\* An empty config and one that a session may read are sound.
LEMMA SoundRead == Asked => Sound(Content) /\ Sound(Empty)
  BY EmptyType DEF Asked, Sound

\* A session that takes a request will write what was asked for and its request.
LEMMA AskedTaken ==
    ASSUME TypeOK, Asked, HonestWrites, NEW s \in Sessions, NEW r \in Requests,
           NEW base \in Configs, Taken(s, r, base), Sound(base),
           UNCHANGED <<file, entries, asked>>,
           \A q \in Sessions : Sound(probes'[q])
    PROVE  Asked' /\ HonestWrites'
<1>1. /\ pc'[s] = "opening" /\ op'[s] = r
      /\ \A f \in Symbols : config'[s][f] = IF f = r.symbol THEN r.type ELSE base[f]
      /\ \A q \in Sessions : q # s => op'[q] = op[q] /\ config'[q] = config[q]
                                      /\ pc'[q] = pc[q]
  <2>1. \A f \in Symbols : [base EXCEPT ![r.symbol] = r.type][f]
                              = IF f = r.symbol THEN r.type ELSE base[f]
    BY ChangeType
  <2>2. /\ pc'[s] = "opening" /\ op'[s] = r
        /\ config'[s] = [base EXCEPT ![r.symbol] = r.type]
        /\ \A q \in Sessions : q # s => op'[q] = op[q] /\ config'[q] = config[q]
                                        /\ pc'[q] = pc[q]
    BY TakenType
  <2>3. QED
    BY <2>1, <2>2
<1>2. Content' = Content
  BY DEF Content
<1>3. Asked'
  BY <1>1, <1>2 DEF Asked, Sound
<1>4. ASSUME NEW q \in Sessions, pc'[q] = "opening", NEW f \in Symbols
      PROVE  \/ config'[q][f] = NoEntry \/ <<f, config'[q][f]>> \in asked'
             \/ f = op'[q].symbol /\ config'[q][f] = op'[q].type
  <2>1. CASE q = s
    BY <1>1, <2>1 DEF Sound
  <2>2. CASE q # s
    BY <1>1, <1>4, <2>2 DEF HonestWrites
  <2>3. QED
    BY <2>1, <2>2
<1>5. \A q \in Sessions : pc'[q] \in {"writing", "adding"} /\ op'[q].type # NoEntry =>
          <<op'[q].symbol, op'[q].type>> \in asked'
  BY <1>1 DEF HonestWrites
<1>6. Sound(entries)'
  BY DEF HonestWrites, Sound
<1>7. QED
  BY <1>3, <1>4, <1>5, <1>6 DEF HonestWrites

\* A session that turns away from the file, or is done with it, adds nothing.
LEMMA AskedQuiet ==
    ASSUME TypeOK, Asked, HonestWrites, NEW s \in Sessions,
           NEW l \in States \ {"opening", "writing"}, Goto(s, l),
           l = "adding" => pc[s] = "writing",
           UNCHANGED <<op, config, asked>>,
           entries' \in {entries, Content}, Sound(Content'),
           \A q \in Sessions : Sound(probes'[q])
    PROVE  Asked' /\ HonestWrites'
<1>1. pc'[s] = l /\ \A q \in Sessions : q # s => pc'[q] = pc[q]
  BY GotoMoves
<1>2. Asked'
  BY <1>1 DEF Asked, Sound
<1>3. Sound(entries)'
  BY SoundRead DEF HonestWrites, Sound
<1>4. \A q \in Sessions : pc'[q] = "opening" => pc[q] = "opening"
  BY <1>1
<1>5. \A q \in Sessions : pc'[q] \in {"writing", "adding"} => pc[q] \in {"writing", "adding"}
  BY <1>1
<1>6. QED
  BY <1>2, <1>3, <1>4, <1>5 DEF HonestWrites, Sound

\* Every step keeps what was asked for apart from what was not.
LEMMA AskedStep == TypeOK /\ Asked /\ HonestWrites /\ [Next]_vars => Asked' /\ HonestWrites'
<1> SUFFICES ASSUME TypeOK, Asked, HonestWrites, [Next]_vars PROVE Asked' /\ HonestWrites'
  OBVIOUS
<1>0. \A q \in Sessions : Sound(probes[q])
  BY DEF Asked, Sound
<1>1. ASSUME NEW s \in Sessions, NEW f \in Symbols, NEW t \in Types, set_uprobe(s, f, t)
      PROVE  Asked' /\ HonestWrites'
  <2>1. PICK base \in {Content, Empty} : Taken(s, [symbol |-> f, type |-> t], base)
    BY <1>1, SetTakes
  <2>2. base \in Configs /\ Sound(base)
    BY ContentType, EmptyType, SoundRead
  <2>3. UNCHANGED <<file, entries, asked>> /\ \A q \in Sessions : Sound(probes'[q])
    BY <1>0, <1>1 DEF set_uprobe
  <2>4. QED
    BY <2>1, <2>2, <2>3, AskedTaken, RequestType
<1>2. ASSUME NEW s \in Sessions, NEW f \in Symbols, PGUprobeDeleteFromSharedConfig(s, f),
             UNCHANGED <<file, entries, asked>>, \A q \in Sessions : Sound(probes'[q])
      PROVE  Asked' /\ HonestWrites'
  <2>1. CASE Taken(s, [symbol |-> f, type |-> NoEntry], Content)
    BY <1>2, <2>1, AskedTaken, ContentType, SoundRead, RequestType
  <2>2. CASE Goto(s, "idle") /\ UNCHANGED <<op, config>>
    <3>1. Sound(Content')
      BY <1>2, SoundRead DEF Content
    <3>2. QED
      BY <1>2, <2>2, <3>1, AskedQuiet DEF States
  <2>3. QED
    BY <1>2, <2>1, <2>2, DeleteTakes
<1>3. ASSUME NEW s \in Sessions, NEW f \in Symbols, delete_uprobe(s, f)
      PROVE  Asked' /\ HonestWrites'
  <2>1. /\ PGUprobeDeleteFromSharedConfig(s, f)
        /\ UNCHANGED <<file, entries, asked>>
        /\ probes' = [probes EXCEPT ![s][f] = NoEntry]
    BY <1>3 DEF delete_uprobe
  <2>2. \A q \in Sessions : Sound(probes'[q])
    BY <1>0, <2>1 DEF Sound, TypeOK, Configs
  <2>3. QED
    BY <1>2, <2>1, <2>2
<1>4. ASSUME NEW s \in Sessions, Undo(s)
      PROVE  Asked' /\ HonestWrites'
  <2>1. /\ PGUprobeDeleteFromSharedConfig(s, op[s].symbol)
        /\ UNCHANGED <<file, entries, asked, probes>>
        /\ op[s].symbol \in Symbols
    BY <1>4 DEF Undo, TypeOK
  <2>2. QED
    BY <1>0, <1>2, <2>1
<1>5. ASSUME NEW s \in Sessions, OpenForWriting(s)
      PROVE  Asked' /\ HonestWrites'
  <2>1. /\ pc'[s] = "writing" /\ \A q \in Sessions : q # s => pc'[q] = pc[q]
        /\ pc[s] = "opening"
        /\ UNCHANGED <<probes, op, config>> /\ entries' = config[s] /\ file' = Blank
    BY <1>5, GotoMoves DEF OpenForWriting, States
  <2>2. /\ asked \subseteq asked'
        /\ op[s].type # NoEntry => <<op[s].symbol, op[s].type>> \in asked'
    BY <1>5 DEF OpenForWriting
  <2>3. \A f \in Symbols : config[s][f] = NoEntry \/ <<f, config[s][f]>> \in asked'
    BY <2>1, <2>2 DEF HonestWrites
  <2>4. Content' = Empty
    BY <2>1 DEF Content, Empty
  <2>5. Asked'
    BY <2>1, <2>2, <2>3, <2>4, EmptyType DEF Asked
  <2>6. Sound(entries)'
    BY <2>1, <2>3 DEF Sound
  <2>7. \A q \in Sessions : pc'[q] = "opening" => pc[q] = "opening"
    BY <2>1
  <2>8. \A q \in Sessions : pc'[q] \in {"writing", "adding"} /\ op'[q].type # NoEntry =>
            <<op'[q].symbol, op'[q].type>> \in asked'
    BY <2>1, <2>2 DEF HonestWrites
  <2>9. \A q \in Sessions : pc'[q] = "opening" =>
            \A f \in Symbols :
               \/ config'[q][f] = NoEntry \/ <<f, config'[q][f]>> \in asked'
               \/ f = op'[q].symbol /\ config'[q][f] = op'[q].type
    BY <2>1, <2>2, <2>7 DEF HonestWrites
  <2>10. QED
    BY <2>5, <2>6, <2>8, <2>9 DEF HonestWrites
<1>6. ASSUME NEW s \in Sessions, CannotOpen(s) \/ CannotAdd(s)
      PROVE  Asked' /\ HonestWrites'
  <2>1. UNCHANGED <<file, probes, op, config, asked, entries>>
    BY <1>6 DEF CannotOpen, CannotAdd, history
  <2>2. PICK l \in {"idle", "undoing"} : Goto(s, l)
    BY <1>6 DEF CannotOpen, CannotAdd
  <2>3. Sound(Content') /\ \A q \in Sessions : Sound(probes'[q])
    BY <1>0, <2>1, SoundRead DEF Content
  <2>4. QED
    BY <2>1, <2>2, <2>3, AskedQuiet DEF States
<1>7. ASSUME NEW s \in Sessions, CloseWritten(s) \/ CannotWrite(s)
      PROVE  Asked' /\ HonestWrites'
  <2>1. /\ pc[s] = "writing"
        /\ UNCHANGED <<probes, op, config, asked>>
        /\ file' \in {file, config[s]} /\ entries' \in {entries, Content}
    BY <1>7 DEF CloseWritten, CannotWrite, history
  <2>2. PICK l \in {"idle", "adding"} : Goto(s, l)
    BY <1>7 DEF CloseWritten, CannotWrite, AfterWriting
  <2>3. Sound(config[s])
    BY <2>1 DEF Asked, Sound
  <2>4. Content' \in {Content, Empty, config[s]}
    BY <2>1 DEF Content, Empty
  <2>5. Sound(Content') /\ \A q \in Sessions : Sound(probes'[q])
    BY <1>0, <2>1, <2>3, <2>4, SoundRead
  <2>6. QED
    BY <2>1, <2>2, <2>5, AskedQuiet DEF States
<1>8. ASSUME NEW s \in Sessions, Connect(s) \/ Disconnect(s) \/ AddToList(s)
      PROVE  Asked' /\ HonestWrites'
  <2>1. UNCHANGED <<file, op, config, asked, entries>>
    BY <1>8 DEF Connect, Disconnect, AddToList, history
  <2>2. Goto(s, "idle") \/ Goto(s, "away")
    BY <1>8 DEF Connect, Disconnect, AddToList
  <2>3. Sound(Content')
    BY <2>1, SoundRead DEF Content
  <2>4. PICK c \in Configs : probes' = [probes EXCEPT ![s] = c] /\ Sound(c)
    <3>1. CASE Connect(s)
      BY <3>1, ContentType, SoundRead DEF Connect
    <3>2. CASE Disconnect(s)
      BY <3>2, EmptyType, SoundRead DEF Disconnect
    <3>3. CASE AddToList(s)
      <4> DEFINE c == [probes[s] EXCEPT ![op[s].symbol] = op[s].type]
      <4>1. /\ c \in Configs
            /\ \A f \in Symbols : c[f] = IF f = op[s].symbol THEN op[s].type ELSE probes[s][f]
        BY <3>3, ChangeType DEF AddToList, TypeOK, Requests
      <4>2. op[s].type = NoEntry \/ <<op[s].symbol, op[s].type>> \in asked
        BY <3>3 DEF AddToList, HonestWrites
      <4>3. Sound(c)
        BY <1>0, <4>1, <4>2 DEF Sound
      <4>4. probes' = [probes EXCEPT ![s] = c]
        BY <3>3 DEF AddToList
      <4>5. QED
        BY <4>1, <4>3, <4>4
    <3>4. QED
      BY <1>8, <3>1, <3>2, <3>3
  <2>5. \A q \in Sessions : Sound(probes'[q])
    BY <1>0, <2>4 DEF TypeOK
  <2>6. QED
    BY <2>1, <2>2, <2>3, <2>5, AskedQuiet DEF States
<1>9. CASE Crash
  <2>1. \A q \in Sessions : pc'[q] = "away" /\ probes'[q] = Empty
    BY <1>9 DEF Crash
  <2>2. UNCHANGED <<file, asked>> /\ entries' \in {entries, Content}
    BY <1>9 DEF Crash
  <2>3. Content' = Content
    BY <2>2 DEF Content
  <2>4. QED
    BY <2>1, <2>2, <2>3, SoundRead, EmptyType DEF Asked, HonestWrites, Sound
<1>10. CASE UNCHANGED vars
  BY <1>10 DEF vars, session, history, Asked, HonestWrites, Sound, Content
<1>11. QED
  BY <1>1, <1>3, <1>4, <1>5, <1>6, <1>7, <1>8, <1>9, <1>10 DEF Next

-----------------------------------------------------------------------------
\* The invariant the theorems below follow from.
THEOREM Invariance == Spec => []IInv
<1>1. Init => IInv
  BY InitInv
<1>2. IInv /\ [Next]_vars => IInv'
  BY TypeStep, LossStep, AskedStep DEF IInv
<1>3. QED
  BY <1>1, <1>2, PTL DEF Spec

\* Every reachable state of the file and the sessions is well typed.
THEOREM TypeCorrect == Spec => []TypeOK
<1>1. IInv => TypeOK
  BY DEF IInv
<1>2. QED
  BY <1>1, Invariance, PTL

\* As long as changes do not overlap and no write fails, the file that
\* set_uprobe and delete_uprobe rewrite holds every change that was made.
THEOREM NoEntryLost == Spec => []NothingLost
<1>1. IInv => NothingLost
  BY DEF IInv
<1>2. QED
  BY <1>1, Invariance, PTL

\* Whatever overlaps, fails or crashes: no session finds or sets a probe that
\* set_uprobe was not called for.
THEOREM NoEntryInvented == Spec => []Asked
<1>1. IInv => Asked
  BY DEF IInv
<1>2. QED
  BY <1>1, Invariance, PTL

\* A step in trouble is one of ConfigMap's.
LEMMA DisturbedStep ==
    ASSUME TypeOK', HonestWrites', [Next]_vars, trouble'
    PROVE  Map!Disturb
  BY AskedGrows DEF TypeOK, HonestWrites, Sound, Map!Disturb, Configs

\* A step out of trouble changes one entry or none.
LEMMA SimulatedStep ==
    ASSUME IInv, IInv', [Next]_vars
    PROVE  [Map!Next]_<<entries, asked, trouble>>
<1>1. CASE trouble'
  BY <1>1, DisturbedStep DEF IInv, Map!Next
<1>2. ASSUME ~trouble', NEW s \in Sessions, OpenForWriting(s)
      PROVE  Map!Next
  <2>1. /\ entries' = [entries EXCEPT ![op[s].symbol] = op[s].type]
        /\ ~trouble
    BY <1>2 DEF IInv, NothingLost, OpenForWriting
  <2>2. op[s].symbol \in Symbols /\ op[s].type \in Types \cup {NoEntry}
    BY DEF IInv, TypeOK
  <2>3. CASE op[s].type = NoEntry
    <3>1. Map!Delete(op[s].symbol)
      BY <1>2, <2>1, <2>3 DEF OpenForWriting, Map!Delete
    <3>2. QED
      BY <2>2, <3>1 DEF Map!Next
  <2>4. CASE op[s].type # NoEntry
    <3>1. Map!Set(op[s].symbol, op[s].type)
      BY <1>2, <2>1, <2>4 DEF OpenForWriting, Map!Set
    <3>2. QED
      BY <2>2, <2>4, <3>1 DEF Map!Next
  <2>5. QED
    BY <2>3, <2>4
<1>3. ASSUME ~trouble', ~\E s \in Sessions : OpenForWriting(s)
      PROVE  UNCHANGED <<entries, asked, trouble>>
  <2>0. trouble \in BOOLEAN /\ trouble' \in BOOLEAN
    BY DEF IInv, TypeOK
  <2>1. ASSUME NEW s \in Sessions, NEW f \in Symbols, NEW t \in Types, set_uprobe(s, f, t)
        PROVE  UNCHANGED <<entries, asked, trouble>>
    <3>1. UNCHANGED <<entries, asked>>
      BY <2>1 DEF set_uprobe
    <3>2. ~trouble
      BY <1>3, <2>1, SetTakes DEF IInv
    <3>3. QED
      BY <1>3, <2>0, <3>1, <3>2
  <2>2. ASSUME NEW s \in Sessions, NEW f, PGUprobeDeleteFromSharedConfig(s, f)
        PROVE  UNCHANGED trouble
    BY <1>3, <2>0, <2>2, DeleteTakes
  <2>3. ASSUME NEW s \in Sessions, NEW f \in Symbols, delete_uprobe(s, f)
        PROVE  UNCHANGED <<entries, asked, trouble>>
    BY <2>2, <2>3 DEF delete_uprobe
  <2>4. ASSUME NEW s \in Sessions, Undo(s)
        PROVE  UNCHANGED <<entries, asked, trouble>>
    BY <2>2, <2>4 DEF Undo
  <2>5. ASSUME NEW s \in Sessions,
               \/ Connect(s) \/ Disconnect(s) \/ CannotOpen(s) \/ CloseWritten(s)
               \/ AddToList(s) \/ CannotAdd(s)
        PROVE  UNCHANGED <<entries, asked, trouble>>
    BY <2>5 DEF Connect, Disconnect, CannotOpen, CloseWritten, AddToList, CannotAdd, history
  <2>6. ASSUME NEW s \in Sessions, CannotWrite(s)
        PROVE  UNCHANGED <<entries, asked, trouble>>
    BY <1>3, <2>6 DEF CannotWrite
  <2>7. CASE Crash
    BY <1>3, <2>7 DEF Crash
  <2>8. CASE UNCHANGED vars
    BY <2>8 DEF vars, history
  <2>9. QED
    BY <1>3, <2>1, <2>3, <2>4, <2>5, <2>6, <2>7, <2>8 DEF Next
<1>4. QED
  BY <1>1, <1>2, <1>3

\* The rewritten file implements a map that is changed one entry at a time, until
\* the first overlap or failed write.
THEOREM Refinement == Spec => IsMap
<1>1. Init => Map!Init
  BY DEF Init, Map!Init, Empty
<1>2. IInv /\ IInv' /\ [Next]_vars => [Map!Next]_<<entries, asked, trouble>>
  BY SimulatedStep
<1>3. QED
  BY <1>1, <1>2, Invariance, PTL DEF Spec, IsMap, Map!Spec
================================================================================
