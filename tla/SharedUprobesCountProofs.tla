----------------------- MODULE SharedUprobesCountProofs -----------------------
(***************************************************************************)
(* Proof that no call a shared probe counted is lost from the books or     *)
(* counted twice: Conservation, for any sessions, functions and types, any *)
(* number of calls, and with everything that can fail.                     *)
(***************************************************************************)
EXTENDS SharedUprobesProofs

-----------------------------------------------------------------------------
\* What messages tr hold of the data of b for s, when c is the current symbol.

\* The name in force at a message other than a name: that of the message before.
NameAt(tr, c, i) == IF i = 1 THEN c ELSE tr[i - 1].symbol

Share(tr, c, b, s) ==
    [i \in DOMAIN tr |-> IF tr[i].type = "CUSTOM" /\ tr[i].from = b /\ NameAt(tr, c, i) = s
                         THEN tr[i].n ELSE 0]

Amount(tr, c, b, s) == SumOver(Share(tr, c, b, s), DOMAIN tr)

\* Amounts are natural numbers.
LEMMA AmountType ==
    ASSUME NEW tr \in Seq(Message), NEW c, NEW b, NEW s
    PROVE  /\ IsFiniteSet(DOMAIN tr)
           /\ \A i \in DOMAIN tr : Share(tr, c, b, s)[i] \in Nat
           /\ Amount(tr, c, b, s) \in Nat
<1> DEFINE F == Share(tr, c, b, s)
<1>1. DOMAIN tr = 1 .. Len(tr) /\ Len(tr) \in Nat
  OBVIOUS
<1>2. IsFiniteSet(DOMAIN tr)
  BY <1>1, FS_Interval
<1>3. ASSUME NEW i \in DOMAIN tr PROVE F[i] \in Nat
  <2>1. tr[i] \in Message
    OBVIOUS
  <2>2. tr[i].type = "CUSTOM" => tr[i].n \in Nat
    BY <2>1, MessageTypes
  <2>3. QED
    BY <2>2 DEF Share
<1> HIDE DEF F
<1>4. SumOver(F, DOMAIN tr) \in Nat
  BY <1>2, <1>3, SumType
<1>5. QED
  BY <1>2, <1>3, <1>4 DEF Amount, F

\* The first message has its own name; the others do not need the current symbol.
LEMMA AmountOfTail ==
    ASSUME NEW tr \in Seq(Message), tr # <<>>, NEW c, NEW b, NEW s
    PROVE  Amount(tr, c, b, s) =
              (IF tr[1].type = "CUSTOM" /\ tr[1].from = b /\ c = s THEN tr[1].n ELSE 0)
                 + Amount(Tail(tr), tr[1].symbol, b, s)
<1> DEFINE t == Tail(tr)
           n == Len(tr)
           F == Share(tr, c, b, s)
           G == Share(t, tr[1].symbol, b, s)
           p == [x \in DOMAIN t |-> x + 1]
<1>1. /\ n \in Nat \ {0} /\ DOMAIN tr = 1 .. n /\ t \in Seq(Message)
      /\ DOMAIN t = 1 .. n - 1
      /\ \A i \in 1 .. n - 1 : t[i] = tr[i + 1] /\ i + 1 \in DOMAIN tr
      /\ 1 \in DOMAIN tr
  BY OneTaken
<1> HIDE DEF t, n
<1>2. /\ IsFiniteSet(DOMAIN tr) /\ IsFiniteSet(DOMAIN t)
      /\ \A i \in DOMAIN tr : F[i] \in Int
      /\ \A i \in DOMAIN t : G[i] \in Int
  BY <1>1, AmountType
<1>3. ASSUME NEW x \in DOMAIN t PROVE G[x] = F[p[x]]
  <2>1. x \in 1 .. n - 1 /\ x + 1 \in DOMAIN tr /\ t[x] = tr[x + 1] /\ x + 1 # 1 /\ (x + 1) - 1 = x
    BY <1>1
  <2>2. NameAt(t, tr[1].symbol, x) = tr[x].symbol
    <3>1. CASE x = 1
      BY <3>1 DEF NameAt
    <3>2. CASE x # 1
      <4>1. x - 1 \in 1 .. n - 1 /\ (x - 1) + 1 = x
        BY <1>1, <2>1, <3>2
      <4>2. t[x - 1] = tr[(x - 1) + 1]
        BY <1>1, <4>1
      <4>3. QED
        BY <3>2, <4>1, <4>2 DEF NameAt
    <3>3. QED
      BY <3>1, <3>2
  <2>3. NameAt(tr, c, x + 1) = tr[x].symbol
    BY <2>1 DEF NameAt
  <2>4. p[x] = x + 1
    OBVIOUS
  <2>5. QED
    BY <2>1, <2>2, <2>3, <2>4 DEF Share
<1>4. \A x, y \in DOMAIN t : p[x] = p[y] => x = y
  BY <1>1
<1>5. {p[x] : x \in DOMAIN t} = DOMAIN tr \ {1}
  <2>1. ASSUME NEW x \in DOMAIN t PROVE p[x] \in DOMAIN tr \ {1}
    BY <1>1
  <2>2. ASSUME NEW y \in DOMAIN tr \ {1} PROVE \E x \in DOMAIN t : p[x] = y
    <3>1. y - 1 \in DOMAIN t /\ (y - 1) + 1 = y
      BY <1>1
    <3>2. QED
      BY <3>1
  <2>3. QED
    BY <2>1, <2>2
<1>6. F[1] = IF tr[1].type = "CUSTOM" /\ tr[1].from = b /\ c = s THEN tr[1].n ELSE 0
  BY <1>1 DEF Share, NameAt
<1> HIDE DEF F, G, p
<1>7. SumOver(F, {p[x] : x \in DOMAIN t}) = SumOver(G, DOMAIN t)
  <2>1. PICK S : S = DOMAIN t
    OBVIOUS
  <2>2. IsFiniteSet(S) /\ \A x \in S : G[x] = F[p[x]] /\ G[x] \in Int
    BY <1>2, <1>3, <2>1
  <2>3. \A x, y \in S : p[x] = p[y] => x = y
    BY <1>4, <2>1
  <2>4. SumOver(F, {p[x] : x \in S}) = SumOver(G, S)
    BY <2>2, <2>3, SumRenamed
  <2>5. QED
    BY <2>1, <2>4
<1>8. SumOver(F, DOMAIN tr) = F[1] + SumOver(F, DOMAIN tr \ {1})
  <2>1. PICK S : S = DOMAIN tr
    OBVIOUS
  <2>2. IsFiniteSet(S) /\ 1 \in S /\ \A x \in S : F[x] \in Int
    BY <1>1, <1>2, <2>1
  <2>3. SumOver(F, S) = F[1] + SumOver(F, S \ {1})
    BY <2>2, SumRemove
  <2>4. QED
    BY <2>1, <2>3
<1>9. QED
  BY <1>5, <1>6, <1>7, <1>8 DEF Amount, F, G, t

\* Messages that start with a name do not need the current symbol.
LEMMA AmountNamed ==
    ASSUME NEW tr \in Seq(Message), StartsNamed(tr), NEW c, NEW d, NEW b, NEW s
    PROVE  Amount(tr, c, b, s) = Amount(tr, d, b, s)
<1>1. CASE tr = <<>>
  <2>1. DOMAIN tr = {}
    BY <1>1
  <2>2. QED
    BY <2>1, SumEmpty DEF Amount
<1>2. CASE tr # <<>>
  <2>1. tr[1].type # "CUSTOM"
    BY <1>2, OneTaken DEF StartsNamed
  <2>2. QED
    BY <1>2, <2>1, AmountOfTail
<1>3. QED
  BY <1>1, <1>2

\* What a put adds.
LEMMA AmountAppended ==
    ASSUME NEW tr \in Seq(Message), NEW a \in Symbols, NEW m \in Message,
           NEW c, NEW b, NEW s
    PROVE  Amount(tr \o << [type |-> "SYMBOL", symbol |-> a], m >>, c, b, s) =
              Amount(tr, c, b, s)
                + (IF m.type = "CUSTOM" /\ m.from = b /\ a = s THEN m.n ELSE 0)
<1> DEFINE y   == [type |-> "SYMBOL", symbol |-> a]
           now == tr \o <<y, m>>
           n   == Len(tr)
           F   == Share(tr, c, b, s)
           G   == Share(now, c, b, s)
<1>1. y \in Message /\ y.type = "SYMBOL" /\ y.symbol = a
  BY MadeMessages
<1> HIDE DEF y
<1>2. /\ n \in Nat /\ DOMAIN tr = 1 .. n
      /\ now \in Seq(Message)
      /\ DOMAIN now = (1 .. n) \cup {n + 1, n + 2}
      /\ \A i \in 1 .. n : now[i] = tr[i]
      /\ now[n + 1] = y
      /\ now[n + 2] = m
  BY <1>1, TwoAppended
<1> HIDE DEF n, now
<1>3. /\ IsFiniteSet(DOMAIN tr)
      /\ \A i \in DOMAIN tr : F[i] \in Int
      /\ \A i \in DOMAIN now : G[i] \in Int
  BY <1>2, AmountType
<1>4. ASSUME NEW i \in 1 .. n PROVE F[i] = G[i]
  <2>1. NameAt(tr, c, i) = NameAt(now, c, i)
    <3>1. CASE i = 1
      BY <3>1 DEF NameAt
    <3>2. CASE i # 1
      <4>1. i - 1 \in 1 .. n
        BY <1>2, <3>2
      <4>2. QED
        BY <1>2, <3>2, <4>1 DEF NameAt
    <3>3. QED
      BY <3>1, <3>2
  <2>2. QED
    BY <1>2, <2>1 DEF Share
<1>5. G[n + 1] = 0
  BY <1>1, <1>2 DEF Share
<1>6. G[n + 2] = IF m.type = "CUSTOM" /\ m.from = b /\ a = s THEN m.n ELSE 0
  <2>1. n + 2 # 1 /\ (n + 2) - 1 = n + 1
    BY <1>2
  <2>2. NameAt(now, c, n + 2) = a
    BY <1>1, <1>2, <2>1 DEF NameAt
  <2>3. QED
    BY <1>2, <2>2 DEF Share
<1> HIDE DEF F, G
<1>7. SumOver(G, 1 .. n) = SumOver(F, 1 .. n) /\ SumOver(F, 1 .. n) \in Int
  BY <1>2, <1>3, <1>4, SumSame, SumType
<1>8. SumOver(G, (1 .. n) \cup {n + 1}) = G[n + 1] + SumOver(G, 1 .. n)
  <2>1. n + 1 \notin 1 .. n /\ \A i \in (1 .. n) \cup {n + 1} : G[i] \in Int
    BY <1>2, <1>3
  <2>2. QED
    BY <1>2, <1>3, <2>1, SumAdd
<1>9. SumOver(G, ((1 .. n) \cup {n + 1}) \cup {n + 2}) = G[n + 2] + SumOver(G, (1 .. n) \cup {n + 1})
  <2>1. /\ n + 2 \notin (1 .. n) \cup {n + 1}
        /\ \A i \in ((1 .. n) \cup {n + 1}) \cup {n + 2} : G[i] \in Int
    BY <1>2, <1>3
  <2>2. IsFiniteSet((1 .. n) \cup {n + 1})
    BY <1>2, <1>3, FS_AddElement
  <2>3. QED
    BY <2>1, <2>2, SumAdd
<1>10. DOMAIN now = ((1 .. n) \cup {n + 1}) \cup {n + 2}
  BY <1>2
<1>11. SumOver(G, DOMAIN now) = G[n + 2] + SumOver(F, DOMAIN tr)
  <2>1. n + 2 \in DOMAIN now /\ DOMAIN tr = 1 .. n
    BY <1>2
  <2>2. G[n + 2] \in Int
    BY <1>3, <2>1
  <2>3. SumOver(G, DOMAIN now) = G[n + 2] + (0 + SumOver(F, 1 .. n))
    BY <1>5, <1>7, <1>8, <1>9, <1>10
  <2>4. QED
    BY <1>7, <2>1, <2>2, <2>3
<1>12. SumOver(F, DOMAIN tr) \in Int /\ G[n + 2] \in Int
  BY <1>2, <1>3, <1>7
<1>13. QED
  BY <1>6, <1>11, <1>12 DEF Amount, F, G, now, y

\* What is lost with the batch.
LEMMA AmountJoined ==
    ASSUME NEW p \in Seq(Message), NEW q \in Seq(Message), StartsNamed(q),
           NEW c, NEW d, NEW b, NEW s
    PROVE  Amount(p \o q, c, b, s) = Amount(p, c, b, s) + Amount(q, d, b, s)
<1> DEFINE tr == p \o q
           m  == Len(p)
           n  == Len(q)
           F  == Share(tr, c, b, s)
           G  == Share(p, c, b, s)
           H  == Share(q, d, b, s)
           r  == [x \in 1 .. n |-> m + x]
<1>1. /\ m \in Nat /\ n \in Nat
      /\ DOMAIN p = 1 .. m /\ DOMAIN q = 1 .. n
      /\ tr \in Seq(Message)
      /\ DOMAIN tr = 1 .. m + n
      /\ \A i \in 1 .. m : tr[i] = p[i]
      /\ \A i \in 1 .. n : tr[m + i] = q[i]
  BY Joined
<1>2. q # <<>> => q[1].type = "SYMBOL"
  BY OneTaken DEF StartsNamed
<1> HIDE DEF m, n, tr
<1>3. /\ IsFiniteSet(DOMAIN tr) /\ IsFiniteSet(DOMAIN p) /\ IsFiniteSet(DOMAIN q)
      /\ \A i \in DOMAIN tr : F[i] \in Int
      /\ \A i \in DOMAIN p : G[i] \in Int
      /\ \A i \in DOMAIN q : H[i] \in Int
  <2>1. IsFiniteSet(DOMAIN tr) /\ \A i \in DOMAIN tr : F[i] \in Nat
    BY <1>1, AmountType
  <2>2. IsFiniteSet(DOMAIN p) /\ \A i \in DOMAIN p : G[i] \in Nat
    BY AmountType
  <2>3. IsFiniteSet(DOMAIN q) /\ \A i \in DOMAIN q : H[i] \in Nat
    BY AmountType
  <2> HIDE DEF F, G, H
  <2>4. QED
    BY <2>1, <2>2, <2>3
<1>4. ASSUME NEW i \in 1 .. m PROVE G[i] = F[i]
  <2>1. i \in DOMAIN tr /\ i \in DOMAIN p /\ tr[i] = p[i]
    BY <1>1
  <2>2. NameAt(p, c, i) = NameAt(tr, c, i)
    <3>1. CASE i = 1
      BY <3>1 DEF NameAt
    <3>2. CASE i # 1
      <4>1. i - 1 \in 1 .. m
        BY <1>1, <3>2
      <4>2. QED
        BY <1>1, <3>2, <4>1 DEF NameAt
    <3>3. QED
      BY <3>1, <3>2
  <2>3. QED
    BY <2>1, <2>2 DEF Share
<1>5. ASSUME NEW i \in 1 .. n PROVE H[i] = F[r[i]]
  <2>1. i \in DOMAIN q /\ m + i \in DOMAIN tr /\ tr[m + i] = q[i] /\ r[i] = m + i
    BY <1>1
  <2>2. CASE i = 1
    <3>1. q[i].type = "SYMBOL"
      BY <1>1, <1>2, <2>1, <2>2
    <3>2. QED
      BY <2>1, <3>1 DEF Share
  <2>3. CASE i # 1
    <3>1. i - 1 \in 1 .. n /\ m + i # 1 /\ (m + i) - 1 = m + (i - 1)
      BY <1>1, <2>3
    <3>2. tr[m + (i - 1)] = q[i - 1]
      BY <1>1, <3>1
    <3>3. NameAt(q, d, i) = NameAt(tr, c, m + i)
      BY <2>3, <3>1, <3>2 DEF NameAt
    <3>4. QED
      BY <2>1, <3>3 DEF Share
  <2>4. QED
    BY <2>2, <2>3
<1>6. \A x, y \in 1 .. n : r[x] = r[y] => x = y
  BY <1>1
<1>7. {r[x] : x \in 1 .. n} = DOMAIN tr \ (1 .. m) /\ 1 .. m \subseteq DOMAIN tr
  <2>1. ASSUME NEW x \in 1 .. n PROVE r[x] \in DOMAIN tr \ (1 .. m)
    BY <1>1
  <2>2. ASSUME NEW y \in DOMAIN tr \ (1 .. m) PROVE \E x \in 1 .. n : r[x] = y
    <3>1. y - m \in 1 .. n /\ m + (y - m) = y
      BY <1>1
    <3>2. QED
      BY <3>1
  <2>3. 1 .. m \subseteq DOMAIN tr
    BY <1>1
  <2> HIDE DEF r
  <2>4. {r[x] : x \in 1 .. n} = DOMAIN tr \ (1 .. m)
    BY <2>1, <2>2
  <2>5. QED
    BY <2>3, <2>4
<1> HIDE DEF F, G, H, r
<1>8. SumOver(F, {r[x] : x \in 1 .. n}) = SumOver(H, 1 .. n)
  <2>1. PICK S : S = 1 .. n
    OBVIOUS
  <2>2. IsFiniteSet(S) /\ \A x \in S : H[x] = F[r[x]] /\ H[x] \in Int
    BY <1>1, <1>3, <1>5, <2>1
  <2>3. \A x, y \in S : r[x] = r[y] => x = y
    BY <1>6, <2>1
  <2>4. SumOver(F, {r[x] : x \in S}) = SumOver(H, S)
    BY <2>2, <2>3, SumRenamed, SMTT(60)
  <2>5. QED
    BY <2>1, <2>4
<1>9. SumOver(F, 1 .. m) = SumOver(G, 1 .. m)
  <2>1. PICK S : S = 1 .. m
    OBVIOUS
  <2>2. IsFiniteSet(S) /\ \A x \in S : G[x] = F[x] /\ G[x] \in Int
    BY <1>1, <1>3, <1>4, <2>1
  <2>3. SumOver(F, S) = SumOver(G, S)
    BY <2>2, SumSame
  <2>4. QED
    BY <2>1, <2>3
<1>10. SumOver(F, DOMAIN tr) = SumOver(F, 1 .. m) + SumOver(F, DOMAIN tr \ (1 .. m))
  <2>1. PICK S, T : S = DOMAIN tr /\ T = 1 .. m
    OBVIOUS
  <2>2. IsFiniteSet(S) /\ T \subseteq S /\ \A x \in S : F[x] \in Int
    BY <1>3, <1>7, <2>1
  <2>3. SumOver(F, S) = SumOver(F, T) + SumOver(F, S \ T)
    BY <2>2, SumSplit
  <2>4. QED
    BY <2>1, <2>3
<1>11. QED
  BY <1>1, <1>7, <1>8, <1>9, <1>10 DEF Amount, F, G, H, tr

-----------------------------------------------------------------------------
\* The names the model looks for are the ones right before the messages.

LEMMA JoinedPaired ==
    ASSUME NEW p \in Seq(Message), NEW q \in Seq(Message),
           WellPaired(p), WellPaired(q), StartsNamed(q)
    PROVE  WellPaired(p \o q)
<1> DEFINE tr == p \o q
           m  == Len(p)
           n  == Len(q)
<1>1. /\ m \in Nat /\ n \in Nat
      /\ DOMAIN p = 1 .. m /\ DOMAIN q = 1 .. n
      /\ DOMAIN tr = 1 .. m + n
      /\ \A i \in 1 .. m : tr[i] = p[i]
      /\ \A i \in 1 .. n : tr[m + i] = q[i]
  BY Joined
<1>2. q # <<>> => q[1].type = "SYMBOL"
  BY OneTaken DEF StartsNamed
<1> HIDE DEF m, n, tr
<1>3. ASSUME NEW i \in DOMAIN tr
      PROVE  /\ tr[i].type = "SYMBOL" => i + 1 \in DOMAIN tr /\ tr[i + 1].type # "SYMBOL"
             /\ tr[i].type # "SYMBOL" /\ i > 1 => tr[i - 1].type = "SYMBOL"
  <2>1. CASE i \in 1 .. m
    <3>1. /\ p[i].type = "SYMBOL" => i + 1 \in 1 .. m /\ p[i + 1].type # "SYMBOL"
          /\ p[i].type # "SYMBOL" /\ i > 1 => i - 1 \in 1 .. m /\ p[i - 1].type = "SYMBOL"
      BY <1>1, <2>1 DEF WellPaired
    <3>2. QED
      BY <1>1, <2>1, <3>1
  <2>2. CASE i \notin 1 .. m
    <3>1. PICK j \in 1 .. n : i = m + j
      <4>1. i - m \in 1 .. n /\ i = m + (i - m)
        BY <1>1, <2>2
      <4>2. QED
        BY <4>1
    <3>2. tr[i] = q[j]
      BY <1>1, <3>1
    <3>3. ASSUME q[j].type = "SYMBOL"
          PROVE  i + 1 \in DOMAIN tr /\ tr[i + 1].type # "SYMBOL"
      <4>1. j + 1 \in 1 .. n /\ q[j + 1].type # "SYMBOL"
        BY <1>1, <3>1, <3>3 DEF WellPaired
      <4>2. i + 1 = m + (j + 1) /\ i + 1 \in DOMAIN tr
        <5>1. m \in Nat /\ n \in Nat /\ j \in Nat /\ j + 1 <= n /\ i = m + j
          BY <1>1, <3>1, <4>1
        <5>2. i + 1 = m + (j + 1) /\ i + 1 \in 1 .. m + n
          BY <5>1
        <5>3. QED
          BY <1>1, <5>2
      <4>3. QED
        BY <1>1, <4>1, <4>2
    <3>4. ASSUME q[j].type # "SYMBOL"
          PROVE  tr[i - 1].type = "SYMBOL"
      <4>1. j # 1
        BY <1>1, <1>2, <3>1, <3>4
      <4>2. j > 1 /\ j - 1 \in 1 .. n /\ i - 1 = m + (j - 1)
        BY <1>1, <3>1, <4>1
      <4>3. q[j - 1].type = "SYMBOL"
        BY <1>1, <3>1, <3>4, <4>2 DEF WellPaired
      <4>4. tr[m + (j - 1)] = q[j - 1]
        BY <1>1, <4>2
      <4>5. QED
        BY <4>2, <4>3, <4>4
    <3>5. QED
      BY <3>2, <3>3, <3>4
  <2>3. QED
    BY <2>1, <2>2
<1>4. QED
  BY <1>3 DEF WellPaired, tr

\* The name the model looks up for a message is the one right before it.
LEMMA NamesAgree ==
    ASSUME ChannelType, PairInv, NEW i \in DOMAIN Transit, Transit[i].type # "SYMBOL"
    PROVE  SymbolOf(i) = NameAt(Transit, currentSymbol, i)
<1> DEFINE names == {j \in 1 .. i - 1 : Transit[j].type = "SYMBOL"}
<1>1. WellPaired(Transit) /\ Transit \in Seq(Message)
  BY JoinedPaired, TransitType DEF ChannelType, PairInv, Transit
<1>2. DOMAIN Transit = 1 .. Len(Transit) /\ Len(Transit) \in Nat /\ i \in Nat /\ i >= 1
  BY <1>1
<1>3. CASE i = 1
  <2>1. names = {}
    BY <1>3
  <2>2. QED
    BY <1>3, <2>1 DEF SymbolOf, NameAt
<1>4. CASE i # 1
  <2>1. Transit[i - 1].type = "SYMBOL" /\ i - 1 \in 1 .. i - 1
    BY <1>1, <1>2, <1>4 DEF WellPaired
  <2>2. i - 1 \in names /\ \A k \in names : k <= i - 1
    BY <1>2, <2>1
  <2>3. \A j \in names : (\A k \in names : k <= j) => j = i - 1
    BY <1>2, <2>2
  <2>4. (CHOOSE j \in names : \A k \in names : k <= j) = i - 1
    <3> HIDE DEF names
    <3>1. QED
      BY <2>2, <2>3
  <2>5. SymbolOf(i) = Transit[i - 1].symbol
    BY <2>2, <2>4 DEF SymbolOf
  <2>6. QED
    BY <1>4, <2>5 DEF NameAt
<1>5. QED
  BY <1>3, <1>4

\* The sum over the messages with data is the sum over all, the others giving nothing.
LEMMA PartIsAmount ==
    ASSUME NEW tr \in Seq(Message), NEW c, NEW b, NEW s, NEW D, D \subseteq DOMAIN tr, NEW F,
           DOMAIN F = D,
           \A i \in D : F[i] = Share(tr, c, b, s)[i],
           \A i \in DOMAIN tr \ D : Share(tr, c, b, s)[i] = 0
    PROVE  SumOver(F, D) = Amount(tr, c, b, s)
<1> DEFINE G == Share(tr, c, b, s)
           S == DOMAIN tr
<1>1. IsFiniteSet(S) /\ \A i \in S : G[i] \in Int
  BY AmountType
<1>2. Amount(tr, c, b, s) = SumOver(G, S)
  BY DEF Amount
<1>3. /\ \A i \in D : F[i] = G[i] /\ F[i] \in Int
      /\ \A i \in S \ D : G[i] = 0
  BY <1>1
<1> HIDE DEF G, S
<1>4. IsFiniteSet(D) /\ IsFiniteSet(S \ D)
  BY <1>1, FS_Subset DEF S
<1>5. SumOver(G, S) = SumOver(G, D) + SumOver(G, S \ D)
  BY <1>1, SumSplit DEF S
<1>6. SumOver(G, D) = SumOver(F, D) /\ SumOver(F, D) \in Int
  BY <1>3, <1>4, SumSame, SumType
<1>7. SumOver(G, S \ D) = 0
  <2>1. PICK T : T = S \ D
    OBVIOUS
  <2>2. SumOver(G, T) = 0
    BY <1>3, <1>4, <2>1, SumZero
  <2>3. QED
    BY <2>1, <2>2
<1>8. QED
  BY <1>2, <1>5, <1>6, <1>7

\* What the model sums up for a session and a symbol is this amount,
LEMMA SentIsAmount ==
    ASSUME ChannelType, PairInv, NEW b, NEW s
    PROVE  Sent(b, s) = Amount(Transit, currentSymbol, b, s)
<1> DEFINE D == Data(b, s)
           F == [i \in D |-> Transit[i].n]
<1>1. Transit \in Seq(Message) /\ D \subseteq DOMAIN Transit
  BY TransitType DEF Data
<1>2. ASSUME NEW i \in DOMAIN Transit
      PROVE  Share(Transit, currentSymbol, b, s)[i] = IF i \in D THEN Transit[i].n ELSE 0
  BY NamesAgree DEF Data, Share
<1>3. DOMAIN F = D /\ \A i \in D : F[i] = Transit[i].n
  OBVIOUS
<1>4. Sent(b, s) = SumOver(F, D)
  <2>1. Sent(b, s) = FoldFunction(+, 0, F)
    BY DEF Sent
  <2> HIDE DEF F
  <2>2. QED
    BY <1>3, <2>1, SumOfFold
<1> HIDE DEF D, F
<1>5. QED
  BY <1>1, <1>2, <1>3, <1>4, PartIsAmount

\* and so is the part of it in the collector's hands.
LEMMA InBatchIsAmount ==
    ASSUME ChannelType, PairInv, NEW b, NEW s
    PROVE  InBatch(b, s) = Amount(batch, currentSymbol, b, s)
<1> DEFINE D == Data(b, s) \cap DOMAIN batch
           F == [i \in D |-> Transit[i].n]
<1>1. batch \in Seq(Message) /\ D \subseteq DOMAIN batch
  BY DEF ChannelType
<1>2. ASSUME NEW i \in DOMAIN batch
      PROVE  Share(batch, currentSymbol, b, s)[i] = IF i \in D THEN Transit[i].n ELSE 0
  <2>1. i \in DOMAIN Transit /\ Transit[i] = batch[i]
        /\ (i # 1 => Transit[i - 1] = batch[i - 1])
    <3> DEFINE m == Len(batch)
    <3>1. /\ m \in Nat /\ DOMAIN batch = 1 .. m
          /\ \A j \in 1 .. m : Transit[j] = batch[j]
          /\ DOMAIN batch \subseteq DOMAIN Transit
      BY Joined, TransitType DEF Transit, ChannelType
    <3> HIDE DEF m
    <3>2. i \in 1 .. m /\ (i # 1 => i - 1 \in 1 .. m)
      BY <3>1
    <3>3. QED
      BY <3>1, <3>2
  <2>2. NameAt(batch, currentSymbol, i) = NameAt(Transit, currentSymbol, i)
    BY <2>1 DEF NameAt
  <2>3. QED
    BY <2>1, <2>2, NamesAgree DEF Data, Share
<1>3. DOMAIN F = D /\ \A i \in D : F[i] = Transit[i].n
  OBVIOUS
<1>4. InBatch(b, s) = SumOver(F, D)
  <2>1. InBatch(b, s) = FoldFunction(+, 0, F)
    BY DEF InBatch
  <2> HIDE DEF F
  <2>2. QED
    BY <1>3, <2>1, SumOfFold
<1> HIDE DEF D, F
<1>5. QED
  BY <1>1, <1>2, <1>3, <1>4, PartIsAmount

-----------------------------------------------------------------------------
\* The books: where the calls of b on s are.

InTransit(b, s) == Amount(Transit, currentSymbol, b, s)

Conserved ==
    \A b \in Backends, s \in Symbols :
        calls[b][s] = Unsent(b, s) + InTransit(b, s) + Known(b, s)

FlowType ==
    \A b \in Backends, s \in Symbols :
        /\ calls[b][s] \in Int /\ Unsent(b, s) \in Int /\ InTransit(b, s) \in Int
        /\ Stocked(b, s) \in Int /\ reported[s][b] \in Int /\ missed[s][b] \in Int

LEMMA FlowTypes == IInv => FlowType
<1> SUFFICES ASSUME IInv, NEW b \in Backends, NEW s \in Symbols
             PROVE  /\ calls[b][s] \in Int /\ Unsent(b, s) \in Int /\ InTransit(b, s) \in Int
                    /\ Stocked(b, s) \in Int /\ reported[s][b] \in Int /\ missed[s][b] \in Int
  BY DEF FlowType
<1> USE DEF IInv, SessionInv, CollectorInv
<1>1. calls[b][s] \in Int
  <2>1. calls[b][s] \in 0 .. MaxCalls
    BY DEF HistoryType
  <2>2. QED
    BY <2>1
<1>2. Unsent(b, s) \in Int
  <2>1. op[b].left \in Int
    BY DEF SessionType, OpSet
  <2>2. s \in Shared(b) => probes[b][s] \in Probe
    BY DEF Shared, Has, SessionType
  <2>3. s \in Shared(b) => probes[b][s].count \in Int
    BY <2>2 DEF Probe
  <2>4. QED
    BY <2>1, <2>3 DEF Unsent
<1>3. InTransit(b, s) \in Int
  BY TransitType, AmountType DEF InTransit
<1>4. Stocked(b, s) \in Int
  <2>1. Present(s) => storages[s] \in Storage
    BY DEF Present, CollectorTypeOK
  <2>2. QED
    BY <2>1 DEF Stocked, Storage, Counts
<1>5. reported[s][b] \in Int /\ missed[s][b] \in Int
  BY DEF CollectorTypeOK, Counts
<1>6. QED
  BY <1>1, <1>2, <1>3, <1>4, <1>5

\* A session whose probes stay as they are has the same left to send.
LEMMA UnsentStays ==
    ASSUME NEW c \in Backends, NEW s, Stays(c)
    PROVE  Unsent(c, s)' = Unsent(c, s)
  BY DEF Stays, Unsent, Shared, Has

\* What is put moves from what is unsent to what is in transit.
LEMMA Booked ==
    \A k, u, v, i, t, r, m, n \in Int :
        k = u + i + (t + r + m) /\ u = v + n => k = v + (i + n) + (t + r + m)
  OBVIOUS

\* A step of a session that sends nothing.
LEMMA SessionConserves ==
    ASSUME IInv, IInv', Conserved, NEW b \in Backends,
           UNCHANGED <<queue, batch, storages, currentSymbol, reported>>,
           \A c \in Backends \ {b} :
              Stays(c) /\ \A r \in Symbols : calls'[c][r] = calls[c][r] /\ missed'[r][c] = missed[r][c],
           \A r \in Symbols :
              calls'[b][r] + Unsent(b, r) + missed[r][b]
                 = calls[b][r] + Unsent(b, r)' + missed'[r][b]
    PROVE  Conserved'
<1>1. SUFFICES ASSUME NEW c \in Backends, NEW s \in Symbols
               PROVE  (calls[c][s] = Unsent(c, s) + InTransit(c, s) + Known(c, s))'
  BY DEF Conserved
<1>2. InTransit(c, s)' = InTransit(c, s)
  BY DEF InTransit, Transit
<1>3. Stocked(c, s)' = Stocked(c, s)
  BY DEF Stocked, Present
<1>4. calls[c][s] = Unsent(c, s) + InTransit(c, s) + (Stocked(c, s) + reported[s][c] + missed[s][c])
  BY DEF Conserved, Known
<1>5. /\ calls[c][s] \in Int /\ Unsent(c, s) \in Int /\ InTransit(c, s) \in Int
      /\ Stocked(c, s) \in Int /\ reported[s][c] \in Int /\ missed[s][c] \in Int
  BY FlowTypes DEF FlowType
<1>6. calls'[c][s] \in Int /\ Unsent(c, s)' \in Int /\ missed'[s][c] \in Int
  <2>1. FlowType'
    BY FlowTypes, PTL
  <2>2. QED
    BY <2>1 DEF FlowType
<1>7. calls'[c][s] + Unsent(c, s) + missed[s][c] = calls[c][s] + Unsent(c, s)' + missed'[s][c]
  <2>1. CASE c = b
    BY <2>1
  <2>2. CASE c # b
    <3>1. Unsent(c, s)' = Unsent(c, s)
      BY <2>2, UnsentStays
    <3>2. calls'[c][s] = calls[c][s] /\ missed'[s][c] = missed[s][c]
      BY <2>2
    <3>3. QED
      BY <3>1, <3>2
  <2>3. QED
    BY <2>1, <2>2
<1>8. calls'[c][s] = Unsent(c, s)' + InTransit(c, s) + (Stocked(c, s) + reported[s][c] + missed'[s][c])
  <2>1. PICK k, l, u, v, i, t, r, m, n \in Int :
           /\ k = calls[c][s] /\ l = calls'[c][s] /\ u = Unsent(c, s) /\ v = Unsent(c, s)'
           /\ i = InTransit(c, s) /\ t = Stocked(c, s) /\ r = reported[s][c]
           /\ m = missed[s][c] /\ n = missed'[s][c]
    BY <1>5, <1>6
  <2>2. k = u + i + (t + r + m)
    BY <1>4, <2>1
  <2>3. l + u + m = k + v + n
    BY <1>7, <2>1
  <2>4. l = v + i + (t + r + n)
    BY <2>2, <2>3
  <2>5. QED
    BY <2>1, <2>4
<1>9. QED
  BY <1>2, <1>3, <1>8 DEF Known

\* A step of a session that puts a message.
LEMMA PutConserves ==
    ASSUME IInv, IInv', Conserved, NEW b \in Backends, NEW a \in Symbols, NEW m \in Request,
           Appends(a, m), m.type = "CUSTOM" => m.from = b,
           UNCHANGED <<batch, storages, currentSymbol, reported, missed, calls>>,
           \A c \in Backends \ {b} : Stays(c),
           \A r \in Symbols :
              Unsent(b, r) = Unsent(b, r)' + (IF m.type = "CUSTOM" /\ a = r THEN m.n ELSE 0)
    PROVE  Conserved'
<1>1. SUFFICES ASSUME NEW c \in Backends, NEW s \in Symbols
               PROVE  (calls[c][s] = Unsent(c, s) + InTransit(c, s) + Known(c, s))'
  BY DEF Conserved
<1>2. PICK n : n = IF m.type = "CUSTOM" /\ m.from = c /\ a = s THEN m.n ELSE 0
  OBVIOUS
<1>3. n \in Int
  BY <1>2, MessageTypes DEF Request
<1>4. InTransit(c, s)' = InTransit(c, s) + n
  <2>1. batch \in Seq(Message) /\ queue \in Seq(Message) /\ Transit \in Seq(Message)
    BY TransitType DEF IInv, CollectorInv, ChannelType
  <2>2. m \in Message /\ [type |-> "SYMBOL", symbol |-> a] \in Message
    BY MadeMessages DEF Request
  <2>3. Transit' = Transit \o << [type |-> "SYMBOL", symbol |-> a], m >>
    BY <2>1, <2>2, Transits DEF Transit, Appends
  <2>4. QED
    BY <1>2, <2>1, <2>2, <2>3, AmountAppended DEF InTransit
<1>5. Unsent(c, s) = Unsent(c, s)' + n
  <2>1. CASE c = b
    BY <1>2, <2>1
  <2>2. CASE c # b
    <3>1. n = 0
      BY <1>2, <2>2
    <3>2. Unsent(c, s)' = Unsent(c, s)
      BY <2>2, UnsentStays
    <3>3. Unsent(c, s) \in Int
      BY FlowTypes DEF FlowType
    <3>4. QED
      BY <3>1, <3>2, <3>3
  <2>3. QED
    BY <2>1, <2>2
<1>6. Stocked(c, s)' = Stocked(c, s)
  BY DEF Stocked, Present
<1>7. calls[c][s] = Unsent(c, s) + InTransit(c, s) + (Stocked(c, s) + reported[s][c] + missed[s][c])
  BY DEF Conserved, Known
<1>8. /\ Unsent(c, s) \in Int /\ InTransit(c, s) \in Int
      /\ Stocked(c, s) \in Int /\ reported[s][c] \in Int /\ missed[s][c] \in Int
  BY FlowTypes DEF FlowType
<1>9. Unsent(c, s)' \in Int
  <2>1. FlowType'
    BY FlowTypes, PTL
  <2>2. QED
    BY <2>1 DEF FlowType
<1>10. calls[c][s] = Unsent(c, s)' + (InTransit(c, s) + n) + (Stocked(c, s) + reported[s][c] + missed[s][c])
  BY <1>3, <1>5, <1>7, <1>8, <1>9, Booked
<1>11. QED
  BY <1>4, <1>6, <1>10 DEF Known

\* A step that touches no count at all.
LEMMA QuietConserves ==
    ASSUME IInv, IInv', Conserved, NEW b \in Backends,
           UNCHANGED <<queue, batch, collector, calls>>,
           \A c \in Backends \ {b} : Stays(c),
           \A r \in Symbols : Unsent(b, r)' = Unsent(b, r)
    PROVE  Conserved'
  BY SessionConserves DEF collector

\* What b has not sent of s, by the probe and the message it is putting.
LEMMA UnsentIs ==
    ASSUME NEW b \in Backends, NEW s \in Symbols
    PROVE  /\ op[b].current = NoSymbol /\ s \notin Shared(b) => Unsent(b, s) = 0
           /\ op[b].current = NoSymbol /\ s \in Shared(b) => Unsent(b, s) = probes[b][s].count
           /\ op[b].current = s => Unsent(b, s) = op[b].left
           /\ op[b].current # s /\ s \notin Shared(b) => Unsent(b, s) = 0
           /\ op[b].current # s /\ s \in Shared(b) => Unsent(b, s) = probes[b][s].count
           /\ s # NoSymbol
  BY SharedUprobesAssumption DEF Unsent

\* Unsent is the same when the probes are and no message is being put, before or after.
LEMMA UnsentSame ==
    ASSUME NEW b \in Backends, NEW s \in Symbols, op[b].current = NoSymbol,
           op'[b].current = NoSymbol, probes'[b] = probes[b]
    PROVE  Unsent(b, s)' = Unsent(b, s)
<1>1. op[b].current # s /\ op'[b].current # s
  BY SharedUprobesAssumption
<1>2. QED
  BY <1>1 DEF Unsent, Shared, Has

\* Outside the loop that sends, a function keeps no message.
LEMMA AtRest ==
    ASSUME IInv, NEW b \in Backends
    PROVE  /\ OpAt(b) /\ op[b] \in OpSet /\ NoOp.current = NoSymbol
           /\ pc[b] # "putData" => op[b].current = NoSymbol
           /\ pc[b] \in {"away", "idle"} => op[b] = NoOp
           /\ \A s \in Symbols : s \in Shared(b) => probes[b][s] \in Probe
<1>1. OpAt(b) /\ op[b] \in OpSet
  BY DEF IInv, SessionInv, OpInv, SessionType
<1>2. \A s \in Symbols : s \in Shared(b) => probes[b][s] \in Probe
  BY DEF IInv, SessionInv, SessionType, Shared, Has
<1>3. QED
  BY <1>1, <1>2 DEF OpAt, NoOp

LEMMA ConnectConserves ==
    ASSUME IInv, IInv', Conserved, NEW b \in Backends, Connect(b)
    PROVE  Conserved'
<1>1. /\ UNCHANGED <<queue, batch, collector, calls>>
      /\ UNCHANGED op /\ pc[b] = "away" /\ Goto(b, "idle")
  BY DEF Connect, channel
<1>2. op[b].current = NoSymbol /\ \A s \in Symbols : ~Has(b, s)
  BY <1>1, AtRest DEF OpAt
<1>3. /\ probes' = probes
      \/ probes' = [probes EXCEPT ![b] = [s \in Symbols |->
                IF config[s] = NoProbe THEN NoProbe ELSE NewProbe(config[s], TRUE)]]
  BY DEF Connect
<1>4. probes \in [Backends -> [Symbols -> Probe \cup {NoProbe}]] /\ pc \in [Backends -> Places]
  BY DEF IInv, SessionInv, SessionType
<1>5. \A c \in Backends \ {b} : Stays(c)
  BY <1>1, <1>3, <1>4 DEF Stays, Goto
<1>6. ASSUME NEW r \in Symbols PROVE Unsent(b, r)' = Unsent(b, r)
  <2>1. Unsent(b, r) = 0
    BY <1>2, UnsentIs DEF Shared
  <2>2. op'[b].current = NoSymbol /\ r # NoSymbol
    BY <1>1, <1>2, UnsentIs
  <2>3. r \in Shared(b)' => probes'[b][r].count = 0
    BY <1>2, <1>3, <1>4 DEF Shared, Has, NewProbe
  <2>4. QED
    BY <2>1, <2>2, <2>3 DEF Unsent
<1>7. QED
  BY <1>1, <1>5, <1>6, QuietConserves

LEMMA StartConserves ==
    ASSUME IInv, IInv', Conserved, NEW b \in Backends,
           \/ Disconnect(b) \/ TimedStatSend(b)
           \/ \E s \in Symbols, f \in BOOLEAN : DumpUprobeStat(b, s, f)
    PROVE  Conserved'
<1>1. /\ UNCHANGED <<queue, batch, collector, calls, probes>> /\ pc[b] = "idle" /\ Goto(b, "send")
  BY DEF Disconnect, TimedStatSend, DumpUprobeStat, channel, history
<1>2. op \in [Backends -> OpSet] /\ pc \in [Backends -> Places]
  BY DEF IInv, SessionInv, SessionType
<1>3. op'[b].current = NoSymbol /\ \A c \in Backends \ {b} : op'[c] = op[c]
  <2>1. CASE Disconnect(b)
    BY <1>2, <2>1 DEF Disconnect, NoOp
  <2>2. CASE TimedStatSend(b)
    BY <1>2, <2>2 DEF TimedStatSend, NoOp
  <2>3. ASSUME NEW s, NEW f, DumpUprobeStat(b, s, f)
        PROVE  op'[b].current = NoSymbol /\ \A c \in Backends \ {b} : op'[c] = op[c]
    BY <1>2, <2>3 DEF DumpUprobeStat, NoOp
  <2>4. QED
    BY <2>1, <2>2, <2>3
<1>4. op[b].current = NoSymbol
  BY <1>1, AtRest
<1>5. \A c \in Backends \ {b} : Stays(c)
  BY <1>1, <1>2, <1>3 DEF Stays, Goto
<1>6. QED
  BY <1>1, <1>3, <1>4, <1>5, UnsentSame, QuietConserves

LEMMA CallConserves ==
    ASSUME IInv, IInv', Conserved, NEW b \in Backends, NEW s \in Symbols, Call(b, s)
    PROVE  Conserved'
<1>1. /\ UNCHANGED <<queue, batch, collector, pc, op>> /\ pc[b] = "idle" /\ s \in Shared(b)
      /\ calls' = [calls EXCEPT ![b][s] = @ + 1]
      /\ probes' = [probes EXCEPT ![b][s].count = @ + 1]
  BY DEF Call, channel
<1>2. op[b].current = NoSymbol /\ probes[b][s] \in Probe /\ SessionType
  BY <1>1, AtRest DEF IInv, SessionInv
<1>3. PICK n \in Nat : n = probes[b][s].count
  BY <1>2 DEF Probe
<1>4. /\ \A c \in Backends \ {b} : probes'[c] = probes[c]
      /\ \A r \in Symbols \ {s} : probes'[b][r] = probes[b][r]
      /\ probes'[b][s] \in Probe
      /\ probes'[b][s].shared = probes[b][s].shared
      /\ probes'[b][s].count = n + 1
  <2>1. probes' = [probes EXCEPT ![b][s].count = n + 1] /\ n + 1 \in Nat
    BY <1>1, <1>3
  <2>2. QED
    BY <1>2, <2>1, CountChanged
<1>5. calls \in [Backends -> [Symbols -> 0 .. MaxCalls]]
  BY DEF IInv, HistoryType
<1>6. /\ \A c \in Backends \ {b} : calls'[c] = calls[c]
      /\ \A r \in Symbols \ {s} : calls'[b][r] = calls[b][r]
      /\ calls'[b][s] = calls[b][s] + 1
  BY <1>1, <1>5
<1>7. \A c \in Backends \ {b} :
         Stays(c) /\ \A r \in Symbols : calls'[c][r] = calls[c][r] /\ missed'[r][c] = missed[r][c]
  BY <1>1, <1>4, <1>6 DEF Stays, collector
<1>8. ASSUME NEW r \in Symbols
      PROVE  calls'[b][r] + Unsent(b, r) + missed[r][b]
                = calls[b][r] + Unsent(b, r)' + missed'[r][b]
  <2>1. calls[b][r] \in Int /\ Unsent(b, r) \in Int /\ missed[r][b] \in Int /\ missed'[r][b] = missed[r][b]
    BY <1>1, FlowTypes DEF FlowType, collector
  <2>2. op'[b].current # r /\ op[b].current # r
    BY <1>1, <1>2, UnsentIs
  <2>3. CASE r = s
    <3>1. Unsent(b, r) = n
      BY <1>1, <1>2, <1>3, <2>2, <2>3 DEF Unsent
    <3>2. s \in Shared(b)'
      BY <1>1, <1>4, SharedUprobesAssumption DEF Shared, Has
    <3>3. Unsent(b, r)' = n + 1
      BY <1>4, <2>2, <2>3, <3>2 DEF Unsent
    <3>4. QED
      BY <1>6, <2>1, <2>3, <3>1, <3>3
  <2>4. CASE r # s
    <3>1. Unsent(b, r)' = Unsent(b, r)
      BY <1>4, <2>2, <2>4 DEF Unsent, Shared, Has
    <3>2. QED
      BY <1>6, <2>1, <2>4, <3>1
  <2>5. QED
    BY <2>3, <2>4
<1>9. QED
  BY <1>1, <1>7, <1>8, SessionConserves DEF collector

LEMMA SetUprobeConserves ==
    ASSUME IInv, IInv', Conserved, NEW b \in Backends, NEW s \in Symbols, NEW t \in Types,
           NEW f \in BOOLEAN, SetUprobe(b, s, t, f)
    PROVE  Conserved'
<1>1. /\ UNCHANGED <<queue, batch, collector, calls>> /\ pc[b] = "idle" /\ ~Has(b, s)
  BY DEF SetUprobe, channel
<1>2. op[b].current = NoSymbol /\ SessionType
  BY <1>1, AtRest DEF IInv, SessionInv
<1>3. CASE f
  <2>1. UNCHANGED probes /\ Goto(b, "putNew")
    BY <1>3 DEF SetUprobe
  <2>2. op'[b].current = NoSymbol /\ \A c \in Backends \ {b} : op'[c] = op[c]
    BY <1>2, <1>3 DEF SetUprobe, NoOp, SessionType
  <2>3. \A c \in Backends \ {b} : Stays(c)
    BY <1>2, <2>1, <2>2 DEF SessionType, Stays, Goto
  <2>4. QED
    BY <1>1, <1>2, <2>1, <2>2, <2>3, UnsentSame, QuietConserves
<1>4. CASE ~f
  <2>1. SetProbe(b, s, NewProbe(t, FALSE)) /\ UNCHANGED <<op, pc>>
    BY <1>4 DEF SetUprobe
  <2>2. /\ \A c \in Backends \ {b} : Stays(c)
        /\ probes'[b][s] = NewProbe(t, FALSE)
        /\ \A r \in Symbols \ {s} : probes'[b][r] = probes[b][r]
    BY <1>2, <2>1 DEF SetProbe, SessionType, Stays
  <2>3. s \notin Shared(b) /\ s \notin Shared(b)'
    BY <1>1, <2>2 DEF Shared, NewProbe
  <2>4. ASSUME NEW r \in Symbols PROVE Unsent(b, r)' = Unsent(b, r)
    <3>1. op'[b].current # r /\ op[b].current # r
      BY <1>2, <2>1, UnsentIs
    <3>2. CASE r = s
      BY <2>3, <3>1, <3>2 DEF Unsent
    <3>3. CASE r # s
      BY <2>2, <3>1, <3>3 DEF Unsent, Shared, Has
    <3>4. QED
      BY <3>2, <3>3
  <2>5. QED
    BY <1>1, <2>2, <2>4, QuietConserves
<1>5. QED
  BY <1>3, <1>4

LEMMA DeleteUprobeConserves ==
    ASSUME IInv, IInv', Conserved, NEW b \in Backends, NEW s \in Symbols, NEW f \in BOOLEAN,
           DeleteUprobe(b, s, f)
    PROVE  Conserved'
<1>1. /\ UNCHANGED <<queue, batch, storages, currentSymbol, reported, calls>>
      /\ pc[b] = "idle" /\ SetProbe(b, s, NoProbe)
  BY DEF DeleteUprobe, channel
<1>2. op[b].current = NoSymbol /\ SessionType /\ missed \in [Symbols -> [Backends -> Int]]
  BY <1>1, AtRest DEF IInv, SessionInv, CollectorInv, CollectorTypeOK
<1>3. /\ \A c \in Backends \ {b} : probes'[c] = probes[c]
      /\ probes'[b][s] = NoProbe
      /\ \A r \in Symbols \ {s} : probes'[b][r] = probes[b][r]
  BY <1>1, <1>2 DEF SetProbe, SessionType
<1>4. op'[b].current = NoSymbol /\ \A c \in Backends \ {b} : op'[c] = op[c] /\ pc'[c] = pc[c]
  <2>1. CASE s \in Shared(b)
    <3> DEFINE o == [NoOp EXCEPT !.name = "delete", !.symbol = s, !.flag = f,
                                 !.todo = Shared(b) \ {s}]
    <3>1. op' = [op EXCEPT ![b] = o] /\ Goto(b, "send")
      BY <2>1 DEF DeleteUprobe
    <3>2. o.current = NoSymbol
      BY DEF NoOp
    <3> HIDE DEF o
    <3>3. QED
      BY <1>2, <3>1, <3>2 DEF SessionType, Goto
  <2>2. CASE s \notin Shared(b)
    BY <1>2, <2>2 DEF DeleteUprobe
  <2>3. QED
    BY <2>1, <2>2
<1>5. PICK n \in Int : /\ n = IF s \in Shared(b) THEN probes[b][s].count ELSE 0
                       /\ missed'[s][b] = missed[s][b] + n
                       /\ \A r \in Symbols, c \in Backends :
                             r # s \/ c # b => missed'[r][c] = missed[r][c]
  <2>1. CASE s \in Shared(b)
    <3>1. probes[b][s] \in Probe
      BY <2>1, AtRest
    <3>2. probes[b][s].count \in Int
      BY <3>1 DEF Probe
    <3>3. Miss(s, b, probes[b][s].count)
      BY <2>1 DEF DeleteUprobe
    <3>4. QED
      BY <1>2, <2>1, <3>2, <3>3, MissType
  <2>2. CASE s \notin Shared(b)
    <3>1. UNCHANGED missed
      BY <2>2 DEF DeleteUprobe
    <3>2. missed'[s][b] = missed[s][b] + 0
      BY <1>2, <3>1
    <3>3. QED
      BY <2>2, <3>1, <3>2
  <2>3. QED
    BY <2>1, <2>2
<1>6. \A c \in Backends \ {b} :
         Stays(c) /\ \A r \in Symbols : calls'[c][r] = calls[c][r] /\ missed'[r][c] = missed[r][c]
  BY <1>1, <1>3, <1>4, <1>5 DEF Stays
<1>7. ASSUME NEW r \in Symbols
      PROVE  calls'[b][r] + Unsent(b, r) + missed[r][b]
                = calls[b][r] + Unsent(b, r)' + missed'[r][b]
  <2>1. calls[b][r] \in Int /\ Unsent(b, r) \in Int /\ missed[r][b] \in Int
        /\ calls'[b][r] = calls[b][r]
    BY <1>1, FlowTypes DEF FlowType
  <2>2. op'[b].current # r /\ op[b].current # r
    BY <1>2, <1>4, UnsentIs
  <2>3. CASE r = s
    <3>1. Unsent(b, r) = n
      BY <1>5, <2>2, <2>3 DEF Unsent
    <3>2. s \notin Shared(b)'
      BY <1>3 DEF Shared, Has
    <3>3. Unsent(b, r)' = 0
      BY <2>2, <2>3, <3>2 DEF Unsent
    <3>4. QED
      BY <1>5, <2>1, <2>3, <3>1, <3>3
  <2>4. CASE r # s
    <3>1. Unsent(b, r)' = Unsent(b, r)
      BY <1>3, <2>2, <2>4 DEF Unsent, Shared, Has
    <3>2. QED
      BY <1>5, <2>1, <2>4, <3>1
  <2>5. QED
    BY <2>3, <2>4
<1>8. QED
  BY <1>1, <1>6, <1>7, SessionConserves

LEMMA SendNextConserves ==
    ASSUME IInv, IInv', Conserved, NEW b \in Backends, SendNext(b)
    PROVE  Conserved'
<1>1. PICK s \in Busy(b) :
          /\ op' = [op EXCEPT ![b].todo = @ \ {s}, ![b].current = s,
                              ![b].left = probes[b][s].count]
          /\ IF probes[b][s].type = "TIME"
             THEN probes' = [probes EXCEPT ![b][s].count = 0]
             ELSE UNCHANGED probes
  BY DEF SendNext
<1>2. /\ UNCHANGED <<queue, batch, collector, calls>> /\ pc[b] = "send" /\ Goto(b, "putData")
  BY DEF SendNext, channel, history
<1>3. op[b].current = NoSymbol /\ SessionType /\ op[b] \in OpSet /\ s \in op[b].todo /\ s \in Shared(b)
  BY <1>1, <1>2, AtRest DEF IInv, SessionInv, Busy, OpAt
<1>4. s \in Symbols /\ probes[b][s] \in Probe
  BY <1>3, SharedType, AtRest
<1>5. /\ \A c \in Backends \ {b} : probes'[c] = probes[c]
      /\ \A r \in Symbols \ {s} : probes'[b][r] = probes[b][r]
  <2>1. CASE probes[b][s].type = "TIME"
    <3>1. probes' = [probes EXCEPT ![b][s].count = 0]
      BY <1>1, <2>1
    <3>2. SessionType /\ 0 \in Nat
      BY <1>3
    <3>3. QED
      BY ONLY <1>4, <3>1, <3>2, b \in Backends, CountChanged
  <2>2. CASE probes[b][s].type # "TIME"
    BY <1>1, <2>2
  <2>3. QED
    BY <2>1, <2>2
<1>6. /\ op'[b].current = s /\ op'[b].left = probes[b][s].count
      /\ \A c \in Backends \ {b} : op'[c] = op[c]
  BY <1>1, <1>3 DEF SessionType, OpSet
<1>7. \A c \in Backends \ {b} : Stays(c)
  BY <1>2, <1>3, <1>5, <1>6 DEF Stays, Goto, SessionType
<1>8. ASSUME NEW r \in Symbols PROVE Unsent(b, r)' = Unsent(b, r)
  <2>1. op[b].current # r
    BY <1>3, UnsentIs
  <2>2. CASE r = s
    BY <1>3, <1>6, <2>1, <2>2 DEF Unsent
  <2>3. CASE r # s
    BY <1>5, <1>6, <2>1, <2>3 DEF Unsent, Shared, Has
  <2>4. QED
    BY <2>2, <2>3
<1>9. QED
  BY <1>2, <1>7, <1>8, QuietConserves

\* After a put the probe owes what the put has left over.
LEMMA RemainUnsent ==
    ASSUME IInv, NEW b \in Backends, pc[b] = "putData", NEW n \in Nat, Remain(b, n)
    PROVE  /\ \A c \in Backends \ {b} : Stays(c)
           /\ op[b].current \in Symbols
           /\ Unsent(b, op[b].current) = op[b].left
           /\ \A r \in Symbols : Unsent(b, r)' = IF r = op[b].current THEN n ELSE Unsent(b, r)
<1>1. PICK s : s = op[b].current
  OBVIOUS
<1>2. SessionType /\ op[b] \in OpSet /\ s \in Shared(b)
  BY <1>1, AtRest DEF IInv, SessionInv, OpAt
<1>3. s \in Symbols /\ probes[b][s] \in Probe
  BY <1>2, SharedType, AtRest
<1>4. CASE n > 0
  <2>1. op' = [op EXCEPT ![b].left = n] /\ UNCHANGED <<probes, pc>>
    BY <1>4 DEF Remain
  <2>2. op'[b].current = s /\ op'[b].left = n /\ \A c \in Backends \ {b} : op'[c] = op[c]
    BY <1>1, <1>2, <2>1 DEF SessionType, OpSet
  <2>3. \A c \in Backends \ {b} : Stays(c)
    BY <2>1, <2>2 DEF Stays
  <2>4. \A r \in Symbols : Unsent(b, r)' = IF r = s THEN n ELSE Unsent(b, r)
    BY <1>1, <2>1, <2>2 DEF Unsent, Shared, Has
  <2>5. QED
    BY <1>1, <1>3, <2>3, <2>4, UnsentIs
<1>5. CASE n = 0
  <2>1. /\ op' = [op EXCEPT ![b].current = NoSymbol, ![b].left = 0] /\ Goto(b, "send")
        /\ probes' = [probes EXCEPT ![b][s].count = 0]
    BY <1>1, <1>5 DEF Remain
  <2>2. /\ \A c \in Backends \ {b} : probes'[c] = probes[c]
        /\ \A r \in Symbols \ {s} : probes'[b][r] = probes[b][r]
        /\ probes'[b][s].count = 0 /\ probes'[b][s] \in Probe
        /\ probes'[b][s].shared = probes[b][s].shared
    BY <1>2, <1>3, <2>1, CountChanged
  <2>3. op'[b].current = NoSymbol /\ \A c \in Backends \ {b} : op'[c] = op[c]
    BY <1>2, <2>1 DEF SessionType, OpSet
  <2>4. \A c \in Backends \ {b} : Stays(c)
    BY <1>2, <2>1, <2>2, <2>3 DEF Stays, Goto, SessionType
  <2>5. ASSUME NEW r \in Symbols PROVE Unsent(b, r)' = IF r = s THEN 0 ELSE Unsent(b, r)
    <3>1. op'[b].current # r
      BY <2>3, UnsentIs
    <3>2. CASE r = s
      BY <2>2, <3>1, <3>2 DEF Unsent
    <3>3. CASE r # s
      BY <1>1, <2>2, <3>1, <3>3 DEF Unsent, Shared, Has
    <3>4. QED
      BY <3>2, <3>3
  <2>6. QED
    BY <1>1, <1>3, <1>5, <2>4, <2>5, UnsentIs
<1>6. QED
  BY <1>4, <1>5

LEMMA PutDataConserves ==
    ASSUME IInv, IInv', Conserved, NEW b \in Backends, PutData(b)
    PROVE  Conserved'
<1>1. /\ pc[b] = "putData"
      /\ UNCHANGED <<storages, currentSymbol, reported, batch, calls>>
  BY DEF PutData, history
<1>2. PICK s : s = op[b].current
  OBVIOUS
<1>3. op[b].left \in Nat
  BY DEF IInv, SessionInv, SessionType, OpSet
<1>4. CASE Miss(s, b, op[b].left) /\ Remain(b, 0) /\ UNCHANGED <<queue, latch>>
  <2>1. /\ \A c \in Backends \ {b} : Stays(c)
        /\ s \in Symbols /\ Unsent(b, s) = op[b].left
        /\ \A r \in Symbols : Unsent(b, r)' = IF r = s THEN 0 ELSE Unsent(b, r)
    BY <1>1, <1>2, <1>4, RemainUnsent
  <2>2. /\ missed'[s][b] = missed[s][b] + op[b].left
        /\ \A r \in Symbols, c \in Backends : r # s \/ c # b => missed'[r][c] = missed[r][c]
    BY <1>3, <1>4, <2>1, MissType DEF IInv, CollectorInv, CollectorTypeOK
  <2>3. ASSUME NEW r \in Symbols
        PROVE  calls'[b][r] + Unsent(b, r) + missed[r][b]
                  = calls[b][r] + Unsent(b, r)' + missed'[r][b]
    <3>1. calls[b][r] \in Int /\ Unsent(b, r) \in Int /\ missed[r][b] \in Int
          /\ calls'[b][r] = calls[b][r]
      BY <1>1, FlowTypes DEF FlowType
    <3>2. CASE r = s
      BY <1>3, <2>1, <2>2, <3>1, <3>2
    <3>3. CASE r # s
      BY <2>1, <2>2, <3>1, <3>3
    <3>4. QED
      BY <3>2, <3>3
  <2>4. \A c \in Backends \ {b} :
           Stays(c) /\ \A r \in Symbols : calls'[c][r] = calls[c][r] /\ missed'[r][c] = missed[r][c]
    BY <1>1, <2>1, <2>2
  <2>5. QED
    BY <1>1, <1>4, <2>3, <2>4, SessionConserves
<1>5. ASSUME NEW k \in 1 .. op[b].left,
             Stored(b, s, [type |-> "CUSTOM", kind |-> probes[b][s].type, from |-> b, n |-> k]),
             Remain(b, op[b].left - k), UNCHANGED missed
      PROVE  Conserved'
  <2>1. PICK m : m = [type |-> "CUSTOM", kind |-> probes[b][s].type, from |-> b, n |-> k]
    OBVIOUS
  <2>2. m \in Request /\ m.type = "CUSTOM" /\ m.from = b /\ m.n = k /\ k \in Nat /\ op[b].left - k \in Nat
    BY <1>1, <1>2, <2>1, DataMessage DEF Request, IInv
  <2>3. /\ \A c \in Backends \ {b} : Stays(c)
        /\ s \in Symbols /\ Unsent(b, s) = op[b].left
        /\ \A r \in Symbols : Unsent(b, r)' = IF r = s THEN op[b].left - k ELSE Unsent(b, r)
    BY <1>1, <1>2, <1>5, <2>2, RemainUnsent
  <2>4. Appends(s, m)
    BY <1>5, <2>1 DEF Stored, Appends
  <2>5. ASSUME NEW r \in Symbols
        PROVE  Unsent(b, r) = Unsent(b, r)' + (IF m.type = "CUSTOM" /\ s = r THEN m.n ELSE 0)
    <3>1. Unsent(b, r) \in Int
      BY FlowTypes DEF FlowType
    <3>2. CASE r = s
      BY <1>3, <2>2, <2>3, <3>2
    <3>3. CASE r # s
      BY <2>3, <3>1, <3>3
    <3>4. QED
      BY <3>2, <3>3
  <2>6. QED
    BY <1>1, <1>5, <2>2, <2>3, <2>4, <2>5, PutConserves
<1>6. QED
  BY <1>2, <1>4, <1>5 DEF PutData

LEMMA SendDoneConserves ==
    ASSUME IInv, IInv', Conserved, NEW b \in Backends, SendDone(b)
    PROVE  Conserved'
<1>1. /\ UNCHANGED <<queue, batch, collector, calls>> /\ pc[b] = "send" /\ Busy(b) = {}
  BY DEF SendDone, channel, history
<1>2. SessionType /\ op[b].current = NoSymbol /\ OpAt(b)
      /\ op[b].name \in {"dump", "delete", "tick", "exit"}
  BY <1>1, AtRest DEF IInv, SessionInv, OpAt
<1>3. /\ op' = op \/ op' = [op EXCEPT ![b] = NoOp]
      /\ probes' = probes \/ probes' = [probes EXCEPT ![b] = [s \in Symbols |-> NoProbe]]
      /\ \E l : Goto(b, l)
  BY DEF SendDone
<1>4. op'[b].current = NoSymbol
  BY <1>2, <1>3 DEF SessionType, NoOp
<1>5. \A c \in Backends \ {b} : Stays(c)
  BY <1>2, <1>3 DEF SessionType, Stays, Goto
<1>6. ASSUME NEW r \in Symbols PROVE Unsent(b, r)' = Unsent(b, r)
  <2>1. CASE probes' = probes
    BY <1>2, <1>4, <2>1, UnsentSame
  <2>2. CASE probes' = [probes EXCEPT ![b] = [s \in Symbols |-> NoProbe]]
    <3>1. op'[b].current # r /\ op[b].current # r
      BY <1>2, <1>4, UnsentIs
    <3>2. r \notin Shared(b)'
      BY <1>2, <2>2 DEF SessionType, Shared, Has
    <3>3. Unsent(b, r)' = 0
      BY <3>1, <3>2 DEF Unsent
    <3>4. Unsent(b, r) = 0
      <4>1. CASE r \notin Shared(b)
        BY <1>2, <4>1, UnsentIs
      <4>2. CASE r \in Shared(b)
        <5>1. probes[b][r] \in Probe
          BY <4>2, AtRest
        <5>2. ~(probes[b][r].count > 0) \/ r \notin op[b].todo
          BY <1>1 DEF Busy
        <5>3. r \in op[b].todo \/ probes[b][r].count = 0
          BY <1>2, <3>1, <4>2 DEF OpAt
        <5>4. probes[b][r].count = 0
          BY <5>1, <5>2, <5>3 DEF Probe
        <5>5. QED
          BY <1>2, <4>2, <5>4, UnsentIs
      <4>3. QED
        BY <4>1, <4>2
    <3>5. QED
      BY <3>3, <3>4
  <2>3. QED
    BY <1>3, <2>1, <2>2
<1>7. QED
  BY <1>1, <1>5, <1>6, QuietConserves

LEMMA PutsConserve ==
    ASSUME IInv, IInv', Conserved, NEW b \in Backends, PutNew(b) \/ PutWrite(b) \/ PutDelete(b)
    PROVE  Conserved'
<1>1. PICK m : \/ pc[b] = "putNew" /\ m = [type |-> "NEW", kind |-> op[b].kind]
               \/ pc[b] = "putWrite" /\ m = [type |-> "WRITE", from |-> b, flag |-> op[b].flag]
               \/ pc[b] = "putDelete" /\ m = [type |-> "DELETE", from |-> b, flag |-> op[b].flag]
  BY DEF PutNew, PutWrite, PutDelete
<1>2. /\ Put(b, op[b].symbol, m)
      /\ UNCHANGED <<batch, collector, probes, op, calls>> /\ \E l : Goto(b, l)
  <2>1. CASE PutNew(b)
    BY <1>1, <2>1 DEF PutNew, history
  <2>2. CASE PutWrite(b)
    BY <1>1, <2>2 DEF PutWrite, history
  <2>3. CASE PutDelete(b)
    BY <1>1, <2>3 DEF PutDelete, history
  <2>4. QED
    BY <2>1, <2>2, <2>3
<1>3. op[b].symbol \in Symbols /\ m \in Request /\ m.type # "CUSTOM"
  <2>1. CASE pc[b] = "putNew"
    <3>1. m = [type |-> "NEW", kind |-> op[b].kind]
      BY <1>1, <2>1
    <3>2. op[b].symbol \in Symbols /\ m \in Message
      BY <2>1, <3>1, NewMessage DEF IInv
    <3>3. m.type = "NEW"
      BY <3>1
    <3>4. QED
      BY <3>2, <3>3 DEF Request
  <2>2. CASE pc[b] \in {"putWrite", "putDelete"}
    <3>1. \/ m = [type |-> "WRITE", from |-> b, flag |-> op[b].flag]
          \/ m = [type |-> "DELETE", from |-> b, flag |-> op[b].flag]
      BY <1>1, <2>2
    <3>2. op[b].symbol \in Symbols /\ m \in Message
      BY <2>2, <3>1, RequestMessage DEF IInv
    <3>3. m.type \in {"WRITE", "DELETE"}
      BY <3>1
    <3>4. QED
      BY <3>2, <3>3 DEF Request
  <2>3. QED
    BY <1>1, <2>1, <2>2
<1>4. op[b].current = NoSymbol /\ SessionType
  BY <1>1, AtRest DEF IInv, SessionInv
<1>5. \A c \in Backends \ {b} : Stays(c)
  BY <1>2, <1>4 DEF Stays, Goto, SessionType
<1>6. \A r \in Symbols : Unsent(b, r)' = Unsent(b, r)
  BY <1>2, <1>4, UnsentSame
<1>7. CASE Stored(b, op[b].symbol, m)
  <2>1. Appends(op[b].symbol, m)
    BY <1>7 DEF Stored, Appends
  <2>2. \A r \in Symbols : Unsent(b, r) \in Int
    BY FlowTypes DEF FlowType
  <2>3. \A r \in Symbols :
           Unsent(b, r) = Unsent(b, r)' + (IF m.type = "CUSTOM" /\ op[b].symbol = r THEN m.n ELSE 0)
    BY <1>3, <1>6, <2>2
  <2>4. UNCHANGED <<batch, storages, currentSymbol, reported, missed, calls>>
    BY <1>2 DEF collector
  <2>5. PICK a \in Symbols : a = op[b].symbol
    BY <1>3
  <2>6. \A r \in Symbols :
           Unsent(b, r) = Unsent(b, r)' + (IF m.type = "CUSTOM" /\ a = r THEN m.n ELSE 0)
    BY <2>3, <2>5
  <2>7. QED
    BY <1>3, <1>5, <2>1, <2>4, <2>5, <2>6, PutConserves
<1>8. CASE UNCHANGED <<queue, latch>>
  BY <1>2, <1>5, <1>6, <1>8, QuietConserves
<1>9. QED
  BY <1>2, <1>7, <1>8 DEF Put

LEMMA FinishKeeps ==
    ASSUME IInv, NEW b \in Backends, Finish(b)
    PROVE  /\ op'[b].current = NoSymbol
           /\ \A c \in Backends \ {b} : op'[c] = op[c] /\ pc'[c] = pc[c]
  BY DEF IInv, SessionInv, SessionType, Finish, Goto, NoOp

LEMMA SaveConserves ==
    ASSUME IInv, IInv', Conserved, NEW b \in Backends, SaveInConfig(b)
    PROVE  Conserved'
<1>1. /\ UNCHANGED <<queue, batch, collector, calls>> /\ pc[b] = "save"
  BY DEF SaveInConfig, channel
<1>2. /\ op[b].current = NoSymbol /\ SessionType /\ op[b].symbol \in Symbols
      /\ ~Has(b, op[b].symbol)
  BY <1>1, AtRest DEF IInv, SessionInv, OpAt
<1>3. CASE SetProbe(b, op[b].symbol, NewProbe(op[b].kind, TRUE)) /\ Finish(b)
  <2>1. PICK s \in Symbols : s = op[b].symbol
    BY <1>2
  <2>2. /\ \A c \in Backends \ {b} : probes'[c] = probes[c]
        /\ \A r \in Symbols \ {s} : probes'[b][r] = probes[b][r]
        /\ probes'[b][s].count = 0
    BY <1>2, <1>3, <2>1 DEF SetProbe, SessionType, NewProbe
  <2>3. /\ op'[b].current = NoSymbol
        /\ \A c \in Backends \ {b} : Stays(c)
    BY <1>3, <2>2, FinishKeeps DEF Stays
  <2>4. ASSUME NEW r \in Symbols PROVE Unsent(b, r)' = Unsent(b, r)
    <3>1. op'[b].current # r /\ op[b].current # r
      BY <1>2, <2>3, UnsentIs
    <3>2. CASE r = s
      <4>1. Unsent(b, r)' = 0
        BY <2>2, <3>1, <3>2 DEF Unsent
      <4>2. Unsent(b, r) = 0
        BY <1>2, <2>1, <3>1, <3>2 DEF Unsent, Shared
      <4>3. QED
        BY <4>1, <4>2
    <3>3. CASE r # s
      BY <2>2, <3>1, <3>3 DEF Unsent, Shared, Has
    <3>4. QED
      BY <3>2, <3>3
  <2>5. QED
    BY <1>1, <2>3, <2>4, QuietConserves
<1>4. CASE Goto(b, "putDelete") /\ UNCHANGED <<probes, op, latch>>
  <2>1. \A c \in Backends \ {b} : Stays(c)
    BY <1>2, <1>4 DEF Stays, Goto, SessionType
  <2>2. QED
    BY <1>1, <1>2, <1>4, <2>1, UnsentSame, QuietConserves
<1>5. QED
  BY <1>3, <1>4 DEF SaveInConfig

LEMMA FinishConserves ==
    ASSUME IInv, IInv', Conserved, NEW b \in Backends, DeleteFromConfig(b) \/ WaitLatch(b)
    PROVE  Conserved'
<1>1. /\ UNCHANGED <<queue, batch, collector, calls, probes>> /\ pc[b] \in {"unsave", "wait"}
  BY DEF DeleteFromConfig, WaitLatch, channel, history
<1>2. op[b].current = NoSymbol /\ SessionType
  BY <1>1, AtRest DEF IInv, SessionInv
<1>3. CASE Finish(b)
  <2>1. op'[b].current = NoSymbol /\ \A c \in Backends \ {b} : Stays(c)
    BY <1>1, <1>3, FinishKeeps DEF Stays
  <2>2. QED
    BY <1>1, <1>2, <2>1, UnsentSame, QuietConserves
<1>4. CASE Goto(b, "wait") /\ UNCHANGED <<op, latch>>
  <2>1. \A c \in Backends \ {b} : Stays(c)
    BY <1>1, <1>2, <1>4 DEF Stays, Goto, SessionType
  <2>2. QED
    BY <1>1, <1>2, <1>4, <2>1, UnsentSame, QuietConserves
<1>5. QED
  BY <1>3, <1>4 DEF DeleteFromConfig, WaitLatch

LEMMA AbortConserves ==
    ASSUME IInv, IInv', Conserved, NEW b \in Backends, Abort(b)
    PROVE  Conserved'
<1>1. /\ UNCHANGED <<queue, batch, storages, currentSymbol, reported, calls, probes>>
      /\ Finish(b)
  BY DEF Abort, channel
<1>2. op'[b].current = NoSymbol /\ \A c \in Backends \ {b} : Stays(c)
  BY <1>1, FinishKeeps DEF Stays
<1>3. CASE pc[b] # "putData"
  <2>1. op[b].current = NoSymbol /\ UNCHANGED collector
    BY <1>1, <1>3, AtRest DEF Abort, collector
  <2>2. QED
    BY <1>1, <1>2, <2>1, UnsentSame, QuietConserves
<1>4. CASE pc[b] = "putData"
  <2>1. PICK s : s = op[b].current
    OBVIOUS
  <2>2. s \in Shared(b) /\ op[b].left \in Int /\ (probes[b][s].type = "TIME" => probes[b][s].count = 0)
    BY <1>4, <2>1, AtRest DEF OpAt, OpSet
  <2>3. s \in Symbols /\ probes[b][s].count \in Int
    <3>1. s \in Symbols /\ probes[b][s] \in Probe
      BY <2>2, SharedType, AtRest
    <3>2. QED
      BY <3>1 DEF Probe
  <2>4. PICK n \in Int : n = op[b].left - probes[b][s].count
    BY <2>2, <2>3
  <2>5. Miss(s, b, n)
    <3>1. Miss(s, b, IF probes[b][s].type = "TIME" THEN op[b].left
                     ELSE op[b].left - probes[b][s].count)
      BY <1>4, <2>1 DEF Abort
    <3>2. CASE probes[b][s].type = "TIME"
      <4>1. n = op[b].left
        BY <2>2, <2>4, <3>2
      <4>2. QED
        BY <3>1, <3>2, <4>1
    <3>3. CASE probes[b][s].type # "TIME"
      BY <2>4, <3>1, <3>3
    <3>4. QED
      BY <3>2, <3>3
  <2>6. /\ missed'[s][b] = missed[s][b] + n
        /\ \A r \in Symbols, c \in Backends : r # s \/ c # b => missed'[r][c] = missed[r][c]
    BY <2>3, <2>4, <2>5, MissType DEF IInv, CollectorInv, CollectorTypeOK
  <2>7. \A c \in Backends \ {b} :
           Stays(c) /\ \A r \in Symbols : calls'[c][r] = calls[c][r] /\ missed'[r][c] = missed[r][c]
    BY <1>1, <1>2, <2>6
  <2>8. ASSUME NEW r \in Symbols
        PROVE  calls'[b][r] + Unsent(b, r) + missed[r][b]
                  = calls[b][r] + Unsent(b, r)' + missed'[r][b]
    <3>1. calls[b][r] \in Int /\ Unsent(b, r) \in Int /\ missed[r][b] \in Int
          /\ calls'[b][r] = calls[b][r]
      BY <1>1, FlowTypes DEF FlowType
    <3>2. op'[b].current # r
      BY <1>2, UnsentIs
    <3>3. CASE r = s
      <4>1. Unsent(b, r) = op[b].left
        BY <2>1, <2>3, <3>3, UnsentIs
      <4>2. Unsent(b, r)' = probes[b][s].count
        BY <1>1, <2>2, <3>2, <3>3 DEF Unsent, Shared, Has
      <4>3. QED
        BY <2>2, <2>3, <2>4, <2>6, <3>1, <3>3, <4>1, <4>2
    <3>4. CASE r # s
      <4>1. Unsent(b, r)' = Unsent(b, r)
        BY <1>1, <2>1, <3>2, <3>4 DEF Unsent, Shared, Has
      <4>2. QED
        BY <2>6, <3>1, <3>4, <4>1
    <3>5. QED
      BY <3>3, <3>4
  <2>9. QED
    BY <1>1, <2>7, <2>8, SessionConserves
<1>5. QED
  BY <1>3, <1>4

-----------------------------------------------------------------------------
\* The steps of the collector.

LEMMA KeptConserves ==
    ASSUME IInv, IInv', Conserved, UNCHANGED <<probes, op, calls>>,
           \A b \in Backends, s \in Symbols :
              InTransit(b, s) + Known(b, s) = InTransit(b, s)' + Known(b, s)'
    PROVE  Conserved'
<1>1. SUFFICES ASSUME NEW b \in Backends, NEW s \in Symbols
               PROVE  (calls[b][s] = Unsent(b, s) + InTransit(b, s) + Known(b, s))'
  BY DEF Conserved
<1>2. Unsent(b, s)' = Unsent(b, s)
  BY DEF Unsent, Shared, Has
<1>3. Unsent(b, s) \in Int /\ InTransit(b, s) \in Int /\ Known(b, s) \in Int
  BY FlowTypes DEF FlowType, Known
<1>4. InTransit(b, s)' \in Int /\ Known(b, s)' \in Int
  <2>1. FlowType'
    BY FlowTypes, PTL
  <2>2. QED
    BY <2>1 DEF FlowType, Known
<1>5. calls[b][s] = Unsent(b, s) + InTransit(b, s) + Known(b, s)
  BY DEF Conserved
<1>6. calls[b][s] = Unsent(b, s) + InTransit(b, s)' + Known(b, s)'
  <2>1. PICK u, i, k, j, l \in Int :
           /\ u = Unsent(b, s) /\ i = InTransit(b, s) /\ k = Known(b, s)
           /\ j = InTransit(b, s)' /\ l = Known(b, s)'
    BY <1>3, <1>4
  <2>2. i + k = j + l /\ calls[b][s] = u + i + k
    BY <1>5, <2>1
  <2>3. calls[b][s] = u + j + l
    BY <2>2
  <2>4. QED
    BY <2>1, <2>3
<1>7. QED
  BY <1>2, <1>6

\* The message processed leaves, and the names of the others stay the same.
LEMMA TakenMessage ==
    ASSUME IInv, Process, NEW b \in Backends, NEW s \in Symbols
    PROVE  LET m == Head(batch)
           IN  InTransit(b, s) =
                 (IF m.type = "CUSTOM" /\ m.from = b /\ currentSymbol = s THEN m.n ELSE 0)
                   + InTransit(b, s)'
<1> DEFINE m == Head(batch)
<1>1. /\ batch \in Seq(Message) /\ queue \in Seq(Message) /\ batch # <<>>
      /\ Transit \in Seq(Message) /\ UNCHANGED queue /\ batch' = Tail(batch)
      /\ ProcessOneMessage(m) /\ m \in Message /\ PairInv
  BY TransitType, ProcessesFresh DEF IInv, CollectorInv, ChannelType, Process
<1>2. Transit # <<>> /\ Transit' = Tail(Transit) /\ m = Head(Transit)
  BY <1>1, Transits DEF Transit
<1>3. m = Transit[1] /\ Tail(Transit) \in Seq(Message)
  BY <1>1, <1>2, OneTaken
<1> HIDE DEF m
<1>4. InTransit(b, s) =
         (IF m.type = "CUSTOM" /\ m.from = b /\ currentSymbol = s THEN m.n ELSE 0)
            + Amount(Tail(Transit), m.symbol, b, s)
  BY <1>1, <1>2, <1>3, AmountOfTail DEF InTransit
<1>5. Amount(Tail(Transit), m.symbol, b, s) = Amount(Tail(Transit), currentSymbol', b, s)
  <2>1. CASE m.type = "SYMBOL"
    BY <1>1, <2>1 DEF ProcessOneMessage, ProcessSymbol
  <2>2. CASE m.type # "SYMBOL"
    <3>1. StartsNamed(Tail(batch)) /\ StartsNamed(queue)
      BY <1>1, <2>2, TailPaired DEF PairInv, m
    <3>2. Tail(batch) \in Seq(Message) /\ Transit' = Tail(batch) \o queue
      BY <1>1, OneTaken DEF Transit
    <3>3. StartsNamed(Tail(batch) \o queue)
      <4>1. CASE Tail(batch) = <<>>
        <5>1. <<>> \o queue = queue
          BY <1>1, Transits
        <5>2. QED
          BY <3>1, <4>1, <5>1
      <4>2. CASE Tail(batch) # <<>>
        <5>1. Head(Tail(batch) \o queue) = Head(Tail(batch))
          BY <1>1, <3>2, <4>2, Transits
        <5>2. QED
          BY <3>1, <4>2, <5>1 DEF StartsNamed
      <4>3. QED
        BY <4>1, <4>2
    <3>4. StartsNamed(Tail(Transit))
      BY <1>2, <3>2, <3>3
    <3>5. PICK tr, d, e : tr = Tail(Transit) /\ d = m.symbol /\ e = currentSymbol'
      OBVIOUS
    <3>6. tr \in Seq(Message) /\ StartsNamed(tr)
      BY <1>3, <3>4, <3>5
    <3>7. Amount(tr, d, b, s) = Amount(tr, e, b, s)
      BY <3>6, AmountNamed
    <3>8. QED
      BY <3>5, <3>7
  <2>3. QED
    BY <2>1, <2>2
<1>6. InTransit(b, s)' = Amount(Tail(Transit), currentSymbol', b, s)
  BY <1>2 DEF InTransit
<1>7. QED
  BY <1>4, <1>5, <1>6 DEF m

\* Where the totals of the collector are.
LEMMA StorageTotal ==
    ASSUME IInv, NEW b \in Backends, NEW s \in Symbols
    PROVE  /\ Present(s) => storages[s] \in Storage /\ storages[s].total \in Counts
                            /\ Stocked(b, s) = storages[s].total[b]
           /\ ~Present(s) => Stocked(b, s) = 0
           /\ reported[s] \in Counts /\ missed[s] \in [Backends -> Int]
           /\ Nothing[b] = 0
<1>1. Present(s) => storages[s] \in Storage
  BY DEF IInv, CollectorInv, CollectorTypeOK, Present
<1>2. reported[s] \in Counts /\ missed[s] \in [Backends -> Int]
  BY DEF IInv, CollectorInv, CollectorTypeOK
<1>3. QED
  BY <1>1, <1>2 DEF Storage, Stocked, Nothing

LEMMA PlusIs ==
    /\ \A c, d \in [Backends -> Int], b \in Backends : Plus(c, d)[b] = c[b] + d[b]
    /\ \A b, c \in Backends, n \in Nat : Only(c, n)[b] = IF b = c THEN n ELSE 0
  BY DEF Plus, Only

LEMMA ProcessConserves ==
    ASSUME IInv, IInv', Conserved, Process
    PROVE  Conserved'
<1> DEFINE m == Head(batch)
           x == currentSymbol
<1>1. /\ ProcessOneMessage(m) /\ m \in Message
      /\ m.type = "SYMBOL" \/ Fresh
      /\ UNCHANGED <<probes, op, calls>>
  BY ProcessesFresh DEF Process, IInv, history
<1>2. CollectorTypeOK
  BY DEF IInv, CollectorInv
<1>3. SUFFICES ASSUME NEW b \in Backends, NEW s \in Symbols
               PROVE  InTransit(b, s) + Known(b, s) = InTransit(b, s)' + Known(b, s)'
  BY <1>1, KeptConserves
<1>4. InTransit(b, s) =
         (IF m.type = "CUSTOM" /\ m.from = b /\ x = s THEN m.n ELSE 0) + InTransit(b, s)'
  BY TakenMessage
<1>5. /\ InTransit(b, s) \in Int /\ Stocked(b, s) \in Int /\ reported[s][b] \in Int
      /\ missed[s][b] \in Int
  BY FlowTypes DEF FlowType
<1>6. /\ InTransit(b, s)' \in Int /\ Stocked(b, s)' \in Int /\ reported'[s][b] \in Int
      /\ missed'[s][b] \in Int
  <2>1. FlowType'
    BY FlowTypes, PTL
  <2>2. QED
    BY <2>1 DEF FlowType
<1> HIDE DEF m, x
<1>7. ASSUME m.type # "CUSTOM",
             Stocked(b, s)' + reported'[s][b] + missed'[s][b]
                = Stocked(b, s) + reported[s][b] + missed[s][b]
      PROVE  InTransit(b, s) + Known(b, s) = InTransit(b, s)' + Known(b, s)'
  <2>1. InTransit(b, s) = InTransit(b, s)'
    BY <1>4, <1>6, <1>7
  <2>2. QED
    BY <1>7, <2>1 DEF Known
<1>8. CASE m.type = "SYMBOL"
  <2>1. UNCHANGED <<storages, reported, missed>>
    BY <1>1, <1>8 DEF ProcessOneMessage, ProcessSymbol
  <2>2. QED
    BY <1>7, <1>8, <2>1 DEF Stocked, Present
<1>9. CASE m.type = "NEW"
  <2>1. ProcessNewSharedUprobe(m) /\ x \in Symbols
    BY <1>1, <1>9 DEF ProcessOneMessage, Fresh, x
  <2>2. UNCHANGED <<reported, missed>>
    BY <2>1 DEF ProcessNewSharedUprobe
  <2>3. Stocked(b, s)' = Stocked(b, s)
    <3>1. CASE storages'[s] = storages[s]
      BY <3>1 DEF Stocked, Present
    <3>2. CASE storages'[s] # storages[s]
      <4>1. ~Present(s) /\ storages'[s] = NewStorage(m.kind)
        BY <1>2, <2>1, <3>2 DEF ProcessNewSharedUprobe, CollectorTypeOK, x
      <4>2. storages'[s].total[b] = 0
        BY <4>1 DEF NewStorage, Nothing
      <4>3. QED
        BY <4>1, <4>2 DEF Stocked, Present
    <3>3. QED
      BY <3>1, <3>2
  <2>4. QED
    BY <1>7, <1>9, <2>2, <2>3
<1>10. CASE m.type = "WRITE"
  <2>1. PICK o : ProcessWriteStat(m, o)
    BY <1>1, <1>10 DEF ProcessOneMessage
  <2>2. UNCHANGED missed /\ Fresh
    BY <1>1, <1>10, <2>1 DEF ProcessWriteStat
  <2>3. CASE UNCHANGED <<reported, storages>>
    BY <1>7, <1>10, <2>2, <2>3 DEF Stocked, Present
  <2>4. CASE /\ currentStorage = "live"
             /\ reported' = [reported EXCEPT ![currentSymbol] =
                               Plus(@, storages[currentSymbol].total)]
             /\ storages' = [storages EXCEPT ![currentSymbol].total = Nothing]
    <3>1. Present(x) /\ x \in Symbols
      BY <2>2, <2>4 DEF Fresh, x
    <3>2. /\ storages'[x].total = Nothing /\ storages'[x] # NoStorage
          /\ \A r \in Symbols \ {x} : storages'[r] = storages[r]
      BY <1>2, <2>4, <3>1, TotalType, PlusType DEF x
    <3>3. CASE s = x
      <4>1. Stocked(b, s) = storages[s].total[b] /\ Stocked(b, s)' = 0
        BY <3>1, <3>2, <3>3, StorageTotal DEF Stocked, Present
      <4>2. reported'[s] = Plus(reported[s], storages[s].total)
        BY <1>2, <2>4, <3>1, <3>3 DEF CollectorTypeOK, x
      <4>3. reported[s] \in [Backends -> Int] /\ storages[s].total \in [Backends -> Int]
        BY <3>1, <3>3, StorageTotal, PlusType
      <4>4. reported'[s][b] = reported[s][b] + Stocked(b, s)
        BY <4>1, <4>2, <4>3 DEF Plus
      <4>5. Stocked(b, s)' + reported'[s][b] + missed'[s][b]
               = Stocked(b, s) + reported[s][b] + missed[s][b]
        BY <1>5, <2>2, <4>1, <4>4
      <4>6. QED
        BY <1>7, <1>10, <4>5
    <3>4. CASE s # x
      <4>1. Stocked(b, s)' = Stocked(b, s) /\ reported'[s] = reported[s]
        BY <1>2, <2>4, <3>1, <3>2, <3>4 DEF Stocked, Present, CollectorTypeOK, x
      <4>2. QED
        BY <1>7, <1>10, <2>2, <4>1
    <3>5. QED
      BY <3>3, <3>4
  <2>5. QED
    BY <2>1, <2>3, <2>4 DEF ProcessWriteStat
<1>11. CASE m.type = "DELETE"
  <2>1. PICK o : ProcessDeleteSharedUprobe(m, o)
    BY <1>1, <1>11 DEF ProcessOneMessage
  <2>2. Fresh
    BY <1>1, <1>11
  <2>3. CASE ~Present(x)
    <3>1. UNCHANGED collector
      BY <2>1, <2>3 DEF ProcessDeleteSharedUprobe, x
    <3>2. QED
      BY <1>7, <1>11, <3>1 DEF Stocked, Present, collector
  <2>4. CASE Present(x)
    <3>1. x \in Symbols
      BY <2>2 DEF Fresh, x
    <3>2. /\ storages' = [storages EXCEPT ![x] = NoStorage]
          /\ \/ /\ reported' = [reported EXCEPT ![x] = Plus(@, storages[x].total)]
                /\ UNCHANGED missed
             \/ /\ missed' = [missed EXCEPT ![x] = Plus(@, storages[x].total)]
                /\ UNCHANGED reported
      BY <2>1, <2>4 DEF ProcessDeleteSharedUprobe, x
    <3>3. CASE s = x
      <4>1. Stocked(b, s) = storages[s].total[b] /\ Stocked(b, s)' = 0
        BY <1>2, <2>4, <3>1, <3>2, <3>3, StorageTotal DEF Stocked, Present, CollectorTypeOK
      <4>2. /\ reported[s] \in [Backends -> Int] /\ missed[s] \in [Backends -> Int]
            /\ storages[s].total \in [Backends -> Int]
        BY <2>4, <3>3, StorageTotal, PlusType
      <4>3. \/ reported'[s] = Plus(reported[s], storages[s].total) /\ missed'[s] = missed[s]
            \/ missed'[s] = Plus(missed[s], storages[s].total) /\ reported'[s] = reported[s]
        BY <1>2, <3>1, <3>2, <3>3 DEF CollectorTypeOK
      <4>4. \/ reported'[s][b] = reported[s][b] + Stocked(b, s) /\ missed'[s][b] = missed[s][b]
            \/ missed'[s][b] = missed[s][b] + Stocked(b, s) /\ reported'[s][b] = reported[s][b]
        BY <4>1, <4>2, <4>3 DEF Plus
      <4>5. Stocked(b, s)' + reported'[s][b] + missed'[s][b]
               = Stocked(b, s) + reported[s][b] + missed[s][b]
        BY <1>5, <4>1, <4>4
      <4>6. QED
        BY <1>7, <1>11, <4>5
    <3>4. CASE s # x
      <4>1. storages'[s] = storages[s] /\ reported'[s] = reported[s] /\ missed'[s] = missed[s]
        BY <1>2, <3>1, <3>2, <3>4 DEF CollectorTypeOK
      <4>2. QED
        BY <1>7, <1>11, <4>1 DEF Stocked, Present
    <3>5. QED
      BY <3>3, <3>4
  <2>5. QED
    BY <2>3, <2>4
<1>12. CASE m.type = "CUSTOM"
  <2>1. ProcessCustom(m) /\ Fresh /\ m.from \in Backends /\ m.n \in Nat /\ UNCHANGED reported
    BY <1>1, <1>12, MessageTypes DEF ProcessOneMessage, ProcessCustom
  <2>2. x \in Symbols
    BY <2>1 DEF Fresh, x
  <2>3. PICK n \in Int : n = IF m.from = b /\ x = s THEN m.n ELSE 0
    BY <2>1
  <2>4. InTransit(b, s) = n + InTransit(b, s)'
    BY <1>4, <1>12, <2>3
  <2>5. PICK more \in Counts : more = Only(m.from, m.n)
    BY <2>1, PlusType
  <2>6. more \in [Backends -> Int] /\ (s = x => more[b] = n)
    BY <2>1, <2>3, <2>5, PlusType, PlusIs
  <2>7. CASE currentStorage = "live"
    <3>1. Present(x)
      BY <2>1, <2>7 DEF Fresh, x
    <3>2. storages' = [storages EXCEPT ![currentSymbol].total =
                          Plus(storages[currentSymbol].total, more)] /\ UNCHANGED missed
      BY <2>1, <2>5, <2>7 DEF ProcessCustom
    <3>3. storages[x].total \in Counts /\ storages[x].total \in [Backends -> Int]
          /\ Plus(storages[x].total, more) \in Counts
      BY <2>2, <3>1, StorageTotal, PlusType
    <3>4. /\ storages'[x].total = Plus(storages[x].total, more) /\ storages'[x] # NoStorage
          /\ \A r \in Symbols \ {x} : storages'[r] = storages[r]
      BY <1>2, <2>2, <3>1, <3>2, <3>3, TotalType DEF x
    <3>5. Stocked(b, s)' = Stocked(b, s) + n
      <4>1. CASE s = x
        <5>1. Stocked(b, s) = storages[x].total[b]
          BY <3>1, <4>1, StorageTotal
        <5>2. Stocked(b, s)' = storages'[x].total[b]
          BY <3>4, <4>1 DEF Stocked, Present
        <5>3. QED
          BY <2>6, <3>3, <3>4, <4>1, <5>1, <5>2, PlusIs
      <4>2. CASE s # x
        BY <1>5, <2>3, <3>4, <4>2 DEF Stocked, Present
      <4>3. QED
        BY <4>1, <4>2
    <3>6. QED
      BY <1>5, <1>6, <2>1, <2>4, <3>2, <3>5 DEF Known
  <2>8. CASE currentStorage # "live"
    <3>1. missed' = [missed EXCEPT ![x] = Plus(@, more)] /\ UNCHANGED storages
      BY <2>1, <2>5, <2>8 DEF ProcessCustom, x
    <3>2. missed'[s][b] = missed[s][b] + n
      <4>1. CASE s = x
        <5>1. missed[s] \in [Backends -> Int] /\ missed'[s] = Plus(missed[s], more)
          BY <1>2, <2>2, <3>1, <4>1 DEF CollectorTypeOK
        <5>2. QED
          BY <2>6, <4>1, <5>1, PlusIs
      <4>2. CASE s # x
        <5>1. missed'[s] = missed[s] /\ n = 0
          BY <1>2, <2>2, <2>3, <3>1, <4>2 DEF CollectorTypeOK
        <5>2. QED
          BY <1>5, <5>1
      <4>3. QED
        BY <4>1, <4>2
    <3>3. Stocked(b, s)' = Stocked(b, s)
      BY <3>1 DEF Stocked, Present
    <3>4. QED
      BY <1>5, <1>6, <2>1, <2>4, <3>2, <3>3 DEF Known
  <2>9. QED
    BY <2>7, <2>8
<1>13. QED
  BY <1>1, <1>8, <1>9, <1>10, <1>11, <1>12, MessageTypes

LEMMA EndsConserves ==
    ASSUME IInv, IInv', Conserved, Stop \/ CollectorFails
    PROVE  Conserved'
<1>1. /\ Ends /\ UNCHANGED <<queue, probes, op, calls>>
  BY DEF Stop, CollectorFails, history
<1>2. /\ CollectorTypeOK /\ ChannelType /\ PairInv
      /\ batch \in Seq(Message) /\ queue \in Seq(Message) /\ StartsNamed(queue)
  BY DEF IInv, CollectorInv, ChannelType, PairInv
<1>3. SUFFICES ASSUME NEW b \in Backends, NEW s \in Symbols
               PROVE  InTransit(b, s) + Known(b, s) = InTransit(b, s)' + Known(b, s)'
  BY <1>1, KeptConserves
<1>4. InTransit(b, s) = InBatch(b, s) + InTransit(b, s)'
  <2>1. InTransit(b, s) = Amount(batch, currentSymbol, b, s) + Amount(queue, currentSymbol', b, s)
    BY <1>2, AmountJoined DEF InTransit, Transit
  <2>2. InBatch(b, s) = Amount(batch, currentSymbol, b, s)
    BY <1>2, InBatchIsAmount
  <2>3. Transit' = queue
    <3>1. batch' = <<>> /\ queue' = queue
      BY <1>1 DEF Ends
    <3>2. <<>> \o queue = queue
      BY <1>2, Transits
    <3>3. QED
      BY <3>1, <3>2 DEF Transit
  <2>4. InTransit(b, s)' = Amount(queue, currentSymbol', b, s)
    BY <2>3 DEF InTransit
  <2>5. QED
    BY <2>1, <2>2, <2>4
<1> DEFINE dropped == [r \in Symbols |-> [c \in Backends |-> InBatch(c, r)]]
           total(r) == IF Present(r) THEN storages[r].total ELSE Nothing
<1>5. /\ storages' = [r \in Symbols |-> NoStorage]
      /\ \E written : /\ reported' = [r \in Symbols |->
                            IF r \in written THEN Plus(reported[r], total(r)) ELSE reported[r]]
                      /\ missed' = [r \in Symbols |-> Plus(missed[r], Plus(dropped[r],
                            IF r \in written THEN Nothing ELSE total(r)))]
  BY <1>1 DEF Ends, WriteAllAtExit
<1>6. dropped[s][b] = InBatch(b, s) /\ total(s)[b] = Stocked(b, s)
  BY StorageTotal DEF Stocked
<1> HIDE DEF dropped, total
<1>7. PICK written : /\ reported' = [r \in Symbols |->
                            IF r \in written THEN Plus(reported[r], total(r)) ELSE reported[r]]
                     /\ missed' = [r \in Symbols |-> Plus(missed[r], Plus(dropped[r],
                            IF r \in written THEN Nothing ELSE total(r)))]
  BY <1>5
<1>8. Stocked(b, s)' = 0
  BY <1>5 DEF Stocked, Present
<1>9. /\ InTransit(b, s) \in Int /\ Stocked(b, s) \in Int /\ reported[s][b] \in Int
      /\ missed[s][b] \in Int /\ InBatch(b, s) \in Int
  BY <1>2, FlowTypes, InBatchType DEF FlowType
<1>10. InTransit(b, s)' \in Int
  <2>1. FlowType'
    BY FlowTypes, PTL
  <2>2. QED
    BY <2>1 DEF FlowType
<1>11. reported'[s][b] + missed'[s][b]
          = Stocked(b, s) + reported[s][b] + (missed[s][b] + InBatch(b, s))
  <2>1. CASE s \in written
    <3>1. /\ reported'[s] = Plus(reported[s], total(s))
          /\ missed'[s] = Plus(missed[s], Plus(dropped[s], Nothing))
      BY <1>7, <2>1
    <3>2. /\ reported'[s][b] = reported[s][b] + total(s)[b]
          /\ missed'[s][b] = missed[s][b] + (dropped[s][b] + Nothing[b])
      BY <3>1 DEF Plus
    <3>3. Nothing[b] = 0
      BY DEF Nothing
    <3>4. QED
      BY <1>6, <1>9, <3>2, <3>3
  <2>2. CASE s \notin written
    <3>1. /\ reported'[s] = reported[s]
          /\ missed'[s] = Plus(missed[s], Plus(dropped[s], total(s)))
      BY <1>7, <2>2
    <3>2. missed'[s][b] = missed[s][b] + (dropped[s][b] + total(s)[b])
      BY <3>1 DEF Plus
    <3>3. QED
      BY <1>6, <1>9, <3>1, <3>2
  <2>3. QED
    BY <2>1, <2>2
<1>12. Known(b, s)' = reported'[s][b] + missed'[s][b]
  <2>1. FlowType'
    BY FlowTypes, PTL
  <2>2. reported'[s][b] \in Int /\ missed'[s][b] \in Int
    BY <2>1 DEF FlowType
  <2>3. Known(b, s)' = 0 + reported'[s][b] + missed'[s][b]
    BY <1>8 DEF Known
  <2>4. QED
    BY <2>2, <2>3
<1>13. QED
  BY <1>4, <1>9, <1>10, <1>11, <1>12 DEF Known

LEMMA StartStatCollectorConserves ==
    ASSUME IInv, IInv', Conserved, StartStatCollector
    PROVE  Conserved'
<1>1. /\ UNCHANGED <<queue, batch, currentSymbol, reported, missed, probes, op, calls>>
      /\ worker = "failed"
      /\ storages' = StoragesFor(config) \/ storages' = StoragesFor(NoConfig)
  BY DEF StartStatCollector, backend
<1>2. SUFFICES ASSUME NEW b \in Backends, NEW s \in Symbols
               PROVE  InTransit(b, s) + Known(b, s) = InTransit(b, s)' + Known(b, s)'
  BY <1>1, KeptConserves
<1>3. Stocked(b, s) = 0
  BY <1>1 DEF IInv, CollectorInv, IdleWorker, Stocked
<1>4. Stocked(b, s)' = 0
  BY <1>1 DEF StoragesFor, NewStorage, Nothing, Stocked, Present
<1>5. InTransit(b, s)' = InTransit(b, s)
  BY <1>1 DEF InTransit, Transit
<1>6. QED
  BY <1>1, <1>3, <1>4, <1>5 DEF Known

LEMMA TakeBatchConserves ==
    ASSUME IInv, IInv', Conserved, TakeBatch
    PROVE  Conserved'
<1>1. /\ UNCHANGED <<collector, probes, op, calls>>
      /\ batch = <<>> /\ batch' = queue /\ queue' = <<>> /\ queue \in Seq(Message)
  BY DEF TakeBatch, history, IInv, CollectorInv, ChannelType
<1>2. Transit' = Transit
  BY <1>1, Transits DEF Transit
<1>3. \A b \in Backends, s \in Symbols : InTransit(b, s)' = InTransit(b, s) /\ Known(b, s)' = Known(b, s)
  BY <1>1, <1>2 DEF InTransit, Known, Stocked, Present, collector
<1>4. QED
  BY <1>1, <1>3, KeptConserves

-----------------------------------------------------------------------------
LEMMA InitConserved ==
    ASSUME Init
    PROVE  Conserved
<1>1. IInv
  BY InitIInv
<1>2. SUFFICES ASSUME NEW b \in Backends, NEW s \in Symbols
               PROVE  calls[b][s] = Unsent(b, s) + InTransit(b, s) + Known(b, s)
  BY DEF Conserved
<1>3. calls[b][s] = 0 /\ reported[s][b] = 0 /\ missed[s][b] = 0
  BY DEF Init, CollectorInit, Nothing
<1>4. Unsent(b, s) = 0
  BY UnsentIs DEF Init, NoOp, Shared, Has
<1>5. Stocked(b, s) = 0
  BY DEF Init, CollectorInit, StoragesFor, NewStorage, Nothing, Stocked, Present
<1>6. InTransit(b, s) = 0
  <2>1. Transit = <<>>
    BY DEF Init, Transit
  <2>2. DOMAIN Transit = {}
    BY <2>1
  <2>3. QED
    BY <2>2, SumEmpty DEF InTransit, Amount
<1>7. QED
  BY <1>3, <1>4, <1>5, <1>6 DEF Known

LEMMA ConservedStep ==
    ASSUME IInv, IInv', Conserved, [Next]_vars
    PROVE  Conserved'
<1>1. ASSUME NEW b \in Backends, NEW s \in Symbols,
             Call(b, s) \/ (\E t \in Types, f \in BOOLEAN : SetUprobe(b, s, t, f))
                \/ (\E f \in BOOLEAN : DeleteUprobe(b, s, f))
      PROVE  Conserved'
  BY <1>1, CallConserves, SetUprobeConserves, DeleteUprobeConserves
<1>2. ASSUME NEW b \in Backends, BackendStep(b)
      PROVE  Conserved'
  BY <1>2, SendNextConserves, PutDataConserves, SendDoneConserves, PutsConserve, SaveConserves,
     FinishConserves DEF BackendStep
<1>3. CASE TakeBatch \/ Process \/ Stop \/ CollectorFails \/ StartStatCollector
  BY <1>3, TakeBatchConserves, ProcessConserves, EndsConserves, StartStatCollectorConserves
<1>4. ASSUME NEW b \in Backends,
             \/ Connect(b) \/ Disconnect(b) \/ TimedStatSend(b) \/ Abort(b)
             \/ \E s \in Symbols, f \in BOOLEAN : DumpUprobeStat(b, s, f)
      PROVE  Conserved'
  BY <1>4, ConnectConserves, StartConserves, AbortConserves
<1>5. CASE UNCHANGED vars
  <2>1. UNCHANGED <<queue, batch, collector, calls, probes, op>>
    BY <1>5 DEF vars, channel, backend, history
  <2>2. \A b \in Backends, s \in Symbols : InTransit(b, s)' = InTransit(b, s) /\ Known(b, s)' = Known(b, s)
    BY <2>1 DEF InTransit, Transit, Known, Stocked, Present, collector
  <2>3. QED
    BY <2>1, <2>2, KeptConserves
<1>6. QED
  BY <1>1, <1>2, <1>3, <1>4, <1>5 DEF Next

\* Every call a shared probe counted is in one place: with the probe, in a message, in
\* a storage, in a report, or among those dropped where the code says so; whatever the
\* sessions do, and with cancelled queries, a collector that fails and one stopped.
THEOREM CallsAreConserved == Spec => []Conservation
<1>1. Init => Conserved
  BY InitConserved
<1>2. IInv /\ IInv' /\ Conserved /\ [Next]_vars => Conserved'
  BY ConservedStep
<1>3. IInv /\ Conserved => Conservation
  <2>1. SUFFICES ASSUME IInv, Conserved PROVE Conservation
    OBVIOUS
  <2>2. \A b \in Backends, s \in Symbols : Sent(b, s) = InTransit(b, s)
    BY <2>1, SentIsAmount DEF InTransit, IInv, CollectorInv
  <2>3. QED
    BY <2>1, <2>2 DEF Conserved, Conservation
<1>4. Spec => []IInv
  BY Invariance
<1>5. QED
  BY <1>1, <1>2, <1>3, <1>4, PTL DEF Spec
===============================================================================
