----------------------- MODULE SessionTraceDocumentProofs -----------------------
(***************************************************************************)
(* Proofs about the trace file: what is written token by token, that the   *)
(* brackets that are open are those of the executions on the stack, and    *)
(* with it the types of all that SessionTrace has.                         *)
(***************************************************************************)
EXTENDS SessionTraceProofs, SetInduction

-----------------------------------------------------------------------------
\* What is written, token by token.

Token == {"file", "{", "[", "member", "event", ",", "]", "}"}

\* The fold over tokens takes the last one of a set of positions first.
LEMMA LargestOf ==
    ASSUME NEW n \in Nat, NEW T, T \subseteq 1 .. n, T # {}
    PROVE  Max(T) \in T /\ \A x \in T : x <= Max(T)
<1> DEFINE U == {n - x : x \in T}
<1>1. \A x \in T : x \in Nat /\ n - x \in Nat
  OBVIOUS
<1>2. U \subseteq Nat /\ U # {}
  BY <1>1
<1>3. PICK u \in U : \A v \in U : u <= v
  <2> HIDE DEF U
  <2>1. QED
    BY <1>2, LeastOfSet
<1>4. PICK y \in T : u = n - y
  OBVIOUS
<1>5. \A x \in T : n - y <= n - x
  BY <1>3, <1>4
<1>6. \A x \in T : y >= x /\ x <= y
  BY <1>1, <1>5
<1>7. Max(T) \in T /\ \A x \in T : Max(T) >= x
  BY <1>4, <1>6 DEF Max
<1>8. QED
  BY <1>1, <1>7

\* g is the function by which the fold is defined.
Reading(d, tokens, g) ==
    g = [s \in SUBSET DOMAIN tokens |->
           IF s = {} THEN d ELSE Read(g[s \ {Max(s)}], tokens[Max(s)])]

\* There is such a function, for any tokens.
LEMMA ReadingExists ==
    ASSUME NEW d, NEW tokens, NEW l \in Nat, DOMAIN tokens = 1 .. l
    PROVE  \E g : Reading(d, tokens, g)
<1> DEFINE S == DOMAIN tokens
           Body(g, s) == IF s = {} THEN d ELSE Read(g[s \ {Max(s)}], tokens[Max(s)])
           N == {n \in Nat : \E g : \A s \in SUBSET S : Cardinality(s) <= n => g[s] = Body(g, s)}
<1>0. IsFiniteSet(S)
  BY FS_Interval
<1>1. \A T \in SUBSET S : IsFiniteSet(T) /\ Cardinality(T) \in Nat
  BY <1>0, FS_Subset, FS_CardinalityType
<1>a. \A T \in SUBSET S : T # {} => Max(T) \in T
  BY LargestOf
<1>2. 0 \in N
  <2> DEFINE g == [s \in SUBSET S |-> d]
  <2>1. ASSUME NEW s \in SUBSET S, Cardinality(s) <= 0
        PROVE  g[s] = Body(g, s)
    <3>1. Cardinality(s) = 0
      BY <1>1, <2>1
    <3>2. s = {}
      BY <1>1, <3>1, FS_EmptySet
    <3>3. QED
      BY <3>2
  <2>2. QED
    BY <2>1
<1>3. ASSUME NEW n \in Nat, n \in N PROVE n + 1 \in N
  <2>1. PICK g : \A s \in SUBSET S : Cardinality(s) <= n => g[s] = Body(g, s)
    BY <1>3
  <2> DEFINE h == [s \in SUBSET S |-> IF Cardinality(s) <= n THEN g[s] ELSE Body(g, s)]
  <2>2. ASSUME NEW s \in SUBSET S, Cardinality(s) <= n + 1
        PROVE  h[s] = Body(h, s)
    <3>1. CASE s = {}
      <4>1. Cardinality(s) <= n /\ h[s] = g[s]
        BY <3>1, FS_EmptySet
      <4>2. QED
        BY <2>1, <3>1, <4>1
    <3>2. CASE s # {}
      <4> DEFINE t == s \ {Max(s)}
      <4>1. Max(s) \in s /\ t \in SUBSET S
        BY <1>a, <3>2
      <4>2. Cardinality(t) = Cardinality(s) - 1
        BY <1>1, <4>1, FS_RemoveElement
      <4>3. Cardinality(t) <= n /\ Cardinality(s) \in Nat
        BY <1>1, <2>2, <4>2
      <4>4. h[t] = g[t]
        BY <4>1, <4>3
      <4>5. h[s] = Body(g, s)
        BY <2>1
      <4>6. QED
        BY <3>2, <4>4, <4>5
    <3>3. QED
      BY <3>1, <3>2
  <2> HIDE DEF h
  <2> HIDE DEF Body
  <2>3. n + 1 \in Nat /\ \E k : \A s \in SUBSET S : Cardinality(s) <= n + 1 => k[s] = Body(k, s)
    BY <2>2
  <2>4. QED
    BY <2>3
<1> HIDE DEF N
<1>4. \A n \in Nat : n \in N
  BY <1>2, <1>3, InductionOnSet
<1>5. Cardinality(S) \in N
  BY <1>1, <1>4
<1>6. PICK g : \A s \in SUBSET S : Cardinality(s) <= Cardinality(S) => g[s] = Body(g, s)
  BY <1>5 DEF N
<1>7. \A s \in SUBSET S : Cardinality(s) <= Cardinality(S)
  BY <1>0, FS_Subset
<1> DEFINE h == [s \in SUBSET S |-> g[s]]
<1>8. ASSUME NEW s \in SUBSET S
      PROVE  h[s] = Body(h, s)
  <2>1. s \ {Max(s)} \in SUBSET S
    OBVIOUS
  <2>2. QED
    BY <1>6, <1>7, <2>1
<1>9. h = [s \in SUBSET S |-> Body(h, s)]
  <2>1. h = [s \in SUBSET S |-> h[s]]
    OBVIOUS
  <2> HIDE DEF h, Body
  <2>2. QED
    BY <1>8, <2>1
<1> HIDE DEF h
<1>10. QED
  BY <1>9 DEF Reading

\* The fold of the library by that function.
LEMMA WriteReads ==
    ASSUME NEW d, NEW tokens, NEW l \in Nat, DOMAIN tokens = 1 .. l
    PROVE  \E g : Reading(d, tokens, g) /\ Write(d, tokens) = g[DOMAIN tokens]
<1> DEFINE g == CHOOSE h : Reading(d, tokens, h)
<1>1. Reading(d, tokens, g)
  BY ReadingExists
<1>2. Write(d, tokens) = g[DOMAIN tokens]
  BY DEF Write, FoldLeft, MapThenFoldSet, Reading
<1>3. QED
  BY <1>1, <1>2

\* The document after the first k tokens.
After(g, k) == g[1 .. k]
ReadsAll(d, tokens, g) ==
    /\ After(g, 0) = d
    /\ \A k \in Nat : k < Len(tokens) => After(g, k + 1) = Read(After(g, k), tokens[k + 1])

\* The first token, and each next one.
LEMMA ReadingSteps ==
    ASSUME NEW d, NEW tokens \in Seq(Token), NEW g, Reading(d, tokens, g)
    PROVE  ReadsAll(d, tokens, g)
<1> DEFINE l == Len(tokens)
<1>0. l \in Nat /\ DOMAIN tokens = 1 .. l
  OBVIOUS
<1> HIDE DEF l
<1>1. 1 .. 0 = {}
  OBVIOUS
<1>2. After(g, 0) = d
  BY <1>1 DEF Reading, After
<1>3. ASSUME NEW k \in Nat, k < l
      PROVE  After(g, k + 1) = Read(After(g, k), tokens[k + 1])
  <2> DEFINE s == 1 .. k + 1
  <2>a. k + 1 \in Nat /\ 1 <= k + 1
    OBVIOUS
  <2>b. k + 1 \in s
    BY <2>a
  <2>c. \A x \in s : x <= k + 1
    BY <2>a
  <2>1. s \subseteq 1 .. k + 1 /\ s # {} /\ k + 1 \in Nat /\ k + 1 \in s
    BY <2>a, <2>b
  <2>2. Max(s) \in s /\ \A x \in s : x <= Max(s)
    BY <2>1, LargestOf
  <2>3. Max(s) = k + 1
    <3>1. Max(s) \in Nat /\ Max(s) <= k + 1 /\ k + 1 <= Max(s)
      BY <2>a, <2>b, <2>c, <2>2
    <3> HIDE DEF s
    <3>2. QED
      BY <2>a, <3>1
  <2>4. s \ {k + 1} = 1 .. k /\ s \in SUBSET DOMAIN tokens
    BY <1>0, <1>3
  <2> HIDE DEF s
  <2>5. g[s] = Read(g[s \ {Max(s)}], tokens[Max(s)])
    BY <2>1, <2>4 DEF Reading
  <2>6. QED
    BY <2>3, <2>4, <2>5 DEF s, After
<1>4. QED
  BY <1>2, <1>3 DEF ReadsAll, l

\* Writing is reading one token after the other.
LEMMA WriteSteps ==
    ASSUME NEW d, NEW tokens \in Seq(Token), NEW more \in Seq(Token),
           Len(tokens) <= Len(more), \A i \in 1 .. Len(tokens) : more[i] = tokens[i]
    PROVE  \E g : /\ ReadsAll(d, more, g)
                  /\ Write(d, more) = After(g, Len(more))
                  /\ Write(d, tokens) = After(g, Len(tokens))
<1>1. /\ Len(tokens) \in Nat /\ DOMAIN tokens = 1 .. Len(tokens)
      /\ Len(more) \in Nat /\ DOMAIN more = 1 .. Len(more)
  OBVIOUS
<1>2. PICK g : Reading(d, more, g) /\ Write(d, more) = g[DOMAIN more]
  BY <1>1, WriteReads
<1>3. PICK h : Reading(d, tokens, h) /\ Write(d, tokens) = h[DOMAIN tokens]
  BY <1>1, WriteReads
<1>4. ReadsAll(d, more, g)
  BY <1>2, ReadingSteps
<1>5. ReadsAll(d, tokens, h)
  BY <1>3, ReadingSteps
<1> DEFINE N == {k \in Nat : k <= Len(tokens) => After(g, k) = After(h, k)}
<1>6. 0 \in N
  BY <1>4, <1>5 DEF ReadsAll
<1>7. ASSUME NEW k \in Nat, k \in N PROVE k + 1 \in N
  <2>1. SUFFICES ASSUME k + 1 <= Len(tokens) PROVE After(g, k + 1) = After(h, k + 1)
    OBVIOUS
  <2>2. k < Len(tokens) /\ k < Len(more) /\ k <= Len(tokens) /\ k + 1 \in 1 .. Len(tokens)
    BY <1>1, <2>1
  <2>3. more[k + 1] = tokens[k + 1] /\ After(g, k) = After(h, k)
    BY <1>7, <2>2
  <2>4. QED
    BY <1>4, <1>5, <2>2, <2>3 DEF ReadsAll
<1> HIDE DEF N
<1>8. Len(tokens) \in N
  BY <1>1, <1>6, <1>7, InductionOnSet
<1>9. After(g, Len(tokens)) = After(h, Len(tokens))
  BY <1>1, <1>8 DEF N
<1>10. QED
  BY <1>1, <1>2, <1>3, <1>4, <1>9 DEF After

\* The last of these documents is what is written.
LEMMA WriteAll ==
    ASSUME NEW d, NEW tokens \in Seq(Token)
    PROVE  \E g : ReadsAll(d, tokens, g) /\ Write(d, tokens) = After(g, Len(tokens))
<1>1. Len(tokens) <= Len(tokens) /\ \A i \in 1 .. Len(tokens) : tokens[i] = tokens[i]
  OBVIOUS
<1>2. QED
  BY <1>1, WriteSteps

LEMMA WriteNothing == \A d : Write(d, <<>>) = d
<1>1. ASSUME NEW d, NEW tokens \in Seq(Token), Len(tokens) = 0
      PROVE  Write(d, tokens) = d
  <2>1. PICK g : ReadsAll(d, tokens, g) /\ Write(d, tokens) = After(g, Len(tokens))
    BY WriteAll
  <2>2. QED
    BY <1>1, <2>1 DEF ReadsAll
<1>2. <<>> \in Seq(Token) /\ Len(<<>>) = 0
  OBVIOUS
<1>3. QED
  BY <1>1, <1>2

\* One more token.
LEMMA WriteAppended ==
    ASSUME NEW d, NEW tokens \in Seq(Token), NEW t \in Token
    PROVE  Write(d, Append(tokens, t)) = Read(Write(d, tokens), t)
<1> DEFINE more == Append(tokens, t)
<1>1. /\ more \in Seq(Token) /\ Len(tokens) \in Nat /\ Len(more) = Len(tokens) + 1
      /\ \A i \in 1 .. Len(tokens) : more[i] = tokens[i]
      /\ more[Len(tokens) + 1] = t
  OBVIOUS
<1>2. Len(tokens) <= Len(more) /\ Len(tokens) < Len(more)
  BY <1>1
<1> HIDE DEF more
<1>3. PICK g : /\ ReadsAll(d, more, g)
               /\ Write(d, more) = After(g, Len(more))
               /\ Write(d, tokens) = After(g, Len(tokens))
  BY <1>1, <1>2, WriteSteps
<1>4. QED
  BY <1>1, <1>2, <1>3 DEF more, ReadsAll

\* What holds of a document and is kept by each token, holds of what is written.
LEMMA WriteKeeps ==
    ASSUME NEW D, NEW d \in D, NEW tokens \in Seq(Token),
           \A e \in D, t \in Token : Read(e, t) \in D
    PROVE  Write(d, tokens) \in D
<1>1. PICK g : /\ ReadsAll(d, tokens, g)
               /\ Write(d, tokens) = After(g, Len(tokens))
  BY WriteAll
<1> DEFINE N == {k \in Nat : k <= Len(tokens) => After(g, k) \in D}
<1>2. Len(tokens) \in Nat /\ \A k \in 1 .. Len(tokens) : tokens[k] \in Token
  OBVIOUS
<1>3. 0 \in N
  BY <1>1 DEF ReadsAll
<1>4. ASSUME NEW k \in Nat, k \in N PROVE k + 1 \in N
  <2>1. SUFFICES ASSUME k + 1 <= Len(tokens) PROVE After(g, k + 1) \in D
    OBVIOUS
  <2>2. k < Len(tokens) /\ k <= Len(tokens) /\ k + 1 \in 1 .. Len(tokens)
    BY <1>2, <2>1
  <2>3. After(g, k) \in D /\ tokens[k + 1] \in Token
    BY <1>2, <1>4, <2>2
  <2>4. After(g, k + 1) = Read(After(g, k), tokens[k + 1])
    BY <1>1, <2>2 DEF ReadsAll
  <2>5. QED
    BY <2>3, <2>4
<1> HIDE DEF N
<1>5. Len(tokens) \in N
  BY <1>2, <1>3, <1>4, InductionOnSet
<1>6. QED
  BY <1>1, <1>2, <1>5 DEF N

\* What is written in two parts.
LEMMA WriteJoined ==
    ASSUME NEW d, NEW p \in Seq(Token), NEW q \in Seq(Token)
    PROVE  Write(d, p \o q) = Write(Write(d, p), q)
<1> DEFINE m == Len(p)
           n == Len(q)
           more == p \o q
<1>1. /\ m \in Nat /\ n \in Nat /\ more \in Seq(Token) /\ Len(more) = m + n
      /\ \A i \in 1 .. m : more[i] = p[i]
      /\ \A i \in 1 .. n : more[m + i] = q[i]
  OBVIOUS
<1> HIDE DEF more
<1>a. m <= Len(more)
  BY <1>1
<1>2. PICK g : /\ ReadsAll(d, more, g)
               /\ Write(d, more) = After(g, Len(more))
               /\ Write(d, p) = After(g, m)
  BY <1>1, <1>a, WriteSteps
<1>d. PICK e : e = Write(d, p)
  OBVIOUS
<1>3. PICK h : /\ ReadsAll(e, q, h)
               /\ Write(e, q) = After(h, n)
  BY WriteAll
<1>c. \A k \in Nat : k < n => After(h, k + 1) = Read(After(h, k), q[k + 1])
  BY <1>3 DEF ReadsAll
<1> HIDE DEF m, n
<1> DEFINE N == {k \in Nat : k <= n => After(g, m + k) = After(h, k)}
<1>4. 0 \in N
  BY <1>1, <1>2, <1>3, <1>d DEF ReadsAll
<1>5. ASSUME NEW k \in Nat, k \in N PROVE k + 1 \in N
  <2>1. SUFFICES ASSUME k + 1 <= n PROVE After(g, m + (k + 1)) = After(h, k + 1)
    OBVIOUS
  <2>2. /\ k < n /\ k <= n /\ k + 1 \in 1 .. n
        /\ m + k \in Nat /\ m + k < m + n /\ m + (k + 1) = (m + k) + 1
    BY <1>1, <2>1
  <2>3. more[(m + k) + 1] = q[k + 1] /\ After(g, m + k) = After(h, k)
    BY <1>1, <1>5, <2>2
  <2>4. After(g, (m + k) + 1) = Read(After(g, m + k), more[(m + k) + 1])
    BY <1>1, <1>2, <2>2 DEF ReadsAll
  <2>5. QED
    BY <1>c, <2>2, <2>3, <2>4
<1> HIDE DEF N
<1>6. n \in N
  BY <1>1, <1>4, <1>5, InductionOnSet
<1>7. After(g, m + n) = After(h, n)
  BY <1>1, <1>6 DEF N
<1>8. QED
  BY <1>1, <1>2, <1>3, <1>7, <1>d DEF more

-----------------------------------------------------------------------------
\* Tokens and documents.

Brackets == {"file", "queries", "query", "events"}

\* A bracket opened and closed.
LEMMA StackEnds ==
    ASSUME NEW s \in Seq(Brackets)
    PROVE  /\ \A b \in Brackets : /\ Append(s, b) \in Seq(Brackets) /\ Append(s, b) # <<>>
                                  /\ Last(Append(s, b)) = b /\ Front(Append(s, b)) = s
           /\ s # <<>> => Front(s) \in Seq(Brackets)
<1>1. ASSUME NEW b \in Brackets
      PROVE  /\ Append(s, b) \in Seq(Brackets) /\ Append(s, b) # <<>>
             /\ Last(Append(s, b)) = b /\ Front(Append(s, b)) = s
  BY DEF Last, Front
<1>2. s # <<>> => Front(s) \in Seq(Brackets)
  BY DEF Front
<1>3. QED
  BY <1>1, <1>2

\* A token is put into its place or makes the document not ok.  It never takes back
\* that a document is not ok or has a stray comma.
LEMMA ReadType ==
    ASSUME NEW d \in Document, NEW t
    PROVE  /\ Read(d, t) \in Document
           /\ Read(d, t).ok => d.ok
           /\ d.stray => Read(d, t).stray
           /\ Read(d, t).full = d.full
<1>1. /\ d.stack \in Seq(Brackets) /\ d.last \in {"open", "value", "comma"}
      /\ d.ok \in BOOLEAN /\ d.stray \in BOOLEAN /\ d.full \in BOOLEAN
  BY DEF Document, Brackets
<1> DEFINE Kept(e) == /\ e \in Document /\ (e.ok => d.ok) /\ (d.stray => e.stray)
                      /\ e.full = d.full
<1>2. Kept(d) /\ Kept([d EXCEPT !.ok = FALSE]) /\ Kept([d EXCEPT !.last = "comma"])
      /\ Kept([d EXCEPT !.last = "comma", !.stray = TRUE]) /\ Kept(Value(d))
  BY DEF Document, Value
<1>3. ASSUME NEW b \in Brackets
      PROVE  Kept(Open(d, b))
  <2>1. Append(d.stack, b) \in Seq(Brackets)
    BY <1>1
  <2>2. QED
    BY <2>1 DEF Open, Document, Brackets
<1>4. d.stack # <<>> => Kept(Close(d))
  <2>1. d.stack # <<>> => Front(d.stack) \in Seq(Brackets)
    BY <1>1, StackEnds
  <2>2. QED
    BY <2>1 DEF Close, Document, Brackets
<1>5. Kept(Open(Open(d, "file"), "queries"))
  <2>1. Append(Append(d.stack, "file"), "queries") \in Seq(Brackets)
    BY <1>1 DEF Brackets
  <2>2. QED
    BY <2>1 DEF Open, Document, Brackets
<1>6. Inner(d) # "none" => d.stack # <<>>
  BY DEF Inner
<1>7. {"query", "events"} \subseteq Brackets
  BY DEF Brackets
<1> HIDE DEF Kept
<1>8. Kept(Read(d, t))
  BY <1>2, <1>3, <1>4, <1>5, <1>6, <1>7 DEF Read
<1>9. QED
  BY <1>8 DEF Kept

\* The same of any number of tokens.
LEMMA WriteType ==
    ASSUME NEW d \in Document, NEW tokens \in Seq(Token)
    PROVE  /\ Write(d, tokens) \in Document
           /\ Write(d, tokens).ok => d.ok
           /\ d.stray => Write(d, tokens).stray
           /\ Write(d, tokens).full = d.full
<1> DEFINE D == {e \in Document : /\ e.ok => d.ok
                                  /\ d.stray => e.stray
                                  /\ e.full = d.full}
<1>1. d \in D
  OBVIOUS
<1>2. ASSUME NEW e \in D, NEW t \in Token
      PROVE  Read(e, t) \in D
  BY ReadType
<1> HIDE DEF D
<1>3. Write(d, tokens) \in D
  BY <1>1, <1>2, WriteKeeps
<1>4. QED
  BY <1>3 DEF D

\* Output that is cut off is as good as all of it.
LEMMA PrintedType ==
    ASSUME NEW d \in Document, NEW tokens \in Seq(Token), NEW limited,
           NEW e \in Printed(d, tokens, limited)
    PROVE  /\ e \in Document
           /\ \/ d.full /\ e = d
              \/ ~d.full /\ e = Write(d, tokens)
              \/ /\ ~d.full /\ e.full
                 /\ Write(d, tokens).ok => e.ok
                 /\ e.stray => Write(d, tokens).stray
<1>1. CASE d.full
  BY <1>1 DEF Printed
<1>2. CASE ~d.full /\ e = Write(d, tokens)
  BY <1>2, WriteType
<1>3. CASE ~d.full /\ \E k \in 1 .. Len(tokens) : e = CutAt(d, tokens, k)
  <2>1. PICK k \in 1 .. Len(tokens) : e = CutAt(d, tokens, k)
    BY <1>3
  <2> DEFINE p == SubSeq(tokens, 1, k)
             q == SubSeq(tokens, k + 1, Len(tokens))
  <2>2. p \in Seq(Token) /\ q \in Seq(Token) /\ tokens = p \o q
    OBVIOUS
  <2> HIDE DEF p, q
  <2> DEFINE w == Write(d, p)
  <2>3. w \in Document
    BY <2>2, WriteType
  <2>4. Write(d, tokens) = Write(w, q)
    BY <2>2, WriteJoined
  <2> HIDE DEF w
  <2>5. (Write(w, q).ok => w.ok) /\ (w.stray => Write(w, q).stray)
    BY <2>2, <2>3, WriteType
  <2>6. e = [w EXCEPT !.full = TRUE]
    BY <2>1 DEF CutAt, w, p
  <2>7. e \in Document /\ e.full /\ e.ok = w.ok /\ e.stray = w.stray
    BY <2>3, <2>6 DEF Document
  <2>8. QED
    BY <1>3, <2>4, <2>5, <2>7
<1>4. QED
  BY <1>1, <1>2, <1>3 DEF Printed

-----------------------------------------------------------------------------
\* The brackets that are open.

\* The brackets that are open when n traced executions are under way, and when one more has
\* begun or ended.
Nest(n) == [i \in 1 .. 2 * n + 2 |->
              IF i = 1 THEN "file" ELSE IF i = 2 THEN "queries"
              ELSE IF i % 2 = 1 THEN "query" ELSE "events"]
Inside(n) == Append(Nest(n), "query")

\* A document that is in order.
Doc(stack, last, stray) ==
    [stack |-> stack, last |-> last, ok |-> TRUE, stray |-> stray, full |-> FALSE]

\* Tuples as sequences.
LEMMA Tuples ==
    ASSUME NEW S
    PROVE  /\ \A x \in S : Append(<<>>, x) = <<x>>
           /\ \A x, y \in S : Append(<<x>>, y) = <<x, y>>
<1> SUFFICES ASSUME NEW x \in S, NEW y \in S
             PROVE  Append(<<>>, x) = <<x>> /\ Append(<<x>>, y) = <<x, y>>
  OBVIOUS
<1> DEFINE e == <<>>
           o == <<x>>
           p == <<x, y>>
<1>1. e \in Seq(S) /\ Len(e) = 0
  OBVIOUS
<1>2. o \in Seq(S) /\ Len(o) = 1 /\ o[1] = x
  OBVIOUS
<1>3. p \in Seq(S) /\ Len(p) = 2 /\ p[1] = x /\ p[2] = y
  OBVIOUS
<1> HIDE DEF o, p, e
<1>4. Append(e, x) \in Seq(S) /\ Len(Append(e, x)) = 1 /\ Append(e, x)[1] = x
  BY <1>1
<1>5. Append(o, y) \in Seq(S) /\ Len(Append(o, y)) = 2
      /\ Append(o, y)[1] = x /\ Append(o, y)[2] = y
  <2>1. Append(o, y) \in Seq(S)
    BY <1>2
  <2>2. Len(Append(o, y)) = 2
    BY <1>2
  <2>3. Append(o, y)[1] = x
    BY <1>2
  <2>4. Append(o, y)[2] = y
    <3>1. Append(o, y)[Len(o) + 1] = y
      BY <1>2, AppendProperties
    <3>2. Len(o) + 1 = 2
      BY <1>2
    <3>3. QED
      BY <3>1, <3>2
  <2>5. QED
    BY <2>1, <2>2, <2>3, <2>4
<1>6. o = Append(e, x)
  <2>1. \A i \in 1 .. 1 : i = 1
    OBVIOUS
  <2>2. \A i \in 1 .. Len(o) : o[i] = Append(e, x)[i]
    BY <1>2, <1>4, <2>1
  <2>3. QED
    BY <1>2, <1>4, <2>2, SeqEqual
<1>7. p = Append(o, y)
  <2>1. \A i \in 1 .. 2 : i = 1 \/ i = 2
    OBVIOUS
  <2>2. \A i \in 1 .. Len(p) : p[i] = Append(o, y)[i]
    BY <1>3, <1>5, <2>1
  <2>3. QED
    BY <1>3, <1>5, <2>2, SeqEqual
<1>8. QED
  BY <1>6, <1>7 DEF o, p, e

\* The innermost bracket.
LEMMA NestType ==
    ASSUME NEW n \in Nat
    PROVE  /\ Nest(n) \in Seq(Brackets) /\ Nest(n) # <<>>
           /\ Last(Nest(n)) = IF n = 0 THEN "queries" ELSE "events"
           /\ Inside(n) \in Seq(Brackets) /\ Inside(n) # <<>>
           /\ Last(Inside(n)) = "query" /\ Front(Inside(n)) = Nest(n)
<1>1. Nest(n) \in Seq(Brackets) /\ Len(Nest(n)) = 2 * n + 2
  BY DEF Nest, Brackets
<1>2. Nest(n) # <<>> /\ Last(Nest(n)) = Nest(n)[2 * n + 2]
  BY <1>1 DEF Last
<1>3. Nest(n)[2 * n + 2] = IF n = 0 THEN "queries" ELSE "events"
  <2>1. 2 * n + 2 \in 1 .. 2 * n + 2 /\ 2 * n + 2 # 1 /\ (2 * n + 2 = 2 <=> n = 0)
    OBVIOUS
  <2>2. (2 * n + 2) % 2 = 0
    OBVIOUS
  <2>3. QED
    BY <2>1, <2>2 DEF Nest
<1>4. "query" \in Brackets
  BY DEF Brackets
<1>5. QED
  BY <1>1, <1>2, <1>3, <1>4, StackEnds DEF Inside

\* An execution opens an object and an array.
LEMMA NestNext ==
    ASSUME NEW n \in Nat
    PROVE  /\ Nest(n + 1) = Append(Inside(n), "events")
           /\ Nest(0) = <<"file", "queries">>
<1> DEFINE m == 2 * n + 2
           s == Nest(n + 1)
           t == Append(Inside(n), "events")
<1>1. Nest(n) \in Seq(Brackets) /\ Len(Nest(n)) = m /\ m \in Nat
  BY DEF Nest, Brackets
<1>2. /\ t \in Seq(Brackets) /\ Len(t) = m + 2
      /\ \A i \in 1 .. m : t[i] = Nest(n)[i]
      /\ t[m + 1] = "query" /\ t[m + 2] = "events"
  BY <1>1 DEF Inside, Brackets
<1>3. 2 * (n + 1) + 2 = m + 2
  OBVIOUS
<1>4. /\ s \in Seq(Brackets) /\ Len(s) = m + 2
      /\ \A i \in 1 .. m + 2 : s[i] = IF i = 1 THEN "file" ELSE IF i = 2 THEN "queries"
                                      ELSE IF i % 2 = 1 THEN "query" ELSE "events"
  BY <1>3 DEF Nest, Brackets
<1>5. \A i \in 1 .. m : s[i] = Nest(n)[i]
  BY <1>1, <1>4 DEF Nest
<1>6. s[m + 1] = "query"
  <2>1. m + 1 \in 1 .. m + 2 /\ m + 1 # 1 /\ m + 1 # 2 /\ (m + 1) % 2 = 1
    OBVIOUS
  <2>2. QED
    BY <1>4, <2>1
<1>7. s[m + 2] = "events"
  <2>1. m + 2 \in 1 .. m + 2 /\ m + 2 # 1 /\ m + 2 # 2 /\ (m + 2) % 2 # 1
    OBVIOUS
  <2>2. QED
    BY <1>4, <2>1
<1>8. ASSUME NEW i \in 1 .. m + 2 PROVE s[i] = t[i]
  <2>1. i \in 1 .. m \/ i = m + 1 \/ i = m + 2
    BY <1>1
  <2>2. QED
    BY <1>2, <1>5, <1>6, <1>7, <2>1
<1> HIDE DEF s, t, m
<1>9. s = t
  BY <1>1, <1>2, <1>4, <1>8
<1>10. Nest(0) = <<"file", "queries">>
  <2>1. /\ Nest(0) \in Seq(Brackets) /\ Len(Nest(0)) = 2
        /\ Nest(0)[1] = "file" /\ Nest(0)[2] = "queries"
    BY DEF Nest, Brackets
  <2>2. QED
    BY <2>1
<1>11. QED
  BY <1>9, <1>10 DEF s, t

\* What each token does to a document in order.
LEMMA ReadOutside ==
    ASSUME NEW n \in Nat, NEW s \in BOOLEAN, NEW l \in {"open", "value", "comma"}
    PROVE  /\ l # "value" => Read(Doc(Nest(n), l, s), "{") = Doc(Inside(n), "open", s)
           /\ l # "value" /\ n > 0 => Read(Doc(Nest(n), l, s), "event") = Doc(Nest(n), "value", s)
           /\ l = "value" => Read(Doc(Nest(n), l, s), ",") = Doc(Nest(n), "comma", s)
           /\ l = "open" /\ n = 0 => Read(Doc(Nest(n), l, s), ",") = Doc(Nest(n), "comma", TRUE)
<1> DEFINE d == Doc(Nest(n), l, s)
<1>1. /\ d.ok /\ d.last = l /\ d.stack # <<>>
      /\ Inner(d) = IF n = 0 THEN "queries" ELSE "events"
  BY NestType DEF Doc, Inner
<1>2. l # "value" => Read(d, "{") = Open(d, "query")
  BY <1>1 DEF Read
<1>3. l # "value" /\ n > 0 => Read(d, "event") = Value(d)
  BY <1>1 DEF Read
<1>4. l = "value" => Read(d, ",") = [d EXCEPT !.last = "comma"]
  BY <1>1 DEF Read
<1>5. l = "open" /\ n = 0 => Read(d, ",") = [d EXCEPT !.last = "comma", !.stray = TRUE]
  BY <1>1 DEF Read
<1>6. QED
  BY <1>2, <1>3, <1>4, <1>5 DEF Doc, Open, Value, Inside

LEMMA ReadInside ==
    ASSUME NEW n \in Nat, NEW s \in BOOLEAN, NEW l \in {"open", "value", "comma"}
    PROVE  /\ l # "value" => Read(Doc(Inside(n), l, s), "member") = Doc(Inside(n), "value", s)
           /\ l # "value" => Read(Doc(Inside(n), l, s), "[") = Doc(Nest(n + 1), "open", s)
           /\ l = "value" => Read(Doc(Inside(n), l, s), ",") = Doc(Inside(n), "comma", s)
           /\ l # "comma" => Read(Doc(Inside(n), l, s), "}") = Doc(Nest(n), "value", s)
<1> DEFINE d == Doc(Inside(n), l, s)
<1>1. d.ok /\ d.last = l /\ d.stack # <<>> /\ Inner(d) = "query"
  BY NestType DEF Doc, Inner
<1>2. l # "value" => Read(d, "member") = Value(d) /\ Read(d, "[") = Open(d, "events")
  BY <1>1 DEF Read
<1>3. l = "value" => Read(d, ",") = [d EXCEPT !.last = "comma"]
  BY <1>1 DEF Read
<1>4. l # "comma" => Read(d, "}") = Close(d)
  BY <1>1 DEF Read
<1>5. QED
  BY <1>2, <1>3, <1>4, NestType, NestNext DEF Doc, Open, Value, Close

LEMMA ReadEnd ==
    ASSUME NEW n \in Nat, NEW s \in BOOLEAN, NEW l \in {"open", "value"}
    PROVE  /\ Read(Doc(Nest(n + 1), l, s), "]") = Doc(Inside(n), "value", s)
           /\ Read(Doc(Nest(0), l, s), "]") = Doc(<<"file">>, "value", s)
           /\ Read(Doc(<<"file">>, l, s), "}") = Doc(<<>>, "value", s)
           /\ Read(NoDocument, "file") = Doc(Nest(0), "open", FALSE)
<1>1. ASSUME NEW b \in Brackets, NEW st \in Seq(Brackets)
      PROVE  /\ Doc(Append(st, b), l, s).stack # <<>>
             /\ Inner(Doc(Append(st, b), l, s)) = b
             /\ Close(Doc(Append(st, b), l, s)) = Doc(st, "value", s)
  <2>1. /\ Append(st, b) # <<>> /\ Last(Append(st, b)) = b
        /\ Front(Append(st, b)) = st
    BY StackEnds
  <2> DEFINE a == Append(st, b)
  <2>2. a # <<>> /\ Last(a) = b /\ Front(a) = st
    BY <2>1
  <2> HIDE DEF a
  <2>3. Doc(a, l, s).stack = a
    BY DEF Doc
  <2>4. Inner(Doc(a, l, s)) = b
    BY <2>2, <2>3 DEF Inner
  <2>5. Close(Doc(a, l, s)) = Doc(st, "value", s)
    <3>1. Close(Doc(a, l, s)) = [Doc(a, l, s) EXCEPT !.stack = st, !.last = "value"]
      BY <2>2, <2>3 DEF Close
    <3>2. QED
      BY <3>1 DEF Doc
  <2>6. QED
    BY <2>2, <2>3, <2>4, <2>5 DEF a
<1>2. Doc(Nest(n + 1), l, s) = Doc(Append(Inside(n), "events"), l, s)
  BY NestNext
<1>3. Inside(n) \in Seq(Brackets) /\ <<>> \in Seq(Brackets) /\ <<"file">> \in Seq(Brackets)
  BY NestType DEF Brackets
<1>4. Read(Doc(Append(Inside(n), "events"), l, s), "]") = Doc(Inside(n), "value", s)
  <2>1. "events" \in Brackets
    BY DEF Brackets
  <2> DEFINE d == Doc(Append(Inside(n), "events"), l, s)
  <2>2. d.ok /\ d.last = l /\ Inner(d) = "events"
    BY <1>1, <1>3, <2>1 DEF Doc
  <2>3. Read(d, "]") = Close(d)
    BY <2>2 DEF Read
  <2>4. QED
    BY <1>1, <1>3, <2>1, <2>3
<1>5. Read(Doc(Nest(0), l, s), "]") = Doc(<<"file">>, "value", s)
  <2>0. Append(<<"file">>, "queries") = <<"file", "queries">>
    <3>1. "file" \in Brackets /\ "queries" \in Brackets
      BY DEF Brackets
    <3>2. QED
      BY <3>1, Tuples
  <2>1. "queries" \in Brackets /\ Nest(0) = Append(<<"file">>, "queries")
    BY <2>0, NestNext DEF Brackets
  <2> DEFINE d == Doc(Nest(0), l, s)
  <2>2. d.ok /\ d.last = l /\ Inner(d) = "queries"
    BY <1>1, <1>3, <2>1 DEF Doc
  <2>3. Read(d, "]") = Close(d)
    BY <2>2 DEF Read
  <2>4. QED
    BY <1>1, <1>3, <2>1, <2>3
<1>6. Read(Doc(<<"file">>, l, s), "}") = Doc(<<>>, "value", s)
  <2>1. "file" \in Brackets /\ <<"file">> = Append(<<>>, "file")
    BY DEF Brackets
  <2> DEFINE d == Doc(<<"file">>, l, s)
  <2>2. d.ok /\ d.last = l /\ Inner(d) = "file"
    BY <1>1, <1>3, <2>1 DEF Doc
  <2>3. Read(d, "}") = Close(d)
    BY <2>2 DEF Read
  <2>4. QED
    BY <1>1, <1>3, <2>1, <2>3
<1>7. Read(NoDocument, "file") = Doc(Nest(0), "open", FALSE)
  <2>1. NoDocument.ok /\ NoDocument.stack = <<>>
    BY DEF NoDocument
  <2>2. Read(NoDocument, "file") = Open(Open(NoDocument, "file"), "queries")
    BY <2>1 DEF Read
  <2>3. Nest(0) = Append(Append(<<>>, "file"), "queries")
    <3>1. "file" \in Brackets /\ "queries" \in Brackets
      BY DEF Brackets
    <3>2. Append(<<>>, "file") = <<"file">> /\ Append(<<"file">>, "queries") = <<"file", "queries">>
      BY <3>1, Tuples
    <3>3. QED
      BY <3>2, NestNext
  <2>4. QED
    BY <2>2, <2>3 DEF Open, NoDocument, Doc
<1>8. QED
  BY <1>2, <1>4, <1>5, <1>6, <1>7

-----------------------------------------------------------------------------
\* What is printed at once.

\* The elements of a tuple.
LEMMA Elements ==
    ASSUME NEW S
    PROVE  /\ \A a \in S : <<a>> \in Seq(S) /\ Len(<<a>>) = 1 /\ <<a>>[1] = a
           /\ \A a, b \in S :
                 /\ <<a, b>> \in Seq(S) /\ Len(<<a, b>>) = 2
                 /\ <<a, b>>[1] = a /\ <<a, b>>[2] = b
           /\ \A a, b, c \in S :
                 /\ <<a, b, c>> \in Seq(S) /\ Len(<<a, b, c>>) = 3
                 /\ <<a, b, c>>[1] = a /\ <<a, b, c>>[2] = b /\ <<a, b, c>>[3] = c
           /\ \A a, b, c, e \in S :
                 LET t == <<a, b, c, e>>
                 IN  /\ t \in Seq(S) /\ Len(t) = 4
                     /\ t[1] = a /\ t[2] = b /\ t[3] = c /\ t[4] = e
           /\ \A a, b, c, e, f, h \in S :
                 LET t == <<a, b, c, e, f, h>>
                 IN  /\ t \in Seq(S) /\ Len(t) = 6
                     /\ t[1] = a /\ t[2] = b /\ t[3] = c /\ t[4] = e /\ t[5] = f /\ t[6] = h
  OBVIOUS

\* Up to six tokens, one after the other.
LEMMA WriteFew ==
    ASSUME NEW d
    PROVE  /\ \A a \in Token : Write(d, <<a>>) = Read(d, a)
           /\ \A a, b \in Token : Write(d, <<a, b>>) = Read(Read(d, a), b)
           /\ \A a, b, c \in Token : Write(d, <<a, b, c>>) = Read(Read(Read(d, a), b), c)
           /\ \A a, b, c, e \in Token :
                 Write(d, <<a, b, c, e>>) = Read(Read(Read(Read(d, a), b), c), e)
           /\ \A a, b, c, e, f, h \in Token :
                 Write(d, <<a, b, c, e, f, h>>) =
                    Read(Read(Read(Read(Read(Read(d, a), b), c), e), f), h)
<1>1. ASSUME NEW tokens \in Seq(Token), Len(tokens) = 1
      PROVE  Write(d, tokens) =
                Read(d, tokens[1])
  <2>1. PICK g : ReadsAll(d, tokens, g) /\ Write(d, tokens) = After(g, Len(tokens))
    BY WriteAll
  <2>2. /\ After(g, 0 + 1) = Read(After(g, 0), tokens[0 + 1])
    BY <1>1, <2>1 DEF ReadsAll
  <2>3. QED
    BY <1>1, <2>1, <2>2 DEF ReadsAll
<1>2. ASSUME NEW tokens \in Seq(Token), Len(tokens) = 2
      PROVE  Write(d, tokens) =
                Read(Read(d, tokens[1]), tokens[2])
  <2>1. PICK g : ReadsAll(d, tokens, g) /\ Write(d, tokens) = After(g, Len(tokens))
    BY WriteAll
  <2>2. /\ After(g, 0 + 1) = Read(After(g, 0), tokens[0 + 1])
        /\ After(g, 1 + 1) = Read(After(g, 1), tokens[1 + 1])
    BY <1>2, <2>1 DEF ReadsAll
  <2>3. QED
    BY <1>2, <2>1, <2>2 DEF ReadsAll
<1>3. ASSUME NEW tokens \in Seq(Token), Len(tokens) = 3
      PROVE  Write(d, tokens) =
                Read(Read(Read(d, tokens[1]), tokens[2]), tokens[3])
  <2>1. PICK g : ReadsAll(d, tokens, g) /\ Write(d, tokens) = After(g, Len(tokens))
    BY WriteAll
  <2>2. /\ After(g, 0 + 1) = Read(After(g, 0), tokens[0 + 1])
        /\ After(g, 1 + 1) = Read(After(g, 1), tokens[1 + 1])
        /\ After(g, 2 + 1) = Read(After(g, 2), tokens[2 + 1])
    BY <1>3, <2>1 DEF ReadsAll
  <2>3. QED
    BY <1>3, <2>1, <2>2 DEF ReadsAll
<1>4. ASSUME NEW tokens \in Seq(Token), Len(tokens) = 4
      PROVE  Write(d, tokens) =
                Read(Read(Read(Read(d, tokens[1]), tokens[2]), tokens[3]), tokens[4])
  <2>1. PICK g : ReadsAll(d, tokens, g) /\ Write(d, tokens) = After(g, Len(tokens))
    BY WriteAll
  <2>2. /\ After(g, 0 + 1) = Read(After(g, 0), tokens[0 + 1])
        /\ After(g, 1 + 1) = Read(After(g, 1), tokens[1 + 1])
        /\ After(g, 2 + 1) = Read(After(g, 2), tokens[2 + 1])
        /\ After(g, 3 + 1) = Read(After(g, 3), tokens[3 + 1])
    BY <1>4, <2>1 DEF ReadsAll
  <2>3. QED
    BY <1>4, <2>1, <2>2 DEF ReadsAll
<1>5. ASSUME NEW tokens \in Seq(Token), Len(tokens) = 6
      PROVE  Write(d, tokens) =
                Read(Read(Read(Read(Read(Read(d, tokens[1]), tokens[2]), tokens[3]),
                               tokens[4]), tokens[5]), tokens[6])
  <2>1. PICK g : ReadsAll(d, tokens, g) /\ Write(d, tokens) = After(g, Len(tokens))
    BY WriteAll
  <2>2. /\ After(g, 0 + 1) = Read(After(g, 0), tokens[0 + 1])
        /\ After(g, 1 + 1) = Read(After(g, 1), tokens[1 + 1])
        /\ After(g, 2 + 1) = Read(After(g, 2), tokens[2 + 1])
        /\ After(g, 3 + 1) = Read(After(g, 3), tokens[3 + 1])
        /\ After(g, 4 + 1) = Read(After(g, 4), tokens[4 + 1])
        /\ After(g, 5 + 1) = Read(After(g, 5), tokens[5 + 1])
    BY <1>5, <2>1 DEF ReadsAll
  <2>3. QED
    BY <1>5, <2>1, <2>2 DEF ReadsAll
<1>6. ASSUME NEW a \in Token
      PROVE  Write(d, <<a>>) = Read(d, a)
  <2> DEFINE t == <<a>>
  <2>1. t \in Seq(Token) /\ Len(t) = 1 /\ t[1] = a
    BY Elements
  <2> HIDE DEF t
  <2>2. Write(d, t) = Read(d, a)
    BY <1>1, <2>1
  <2>3. QED
    BY <2>2 DEF t
<1>7. ASSUME NEW a \in Token, NEW b \in Token
      PROVE  Write(d, <<a, b>>) = Read(Read(d, a), b)
  <2> DEFINE t == <<a, b>>
  <2>1. t \in Seq(Token) /\ Len(t) = 2 /\ t[1] = a /\ t[2] = b
    BY Elements
  <2> HIDE DEF t
  <2>2. Write(d, t) = Read(Read(d, a), b)
    BY <1>2, <2>1
  <2>3. QED
    BY <2>2 DEF t
<1>8. ASSUME NEW a \in Token, NEW b \in Token, NEW c \in Token
      PROVE  Write(d, <<a, b, c>>) = Read(Read(Read(d, a), b), c)
  <2> DEFINE t == <<a, b, c>>
  <2>1. t \in Seq(Token) /\ Len(t) = 3 /\ t[1] = a /\ t[2] = b /\ t[3] = c
    BY Elements
  <2> HIDE DEF t
  <2>2. Write(d, t) = Read(Read(Read(d, a), b), c)
    BY <1>3, <2>1
  <2>3. QED
    BY <2>2 DEF t
<1>9. ASSUME NEW a \in Token, NEW b \in Token, NEW c \in Token, NEW e \in Token
      PROVE  Write(d, <<a, b, c, e>>) = Read(Read(Read(Read(d, a), b), c), e)
  <2> DEFINE t == <<a, b, c, e>>
  <2>1. t \in Seq(Token) /\ Len(t) = 4 /\ t[1] = a /\ t[2] = b /\ t[3] = c /\ t[4] = e
    BY Elements
  <2> HIDE DEF t
  <2>2. Write(d, t) = Read(Read(Read(Read(d, a), b), c), e)
    BY <1>4, <2>1
  <2>3. QED
    BY <2>2 DEF t
<1>10. ASSUME NEW a \in Token, NEW b \in Token, NEW c \in Token, NEW e \in Token,
              NEW f \in Token, NEW h \in Token
       PROVE  Write(d, <<a, b, c, e, f, h>>) =
                 Read(Read(Read(Read(Read(Read(d, a), b), c), e), f), h)
  <2> DEFINE t == <<a, b, c, e, f, h>>
  <2>1. /\ t \in Seq(Token) /\ Len(t) = 6
        /\ t[1] = a /\ t[2] = b /\ t[3] = c /\ t[4] = e /\ t[5] = f /\ t[6] = h
    BY Elements
  <2> HIDE DEF t
  <2>2. Write(d, t) = Read(Read(Read(Read(Read(Read(d, a), b), c), e), f), h)
    BY <1>5, <2>1
  <2>3. QED
    BY <2>2 DEF t
<1>11. QED
  BY <1>6, <1>7, <1>8, <1>9, <1>10

\* The tokens of an execution, an event and the end of the document.
Beginning == << "{", "member", ",", "member", ",", "[" >>
Stopped   == << "]", ",", "member", "}" >>
Closing   == << "]", "}" >>

LEMMA TokenTypes ==
    /\ Beginning \in Seq(Token) /\ Stopped \in Seq(Token) /\ Closing \in Seq(Token)
    /\ <<",">> \in Seq(Token) /\ <<"event">> \in Seq(Token) /\ <<"file">> \in Seq(Token)
    /\ <<",", "event">> \in Seq(Token)
  BY DEF Beginning, Stopped, Closing, Token

\* An execution begins after a bracket or a comma.
LEMMA WriteBeginning ==
    ASSUME NEW n \in Nat, NEW s \in BOOLEAN, NEW l \in {"open", "comma"}
    PROVE  Write(Doc(Nest(n), l, s), Beginning) = Doc(Nest(n + 1), "open", s)
<1> DEFINE a == "{"
           b == "member"
           c == ","
           e == "["
           d == Doc(Nest(n), l, s)
<1>1. Beginning = <<a, b, c, b, c, e>> /\ a \in Token /\ b \in Token /\ c \in Token
      /\ e \in Token
  BY DEF Beginning, Token
<1>2. /\ Read(d, a) = Doc(Inside(n), "open", s)
      /\ Read(Doc(Inside(n), "open", s), b) = Doc(Inside(n), "value", s)
      /\ Read(Doc(Inside(n), "value", s), c) = Doc(Inside(n), "comma", s)
      /\ Read(Doc(Inside(n), "comma", s), b) = Doc(Inside(n), "value", s)
      /\ Read(Doc(Inside(n), "comma", s), e) = Doc(Nest(n + 1), "open", s)
  BY ReadOutside, ReadInside
<1> HIDE DEF a, b, c, e, d
<1>3. Write(d, <<a, b, c, b, c, e>>) =
         Read(Read(Read(Read(Read(Read(d, a), b), c), b), c), e)
  BY <1>1, WriteFew
<1>4. QED
  BY <1>1, <1>2, <1>3 DEF d

\* The comma before it; at the beginning of the list of queries it is stray.
LEMMA WriteComma ==
    ASSUME NEW n \in Nat, NEW s \in BOOLEAN
    PROVE  /\ Write(Doc(Nest(n), "value", s), <<",">>) = Doc(Nest(n), "comma", s)
           /\ n = 0 => Write(Doc(Nest(n), "open", s), <<",">>) = Doc(Nest(n), "comma", TRUE)
<1> DEFINE c == ","
           v == Doc(Nest(n), "value", s)
           o == Doc(Nest(n), "open", s)
<1>1. c \in Token /\ Read(v, c) = Doc(Nest(n), "comma", s)
      /\ (n = 0 => Read(o, c) = Doc(Nest(n), "comma", TRUE))
  BY ReadOutside DEF Token
<1> HIDE DEF c, v, o
<1>2. Write(v, <<c>>) = Read(v, c) /\ Write(o, <<c>>) = Read(o, c)
  BY <1>1, WriteFew
<1>3. QED
  BY <1>1, <1>2 DEF c, v, o

\* What BeforeExecution prints, with or without the comma.
LEMMA WriteFirst ==
    ASSUME NEW n \in Nat, NEW s \in BOOLEAN
    PROVE  /\ Write(Doc(Nest(n), "open", s), <<>> \o Beginning) = Doc(Nest(n + 1), "open", s)
           /\ Write(Doc(Nest(n), "value", s), <<",">> \o Beginning) = Doc(Nest(n + 1), "open", s)
           /\ n = 0 => Write(Doc(Nest(n), "open", s), <<",">> \o Beginning) =
                          Doc(Nest(n + 1), "open", TRUE)
<1>1. <<>> \o Beginning = Beginning
  BY TokenTypes, ConcatEmptySeq
<1>2. \A d : Write(d, <<",">> \o Beginning) = Write(Write(d, <<",">>), Beginning)
  BY TokenTypes, WriteJoined
<1>3. QED
  BY <1>1, <1>2, WriteComma, WriteBeginning

\* An event of a node or an expression.
LEMMA WriteEvent ==
    ASSUME NEW n \in Nat, n > 0, NEW s \in BOOLEAN
    PROVE  /\ Write(Doc(Nest(n), "open", s), <<"event">>) = Doc(Nest(n), "value", s)
           /\ Write(Doc(Nest(n), "value", s), <<",", "event">>) = Doc(Nest(n), "value", s)
<1> DEFINE c == ","
           e == "event"
           v == Doc(Nest(n), "value", s)
           o == Doc(Nest(n), "open", s)
           w == Doc(Nest(n), "comma", s)
<1>1. c \in Token /\ e \in Token /\ Read(v, c) = w /\ Read(w, e) = v /\ Read(o, e) = v
  BY ReadOutside DEF Token
<1> HIDE DEF c, e, v, o, w
<1>2. Write(o, <<e>>) = Read(o, e) /\ Write(v, <<c, e>>) = Read(Read(v, c), e)
  BY <1>1, WriteFew
<1>3. QED
  BY <1>1, <1>2 DEF c, e, v, o

\* The end of an execution whose trace was stopped inside of it.
LEMMA WriteStopped ==
    ASSUME NEW n \in Nat, NEW s \in BOOLEAN, NEW l \in {"open", "value"}
    PROVE  Write(Doc(Nest(n + 1), l, s), Stopped) = Doc(Nest(n), "value", s)
<1> DEFINE a == "]"
           b == "member"
           c == ","
           e == "}"
           d == Doc(Nest(n + 1), l, s)
<1>1. Stopped = <<a, c, b, e>> /\ a \in Token /\ b \in Token /\ c \in Token
      /\ e \in Token
  BY DEF Stopped, Token
<1>2. /\ Read(d, a) = Doc(Inside(n), "value", s)
      /\ Read(Doc(Inside(n), "value", s), c) = Doc(Inside(n), "comma", s)
      /\ Read(Doc(Inside(n), "comma", s), b) = Doc(Inside(n), "value", s)
      /\ Read(Doc(Inside(n), "value", s), e) = Doc(Nest(n), "value", s)
  BY ReadEnd, ReadInside
<1> HIDE DEF a, b, c, e, d
<1>3. Write(d, <<a, c, b, e>>) = Read(Read(Read(Read(d, a), c), b), e)
  BY <1>1, WriteFew
<1>4. QED
  BY <1>1, <1>2, <1>3 DEF d

\* The end of the file.
LEMMA WriteClosing ==
    ASSUME NEW n \in Nat, NEW s \in BOOLEAN, NEW l \in {"open", "value"}
    PROVE  /\ Write(Doc(Nest(n + 1), l, s), Closing) = Doc(Nest(n), "value", s)
           /\ Write(Doc(Nest(0), l, s), Closing) = Doc(<<>>, "value", s)
           /\ Complete(Doc(<<>>, "value", s))
<1> DEFINE a == "]"
           e == "}"
           d == Doc(Nest(n + 1), l, s)
           z == Doc(Nest(0), l, s)
<1>1. Closing = <<a, e>> /\ a \in Token /\ e \in Token
  BY DEF Closing, Token
<1>2. /\ Read(d, a) = Doc(Inside(n), "value", s)
      /\ Read(Doc(Inside(n), "value", s), e) = Doc(Nest(n), "value", s)
      /\ Read(z, a) = Doc(<<"file">>, "value", s)
      /\ Read(Doc(<<"file">>, "value", s), e) = Doc(<<>>, "value", s)
  BY ReadEnd, ReadInside
<1> HIDE DEF a, e, d, z
<1>3. Write(d, <<a, e>>) = Read(Read(d, a), e) /\ Write(z, <<a, e>>) = Read(Read(z, a), e)
  BY <1>1, WriteFew
<1>4. Complete(Doc(<<>>, "value", s))
  BY DEF Complete, Doc
<1>5. QED
  BY <1>1, <1>2, <1>3, <1>4 DEF d, z

\* After the last execution of a trace that was stopped inside of it.
LEMMA WriteLast ==
    ASSUME NEW s \in BOOLEAN, NEW l \in {"open", "value"}
    PROVE  Write(Doc(Nest(1), l, s), Stopped \o Closing) = Doc(<<>>, "value", s)
<1>1. \A d : Write(d, Stopped \o Closing) = Write(Write(d, Stopped), Closing)
  BY TokenTypes, WriteJoined
<1>2. 0 + 1 = 1
  OBVIOUS
<1>3. Write(Doc(Nest(1), l, s), Stopped) = Doc(Nest(0), "value", s)
  BY <1>2, WriteStopped
<1>4. QED
  BY <1>1, <1>3, WriteClosing

\* The tokens of AfterExecution as the code puts them together.
LEMMA WriteEnding ==
    ASSUME NEW n \in Nat, NEW s \in BOOLEAN, NEW l \in {"open", "value"}
    PROVE  LET tokens == <<"]", ",", "member">> \o ExecutorTraceDumpAndClearStat \o <<"}">>
           IN  /\ tokens \in Seq(Token)
               /\ Write(Doc(Nest(n + 1), l, s), tokens) = Doc(Nest(n), "value", s)
<1> DEFINE a == "]"
           b == "member"
           c == ","
           e == "}"
           d == Doc(Nest(n + 1), l, s)
           p == <<a, c, b>>
           q == <<c, b, c, b>>
           r == <<e>>
<1>1. a \in Token /\ b \in Token /\ c \in Token /\ e \in Token
  BY DEF Token
<1>2. /\ Read(d, a) = Doc(Inside(n), "value", s)
      /\ Read(Doc(Inside(n), "value", s), c) = Doc(Inside(n), "comma", s)
      /\ Read(Doc(Inside(n), "comma", s), b) = Doc(Inside(n), "value", s)
      /\ Read(Doc(Inside(n), "value", s), e) = Doc(Nest(n), "value", s)
  BY ReadEnd, ReadInside
<1>3. q = ExecutorTraceDumpAndClearStat
  BY DEF ExecutorTraceDumpAndClearStat
<1> HIDE DEF a, b, c, e, d
<1>4. p \in Seq(Token) /\ q \in Seq(Token) /\ r \in Seq(Token)
  BY <1>1
<1>5. Write(d, p) = Doc(Inside(n), "value", s)
  BY <1>1, <1>2, WriteFew
<1>6. Write(Doc(Inside(n), "value", s), q) = Doc(Inside(n), "value", s)
  BY <1>1, <1>2, WriteFew
<1>7. Write(Doc(Inside(n), "value", s), r) = Doc(Nest(n), "value", s)
  BY <1>1, <1>2, WriteFew
<1> HIDE DEF p, q, r
<1>8. p \o q \in Seq(Token) /\ (p \o q) \o r \in Seq(Token)
  BY <1>4, ConcatProperties
<1>9. Write(d, (p \o q) \o r) = Write(Write(Write(d, p), q), r)
  <2> DEFINE t == p \o q
  <2>1. Write(d, t) = Write(Write(d, p), q)
    BY <1>4, WriteJoined
  <2>2. t \in Seq(Token)
    BY <1>8
  <2> HIDE DEF t
  <2>3. Write(d, t \o r) = Write(Write(d, t), r)
    BY <1>4, <2>2, WriteJoined
  <2>4. QED
    BY <2>1, <2>3 DEF t
<1>10. (p \o q) \o r = <<"]", ",", "member">> \o ExecutorTraceDumpAndClearStat \o <<"}">>
  BY <1>3 DEF p, r, a, b, c, e
<1>11. QED
  BY <1>5, <1>6, <1>7, <1>8, <1>9, <1>10 DEF d

-----------------------------------------------------------------------------
\* The end of the session.

\* What the exit callback prints: as many ends of an execution as there are open.
Levels(n) == [i \in 1 .. n |-> Closing]
Flattening(seqs, g) ==
    g = [i \in 1 .. Len(seqs) |-> IF i = 1 THEN seqs[i] ELSE g[i - 1] \o seqs[i]]

LEMMA LevelsAre ==
    ASSUME NEW n \in Nat
    PROVE  Len(Levels(n)) = n /\ \A i \in 1 .. n : Levels(n)[i] = Closing
  BY DEF Levels

\* Sequences of tokens one after the other.
LEMMA Joined ==
    ASSUME NEW p \in Seq(Token), NEW q \in Seq(Token)
    PROVE  p \o q \in Seq(Token)
  BY ConcatProperties

\* One level more is one end of an execution more.
LEMMA FlatteningExists == \A n \in Nat : \E g : Flattening(Levels(n), g)
<1> DEFINE Ends2(i) == [j \in 1 .. 2 * i |-> IF j % 2 = 1 THEN "]" ELSE "}"]
<1>0. Closing \in Seq(Token) /\ Len(Closing) = 2 /\ Closing[1] = "]" /\ Closing[2] = "}"
  BY DEF Closing, Token
<1>1. ASSUME NEW i \in Nat
      PROVE  /\ Ends2(i) \in Seq(Token) /\ Len(Ends2(i)) = 2 * i
             /\ \A j \in 1 .. 2 * i : Ends2(i)[j] = IF j % 2 = 1 THEN "]" ELSE "}"
  BY DEF Token
<1> HIDE DEF Ends2
<1>2. Ends2(1) = Closing
  <2>1. /\ Ends2(1) \in Seq(Token) /\ Len(Ends2(1)) = 2
        /\ Ends2(1)[1] = "]" /\ Ends2(1)[2] = "}"
    <3>1. 1 % 2 = 1 /\ 2 % 2 # 1 /\ 1 \in 1 .. 2 * 1 /\ 2 \in 1 .. 2 * 1 /\ 2 * 1 = 2
      OBVIOUS
    <3>2. QED
      BY <1>1, <3>1
  <2>2. \A j \in 1 .. 2 : j = 1 \/ j = 2
    OBVIOUS
  <2>3. QED
    BY <1>0, <2>1, <2>2, SeqEqual
<1>3. ASSUME NEW k \in Nat
      PROVE  Ends2(k + 1) = Ends2(k) \o Closing
  <2> DEFINE m == 2 * k
             p == Ends2(k)
             t == p \o Closing
             u == Ends2(k + 1)
  <2>1. k + 1 \in Nat /\ m \in Nat /\ 2 * (k + 1) = m + 2
    OBVIOUS
  <2>a. (m + 1) % 2 = 1 /\ (m + 2) % 2 # 1
    OBVIOUS
  <2>2. /\ p \in Seq(Token) /\ Len(p) = m
        /\ \A j \in 1 .. m : p[j] = IF j % 2 = 1 THEN "]" ELSE "}"
    BY <1>1, <2>1
  <2>3. /\ u \in Seq(Token) /\ Len(u) = m + 2
        /\ \A j \in 1 .. m + 2 : u[j] = IF j % 2 = 1 THEN "]" ELSE "}"
    BY <1>1, <2>1
  <2> HIDE DEF p, u, m
  <2>4. /\ t \in Seq(Token) /\ Len(t) = Len(p) + Len(Closing)
        /\ \A j \in 1 .. Len(p) + Len(Closing) :
              t[j] = IF j <= Len(p) THEN p[j] ELSE Closing[j - Len(p)]
    BY <1>0, <2>2, ConcatProperties
  <2>5. /\ t \in Seq(Token) /\ Len(t) = m + 2
        /\ \A j \in 1 .. m + 2 : t[j] = IF j <= m THEN p[j] ELSE Closing[j - m]
    BY <1>0, <2>2, <2>4
  <2> HIDE DEF t
  <2>6. ASSUME NEW j \in 1 .. m + 2
        PROVE  t[j] = u[j]
    <3>1. CASE j <= m
      <4>1. j \in 1 .. m
        BY <2>1, <3>1
      <4>2. QED
        BY <2>2, <2>3, <2>5, <3>1, <4>1
    <3>2. CASE j = m + 1
      <4>1. ~(j <= m) /\ j - m = 1
        BY <2>1, <3>2
      <4>2. t[j] = "]"
        BY <1>0, <2>5, <4>1
      <4>3. u[j] = "]"
        BY <2>3, <2>a, <3>2
      <4>4. QED
        BY <4>2, <4>3
    <3>3. CASE j = m + 2
      <4>1. ~(j <= m) /\ j - m = 2
        BY <2>1, <3>3
      <4>2. t[j] = "}"
        BY <1>0, <2>5, <4>1
      <4>3. u[j] = "}"
        BY <2>3, <2>a, <3>3
      <4>4. QED
        BY <4>2, <4>3
    <3>4. QED
      BY <2>1, <3>1, <3>2, <3>3
  <2>7. t = u
    BY <2>3, <2>5, <2>6, SeqEqual
  <2>8. QED
    BY <2>7 DEF t, u, p
<1>4. ASSUME NEW n \in Nat
      PROVE  \E g : Flattening(Levels(n), g)
  <2> DEFINE g == [i \in 1 .. n |-> Ends2(i)]
             s == Levels(n)
  <2>0. Len(s) = n /\ \A i \in 1 .. n : s[i] = Closing
    BY LevelsAre
  <2> HIDE DEF s
  <2>1. ASSUME NEW i \in 1 .. n
        PROVE  Ends2(i) = IF i = 1 THEN s[i] ELSE g[i - 1] \o s[i]
    <3>1. CASE i = 1
      BY <1>2, <2>0, <3>1
    <3>2. CASE i # 1
      <4>1. i - 1 \in 1 .. n /\ i - 1 \in Nat /\ (i - 1) + 1 = i
        BY <3>2
      <4>2. Ends2(i) = Ends2(i - 1) \o Closing
        BY <1>3, <4>1
      <4>3. QED
        BY <2>0, <3>2, <4>1, <4>2
    <3>3. QED
      BY <3>1, <3>2
  <2>2. g = [i \in 1 .. n |-> IF i = 1 THEN s[i] ELSE g[i - 1] \o s[i]]
    BY <2>1
  <2> HIDE DEF g
  <2>3. Flattening(s, g)
    BY <2>0, <2>2 DEF Flattening
  <2>4. QED
    BY <2>3 DEF s
<1>5. QED
  BY <1>4

\* The library flattens by that function.
LEMMA LevelsFlatten ==
    ASSUME NEW n \in Nat
    PROVE  \/ n = 0 /\ FlattenSeq(Levels(n)) = <<>>
           \/ n > 0 /\ \E g : Flattening(Levels(n), g) /\ FlattenSeq(Levels(n)) = g[n]
<1> DEFINE s == Levels(n)
<1>1. Len(s) = n
  BY LevelsAre
<1>2. CASE n = 0
  <2>1. s = <<>>
    BY <1>2 DEF Levels
  <2>2. QED
    BY <1>1, <1>2, <2>1 DEF FlattenSeq
<1>3. CASE n # 0
  <2> DEFINE g == CHOOSE h : Flattening(s, h)
  <2>1. Flattening(s, g)
    BY FlatteningExists
  <2> HIDE DEF s
  <2>2. FlattenSeq(s) = g[Len(s)]
    BY <1>1, <1>3 DEF FlattenSeq, Flattening
  <2> HIDE DEF g
  <2>3. QED
    BY <1>1, <1>3, <2>1, <2>2 DEF s
<1>4. QED
  BY <1>2, <1>3

\* The exit callback closes all that is open.
LEMMA WriteUnwound ==
    ASSUME NEW n \in Nat, NEW s \in BOOLEAN, NEW l \in {"open", "value"}
    PROVE  LET tokens == FlattenSeq(Levels(n)) \o Closing
           IN  /\ tokens \in Seq(Token)
               /\ Write(Doc(Nest(n), l, s), tokens) = Doc(<<>>, "value", s)
<1> DEFINE p == FlattenSeq(Levels(n))
           d == Doc(Nest(n), l, s)
<1>1. p \in Seq(Token) /\ \E k \in {"open", "value"} : Write(d, p) = Doc(Nest(0), k, s)
  <2>1. CASE n = 0
    <3>1. p = <<>> /\ <<>> \in Seq(Token)
      BY <2>1, LevelsFlatten
    <3>2. Write(d, p) = d
      BY <3>1, WriteNothing
    <3>3. QED
      BY <2>1, <3>1, <3>2
  <2>2. CASE n > 0
    <3>1. PICK g : Flattening(Levels(n), g) /\ p = g[n]
      BY <2>2, LevelsFlatten
    <3>a. \A i \in 1 .. n : g[i] = IF i = 1 THEN Closing ELSE g[i - 1] \o Closing
      BY <3>1, LevelsAre DEF Flattening
    <3> HIDE DEF p, d
    <3> DEFINE G(i) == g[i] \in Seq(Token) /\ Write(d, g[i]) = Doc(Nest(n - i), "value", s)
               N == {i \in Nat : i + 1 <= n => G(i + 1)}
    <3>2. 0 \in N
      <4>1. g[1] = Closing
        BY <2>2, <3>a
      <4>2. PICK m \in Nat : n = m + 1
        <5>1. n - 1 \in Nat /\ n = (n - 1) + 1
          BY <2>2
        <5>2. QED
          BY <5>1
      <4>3. Write(d, Closing) = Doc(Nest(m), "value", s)
        BY <4>2, WriteClosing DEF d
      <4>4. n - 1 = m /\ 0 + 1 = 1
        BY <4>2
      <4>5. G(1)
        BY <4>1, <4>3, <4>4, TokenTypes
      <4>6. QED
        BY <4>4, <4>5
    <3>3. ASSUME NEW i \in Nat, i \in N PROVE i + 1 \in N
      <4>1. SUFFICES ASSUME (i + 1) + 1 <= n PROVE G((i + 1) + 1)
        OBVIOUS
      <4> DEFINE k == i + 1
      <4>2. k \in Nat /\ k <= n /\ k + 1 \in 1 .. n /\ k + 1 # 1 /\ (k + 1) - 1 = k
            /\ n - k = (n - (k + 1)) + 1 /\ n - (k + 1) \in Nat
        BY <4>1
      <4>3. G(k)
        BY <3>3, <4>2
      <4> HIDE DEF k
      <4>4. g[k + 1] = g[k] \o Closing
        BY <3>a, <4>2
      <4>5. g[k] \in Seq(Token) /\ Write(d, g[k]) = Doc(Nest(n - k), "value", s)
        BY <4>3
      <4>7. PICK e \in Seq(Token) : e = g[k]
        BY <4>5
      <4>6. g[k + 1] \in Seq(Token)
        BY <4>4, <4>7, TokenTypes, Joined
      <4>8. Write(d, e \o Closing) = Write(Write(d, e), Closing)
        BY TokenTypes, WriteJoined
      <4>9. PICK m \in Nat : m = n - (k + 1)
        BY <4>2
      <4>10. Write(Doc(Nest(m + 1), "value", s), Closing) = Doc(Nest(m), "value", s)
        BY WriteClosing
      <4>11. Write(d, g[k + 1]) = Doc(Nest(n - (k + 1)), "value", s)
        BY <4>2, <4>4, <4>5, <4>7, <4>8, <4>9, <4>10
      <4>12. QED
        BY <4>6, <4>11 DEF k
    <3> HIDE DEF N
    <3>4. n - 1 \in Nat /\ (n - 1) + 1 = n
      BY <2>2
    <3>5. n - 1 \in N
      BY <3>2, <3>3, <3>4, InductionOnSet
    <3>6. G(n)
      BY <3>4, <3>5 DEF N
    <3>7. n - n = 0
      OBVIOUS
    <3>8. QED
      BY <3>1, <3>6, <3>7
  <2>3. QED
    BY <2>1, <2>2
<1>2. PICK k \in {"open", "value"} : Write(d, p) = Doc(Nest(0), k, s)
  BY <1>1
<1>a. p \in Seq(Token) /\ Closing \in Seq(Token)
  BY <1>1, TokenTypes
<1> HIDE DEF p, d
<1>3. Write(d, p \o Closing) = Write(Write(d, p), Closing)
  BY <1>a, WriteJoined
<1>4. p \o Closing \in Seq(Token)
  BY <1>1, TokenTypes, Joined
<1>5. Write(Doc(Nest(0), k, s), Closing) = Doc(<<>>, "value", s)
  BY WriteClosing
<1>6. QED
  BY <1>2, <1>3, <1>4, <1>5 DEF p, d

USE DEF Executing

-----------------------------------------------------------------------------
\* The document and the level.

\* The document is open down to the innermost execution.
Follows ==
    /\ doc.stack = Nest(nestLevel)
    /\ doc.last \in {"open", "value"}
    /\ isFirstNodeCall => doc.last = "open"
    /\ ~isFirstNodeCall /\ doc.last = "open" => nestLevel = 0 /\ "again" \in causes

Sound    == doc.ok /\ (doc.stray => "again" \in causes)
Finished == doc = NoDocument \/ doc.full \/ Complete(doc)

DocInv ==
    Undisturbed =>
        /\ Sound
        /\ IF file = "closed" THEN Finished ELSE outcome # "ok" \/ doc.full \/ Follows

DocType ==
    doc \in Document /\ file \in {"closed", "open"} /\ isFirstNodeCall \in BOOLEAN

\* What is excepted stays so.
LEMMA DisturbedStays ==
    ASSUME causes \subseteq causes', Undisturbed'
    PROVE  Undisturbed
  BY DEF Undisturbed

\* A document that follows the level is known.
LEMMA DocIs ==
    ASSUME doc \in Document, Sound, ~doc.full, Follows
    PROVE  /\ doc = Doc(Nest(nestLevel), doc.last, doc.stray)
           /\ doc.stray \in BOOLEAN
<1>1. doc = [stack |-> doc.stack, last |-> doc.last, ok |-> doc.ok, stray |-> doc.stray,
             full |-> doc.full] /\ doc.stray \in BOOLEAN /\ doc.ok \in BOOLEAN
         /\ doc.full \in BOOLEAN
  BY DEF Document
<1>2. doc.ok = TRUE /\ doc.full = FALSE
  BY <1>1 DEF Sound
<1>3. QED
  BY <1>1, <1>2 DEF Doc, Follows

LEMMA DocFields ==
    ASSUME NEW s, NEW l, NEW t
    PROVE  /\ Doc(s, l, t).stack = s /\ Doc(s, l, t).last = l /\ Doc(s, l, t).ok
           /\ Doc(s, l, t).stray = t /\ ~Doc(s, l, t).full
  BY DEF Doc

\* What is printed to a closed or full file changes nothing; else all of it is written
\* or the document is full.
LEMMA Printing ==
    ASSUME doc \in Document, NEW tokens \in Seq(Token), TracePrintf(tokens)
    PROVE  LET w == Write(doc, tokens)
           IN  /\ doc' \in Document
               /\ file # "open" \/ doc.full => doc' = doc
               /\ file = "open" /\ ~doc.full =>
                     doc' = w \/ (doc'.full /\ (w.ok => doc'.ok) /\ (doc'.stray => w.stray))
<1> DEFINE L == "limit" \in features
<1>1. doc' \in IF file = "open" THEN Printed(doc, tokens, L) ELSE {doc}
  BY DEF TracePrintf
<1> HIDE DEF L
<1>2. CASE file = "open"
  BY <1>1, <1>2, PrintedType
<1>3. CASE file # "open"
  BY <1>1, <1>3
<1>4. QED
  BY <1>2, <1>3

\* A step that prints: it is enough that all that is to be printed is in order.
LEMMA DocPrinted ==
    ASSUME DocType, DocInv, outcome = "ok", causes \subseteq causes',
           file' \in {file, "closed"}, NEW tokens \in Seq(Token), TracePrintf(tokens),
           NEW w, w = Write(doc, tokens),
           file = "open" /\ ~doc.full /\ Sound /\ Follows /\ Undisturbed' =>
              /\ w.ok /\ (w.stray => "again" \in causes')
              /\ doc' = w => IF file' = "closed" THEN Complete(w) ELSE Follows'
    PROVE  DocInv'
<1> SUFFICES ASSUME Undisturbed'
             PROVE  /\ Sound'
                    /\ IF file' = "closed" THEN Finished'
                       ELSE outcome' # "ok" \/ doc'.full \/ Follows'
  BY DEF DocInv
<1>1. /\ Sound /\ Undisturbed
      /\ IF file = "closed" THEN Finished ELSE doc.full \/ Follows
  BY DisturbedStays DEF DocInv
<1>2. /\ file # "open" \/ doc.full => doc' = doc
      /\ file = "open" /\ ~doc.full =>
            doc' = w \/ (doc'.full /\ (w.ok => doc'.ok) /\ (doc'.stray => w.stray))
  BY Printing DEF DocType
<1>3. file \in {"closed", "open"}
  BY DEF DocType
<1>4. CASE file = "open" /\ ~doc.full
  <2>1. Follows
    BY <1>1, <1>4
  <2>2. /\ w.ok /\ (w.stray => "again" \in causes')
        /\ doc' = w => IF file' = "closed" THEN Complete(w) ELSE Follows'
    BY <1>1, <1>4, <2>1
  <2>3. CASE doc' = w
    BY <2>2, <2>3 DEF Sound, Finished
  <2>4. CASE doc'.full /\ (w.ok => doc'.ok) /\ (doc'.stray => w.stray)
    BY <2>2, <2>4 DEF Sound, Finished
  <2>5. QED
    BY <1>2, <1>4, <2>3, <2>4
<1>5. CASE file = "closed"
  BY <1>1, <1>2, <1>5 DEF Sound, Finished
<1>6. CASE file = "open" /\ doc.full
  BY <1>1, <1>2, <1>6 DEF Sound, Finished
<1>7. QED
  BY <1>3, <1>4, <1>5, <1>6

\* A step that prints nothing and leaves the level alone, or ends the session.
LEMMA DocQuiet ==
    ASSUME DocInv, outcome = "ok", causes \subseteq causes', UNCHANGED <<doc, file>>,
           UNCHANGED <<nestLevel, isFirstNodeCall>> \/ outcome' # "ok"
    PROVE  DocInv'
<1> SUFFICES ASSUME Undisturbed'
             PROVE  /\ Sound'
                    /\ IF file' = "closed" THEN Finished'
                       ELSE outcome' # "ok" \/ doc'.full \/ Follows'
  BY DEF DocInv
<1>1. /\ Sound
      /\ IF file = "closed" THEN Finished ELSE doc.full \/ Follows
  BY DisturbedStays DEF DocInv
<1>2. Sound'
  BY <1>1 DEF Sound
<1>3. Finished => Finished'
  BY DEF Finished
<1>4. Follows /\ UNCHANGED <<nestLevel, isFirstNodeCall>> => Follows'
  BY DEF Follows
<1>5. QED
  BY <1>1, <1>2, <1>3, <1>4

-----------------------------------------------------------------------------
\* What the steps do to the document.

\* No execution is left on an empty stack, and there is one below a node.
LEMMA LevelOfStack ==
    ASSUME ControlType, NestLevelIsDepth
    PROVE  /\ nestLevel \in Nat
           /\ frames = <<>> => nestLevel = 0
           /\ \A i \in DOMAIN frames :
                 frames[i].traced /\ frames[i].kind \in Executing => nestLevel > 0
<1>1. /\ IsFiniteSet(Counted(frames)) /\ nestLevel = Cardinality(Counted(frames))
      /\ nestLevel \in Nat
  BY CountedFinite, DepthIsCounted DEF NestLevelIsDepth, ControlType
<1>2. nestLevel = 0 <=> Counted(frames) = {}
  BY <1>1, FS_EmptySet
<1>3. frames = <<>> => Counted(frames) = {}
  BY DEF Counted
<1>4. ASSUME NEW i \in DOMAIN frames, frames[i].traced, frames[i].kind \in Executing
      PROVE  nestLevel > 0
  <2>1. i \in Counted(frames)
    BY <1>4 DEF Counted
  <2>2. QED
    BY <1>1, <1>2, <2>1
<1>5. QED
  BY <1>1, <1>2, <1>3, <1>4

\* The end of the document is printed and the file closed.
LEMMA DocEnded ==
    ASSUME DocType, DocInv, outcome = "ok", causes \subseteq causes', file' = "closed",
           NEW tokens \in Seq(Token), TracePrintf(tokens),
           NEW w, w = Write(doc, tokens),
           Sound /\ ~doc.full /\ Follows => w = Doc(<<>>, "value", doc.stray)
    PROVE  DocInv'
<1>1. ASSUME Sound, ~doc.full, Follows
      PROVE  w.ok /\ (w.stray => "again" \in causes') /\ Complete(w)
  <2>1. w = Doc(<<>>, "value", doc.stray)
    BY <1>1
  <2>2. w.ok /\ w.stray = doc.stray /\ w.stack = <<>> /\ w.last = "value"
    BY <2>1, DocFields
  <2>3. doc.stray => "again" \in causes'
    BY <1>1 DEF Sound
  <2>4. QED
    BY <2>2, <2>3 DEF Complete
<1>2. QED
  BY <1>1, DocPrinted

\* Undisturbed, circumstance by circumstance.
LEMMA Excepted ==
    ASSUME NEW C, C \cap {"restarted", "stopped outside", "limit raised", "slots"} = {}
    PROVE  /\ "restarted" \notin C /\ "stopped outside" \notin C
           /\ "limit raised" \notin C /\ "slots" \notin C
  OBVIOUS

\* A start begins a document, or none.
LEMMA StartingDocument ==
    ASSUME DocType, DocInv, nestLevel \in Nat, FileInv, Starting
    PROVE  DocInv'
<1>1. PICK ok : SessionTraceStart(ok) /\ outcome = "ok"
  BY DEF Starting, start_session_trace, StartPending, Calling
<1>2. CASE tracing
  <2>1. UNCHANGED <<doc, file, nestLevel, isFirstNodeCall, causes>>
    BY <1>1, <1>2 DEF SessionTraceStart, writing, history
  <2>2. QED
    BY <1>1, <2>1, DocQuiet
<1>a. CASE StartSucceeds /\ ~(exits < MaxExits)
  <2>1. "slots" \in causes'
    BY <1>a DEF StartSucceeds
  <2>2. ~Undisturbed'
    BY <2>1, Excepted DEF Undisturbed
  <2>3. QED
    BY <2>2 DEF DocInv
<1>3. CASE ~tracing /\ StartSucceeds /\ exits < MaxExits
  <2>1. /\ file' = "open" /\ doc' = Write(NoDocument, <<"file">>)
        /\ UNCHANGED <<nestLevel, isFirstNodeCall>>
        /\ ~isFirstNodeCall => "again" \in causes'
        /\ nestLevel > 0 => "restarted" \in causes'
    BY <1>3 DEF StartSucceeds, OpenTraceSessionFile
  <2> DEFINE t == "file"
  <2>2. t \in Token /\ Read(NoDocument, t) = Doc(Nest(0), "open", FALSE)
    BY ReadEnd DEF Token
  <2> HIDE DEF t
  <2>3. Write(NoDocument, <<t>>) = Read(NoDocument, t)
    BY <2>2, WriteFew
  <2>4. doc' = Doc(Nest(0), "open", FALSE)
    BY <2>1, <2>2, <2>3 DEF t
  <2>5. /\ doc'.stack = Nest(0) /\ doc'.last = "open" /\ doc'.ok /\ ~doc'.stray
    BY <2>4 DEF Doc
  <2>6. Undisturbed' => nestLevel = 0
    <3>1. Undisturbed' => ~(nestLevel > 0)
      BY <2>1, Excepted DEF Undisturbed
    <3>2. QED
      BY <3>1
  <2>7. QED
    BY <2>1, <2>5, <2>6 DEF DocInv, Sound, Follows
<1>4. CASE ~tracing /\ StartCannotOpen
  <2>1. /\ file' = "closed" /\ UNCHANGED doc /\ causes \subseteq causes'
        /\ nestLevel > 0 => "restarted" \in causes'
    BY <1>4 DEF StartCannotOpen
  <2>2. Undisturbed' => nestLevel = 0 /\ "stopped outside" \notin causes
    <3>1. Undisturbed' => ~(nestLevel > 0) /\ "stopped outside" \notin causes'
      BY <2>1, Excepted DEF Undisturbed
    <3> DEFINE outside == "stopped outside"
    <3>2. outside \notin causes' => outside \notin causes
      <4> HIDE DEF outside
      <4>1. QED
        BY <2>1
    <3>3. ~(nestLevel > 0) => nestLevel = 0
      OBVIOUS
    <3>4. QED
      BY <3>1, <3>2, <3>3
  <2>3. Undisturbed' => file = "closed" /\ Undisturbed
    BY <1>1, <1>4, <2>1, <2>2, DisturbedStays DEF FileInv
  <2>4. QED
    BY <2>1, <2>3 DEF DocInv, Sound, Finished
<1>5. CASE ~tracing /\ StartCannotAttach
  <2>1. file' = "closed" /\ doc' = NoDocument
    BY <1>5 DEF StartCannotAttach
  <2>2. QED
    BY <2>1 DEF DocInv, Sound, Finished, NoDocument
<1>6. QED
  BY <1>a, <1>1, <1>2, <1>3, <1>4, <1>5 DEF SessionTraceStart

\* A stop ends it or leaves that to the executions on the stack.
LEMMA StoppingDocument ==
    ASSUME DocType, DocInv, ControlType, NestLevelIsDepth, Stopping
    PROVE  DocInv'
<1>1. PICK closeFile \in BOOLEAN, ok \in BOOLEAN :
          SessionTraceStop(closeFile, ok) /\ outcome = "ok" /\ (closeFile => nestLevel = 0)
  BY LevelOfStack DEF Stopping, stop_session_trace, StopPending, Calling
<1>2. CASE ~tracing
  <2>1. UNCHANGED <<doc, file, nestLevel, isFirstNodeCall, causes>>
    BY <1>1, <1>2 DEF SessionTraceStop, writing, history
  <2>2. QED
    BY <1>1, <2>1, DocQuiet
<1>3. CASE tracing
  <2>1. /\ TracePrintf(IF closeFile THEN <<"]", "}">> ELSE <<>>)
        /\ file' = IF closeFile THEN "closed" ELSE file
        /\ causes \subseteq causes'
        /\ UNCHANGED <<nestLevel, isFirstNodeCall>>
    BY <1>1, <1>3 DEF SessionTraceStop
  <2>2. CASE closeFile
    <3>1. TracePrintf(Closing) /\ file' = "closed" /\ nestLevel = 0
      BY <1>1, <2>1, <2>2 DEF Closing
    <3>2. PICK w : w = Write(doc, Closing)
      OBVIOUS
    <3>3. ASSUME Sound, ~doc.full, Follows
          PROVE  w = Doc(<<>>, "value", doc.stray)
      <4>1. doc = Doc(Nest(0), doc.last, doc.stray) /\ doc.stray \in BOOLEAN
        BY <3>1, <3>3, DocIs DEF DocType
      <4>2. doc.last \in {"open", "value"}
        BY <3>3 DEF Follows
      <4>3. PICK l \in {"open", "value"}, s \in BOOLEAN : l = doc.last /\ s = doc.stray
        BY <4>1, <4>2
      <4>4. Write(Doc(Nest(0), l, s), Closing) = Doc(<<>>, "value", s)
        BY WriteClosing
      <4>5. QED
        BY <3>2, <4>1, <4>3, <4>4
    <3>4. QED
      BY <1>1, <2>1, <3>1, <3>2, <3>3, TokenTypes, DocEnded
  <2>3. CASE ~closeFile
    <3>1. TracePrintf(<<>>) /\ file' = file
      BY <2>1, <2>3
    <3>2. Write(doc, <<>>) = doc /\ <<>> \in Seq(Token)
      BY WriteNothing
    <3>3. Follows /\ doc' = doc => Follows'
      BY <2>1 DEF Follows
    <3>4. Sound => doc.ok /\ (doc.stray => "again" \in causes')
      BY <2>1 DEF Sound
    <3>5. file = "open" => file' # "closed"
      BY <3>1
    <3>6. QED
      BY <1>1, <2>1, <3>1, <3>2, <3>3, <3>4, <3>5, DocPrinted
  <2>4. QED
    BY <2>2, <2>3
<1>4. QED
  BY <1>2, <1>3

\* The end of the session ends it.
LEMMA ExitDocument ==
    ASSUME DocType, DocInv, nestLevel \in Nat, TraceNotNormalShutdown
    PROVE  DocInv'
<1> DEFINE tokens == FlattenSeq(Levels(nestLevel)) \o Closing
<1>1. /\ outcome = "ok" /\ file' = "closed" /\ UNCHANGED causes
      /\ TracePrintf(tokens)
  BY DEF TraceNotNormalShutdown, ClosingTail, history, Levels, Closing
<1>2. \A s \in BOOLEAN, l \in {"open", "value"} :
         /\ tokens \in Seq(Token)
         /\ Write(Doc(Nest(nestLevel), l, s), tokens) = Doc(<<>>, "value", s)
  BY WriteUnwound
<1>3. tokens \in Seq(Token)
  BY <1>2
<1> HIDE DEF tokens
<1>4. PICK w : w = Write(doc, tokens)
  OBVIOUS
<1>5. ASSUME Sound, ~doc.full, Follows
      PROVE  w = Doc(<<>>, "value", doc.stray)
  <2>1. doc = Doc(Nest(nestLevel), doc.last, doc.stray) /\ doc.stray \in BOOLEAN
        /\ doc.last \in {"open", "value"}
    BY <1>5, DocIs DEF DocType, Follows
  <2>2. PICK l \in {"open", "value"}, s \in BOOLEAN : l = doc.last /\ s = doc.stray
    BY <2>1
  <2>3. Write(Doc(Nest(nestLevel), l, s), tokens) = Doc(<<>>, "value", s)
    BY <1>2
  <2>4. QED
    BY <1>4, <2>1, <2>2, <2>3
<1>6. QED
  BY <1>1, <1>3, <1>4, <1>5, DocEnded

\* An execution begins, at the level of the frame around it.
LEMMA BeginningDocument ==
    ASSUME DocType, DocInv, nestLevel \in Nat, outcome = "ok", causes \subseteq causes',
           NEW q, BeforeExecution(q), nestLevel' = nestLevel + 1, UNCHANGED file
    PROVE  DocInv'
<1> DEFINE tokens == (IF isFirstNodeCall THEN <<>> ELSE <<",">>) \o Beginning
           n == nestLevel
<1>1. TracePrintf(tokens) /\ isFirstNodeCall' = TRUE
  BY DEF BeforeExecution, Beginning
<1>2. tokens \in Seq(Token)
  <2>1. <<>> \in Seq(Token)
    OBVIOUS
  <2>2. \A p \in Seq(Token) : p \o Beginning \in Seq(Token)
    BY TokenTypes, Joined
  <2>3. (IF isFirstNodeCall THEN <<>> ELSE <<",">>) \in Seq(Token)
    BY <2>1, TokenTypes
  <2>4. QED
    BY <2>2, <2>3
<1> HIDE DEF n
<1>3. ASSUME Sound, ~doc.full, Follows
      PROVE  \E s \in BOOLEAN :
                /\ Write(doc, tokens) = Doc(Nest(n + 1), "open", s)
                /\ s => "again" \in causes
  <2>1. /\ doc = Doc(Nest(n), doc.last, doc.stray) /\ doc.stray \in BOOLEAN
        /\ n \in Nat
    BY <1>3, DocIs DEF DocType, n
  <2>2. /\ doc.last \in {"open", "value"}
        /\ isFirstNodeCall => doc.last = "open"
        /\ ~isFirstNodeCall /\ doc.last = "open" => n = 0 /\ "again" \in causes
    BY <1>3 DEF Follows, n
  <2>3. doc.stray => "again" \in causes
    BY <1>3 DEF Sound
  <2>4. PICK s \in BOOLEAN : s = doc.stray
    BY <2>1
  <2>5. CASE isFirstNodeCall
    <3>1. doc = Doc(Nest(n), "open", s)
      BY <2>1, <2>2, <2>4, <2>5
    <3>2. Write(Doc(Nest(n), "open", s), <<>> \o Beginning) = Doc(Nest(n + 1), "open", s)
      BY <2>1, WriteFirst
    <3>3. tokens = <<>> \o Beginning
      BY <2>5
    <3> HIDE DEF tokens
    <3>4. QED
      BY <2>3, <2>4, <3>1, <3>2, <3>3
  <2>6. CASE ~isFirstNodeCall /\ doc.last = "value"
    <3>1. doc = Doc(Nest(n), "value", s)
      BY <2>1, <2>4, <2>6
    <3>2. Write(Doc(Nest(n), "value", s), <<",">> \o Beginning) = Doc(Nest(n + 1), "open", s)
      BY <2>1, WriteFirst
    <3>3. tokens = <<",">> \o Beginning
      BY <2>6
    <3> HIDE DEF tokens
    <3>4. QED
      BY <2>3, <2>4, <3>1, <3>2, <3>3
  <2>7. CASE ~isFirstNodeCall /\ doc.last = "open"
    <3>1. doc = Doc(Nest(n), "open", s) /\ n = 0 /\ "again" \in causes
      BY <2>1, <2>2, <2>4, <2>7
    <3>2. Write(Doc(Nest(n), "open", s), <<",">> \o Beginning) = Doc(Nest(n + 1), "open", TRUE)
      BY <2>1, <3>1, WriteFirst
    <3>3. tokens = <<",">> \o Beginning
      BY <2>7
    <3> HIDE DEF tokens
    <3>4. QED
      BY <3>1, <3>2, <3>3
  <2>8. QED
    BY <2>2, <2>5, <2>6, <2>7
<1> HIDE DEF tokens
<1>4. PICK w : w = Write(doc, tokens)
  OBVIOUS
<1>5. ASSUME Sound, ~doc.full, Follows
      PROVE  w.ok /\ (w.stray => "again" \in causes') /\ (doc' = w => Follows')
  <2>1. PICK s \in BOOLEAN : w = Doc(Nest(n + 1), "open", s) /\ (s => "again" \in causes)
    BY <1>3, <1>4, <1>5
  <2>2. w.ok /\ w.stray = s /\ w.stack = Nest(n + 1) /\ w.last = "open"
    BY <2>1, DocFields
  <2>3. doc' = w => Follows'
    BY <1>1, <2>2 DEF Follows, n
  <2>4. QED
    BY <2>1, <2>2, <2>3
<1>6. file = "open" => file' # "closed"
  OBVIOUS
<1>7. QED
  BY <1>1, <1>2, <1>4, <1>5, <1>6, DocPrinted

\* A node or an expression is done.
LEMMA EventDocument ==
    ASSUME DocType, DocInv, nestLevel \in Nat, nestLevel > 0, outcome = "ok", UNCHANGED causes,
           Event, UNCHANGED <<nestLevel, file>>
    PROVE  DocInv'
<1> DEFINE tokens == IF isFirstNodeCall THEN <<"event">> ELSE <<",", "event">>
           n == nestLevel
<1>1. TracePrintf(tokens) /\ isFirstNodeCall' = FALSE
  BY DEF Event
<1>2. tokens \in Seq(Token)
  BY TokenTypes
<1> HIDE DEF n
<1>3. ASSUME Sound, ~doc.full, Follows
      PROVE  Write(doc, tokens) = Doc(Nest(n), "value", doc.stray)
  <2>1. /\ doc = Doc(Nest(n), doc.last, doc.stray) /\ doc.stray \in BOOLEAN
        /\ n \in Nat /\ n > 0
    BY <1>3, DocIs DEF DocType, n
  <2>2. /\ doc.last \in {"open", "value"}
        /\ isFirstNodeCall => doc.last = "open"
        /\ ~isFirstNodeCall => doc.last = "value"
    BY <1>3 DEF Follows
  <2>4. PICK s \in BOOLEAN : s = doc.stray
    BY <2>1
  <2>5. CASE isFirstNodeCall
    <3>1. doc = Doc(Nest(n), "open", s) /\ tokens = <<"event">>
      BY <2>1, <2>2, <2>4, <2>5
    <3>2. Write(Doc(Nest(n), "open", s), <<"event">>) = Doc(Nest(n), "value", s)
      BY <2>1, WriteEvent
    <3> HIDE DEF tokens
    <3>3. QED
      BY <2>4, <3>1, <3>2
  <2>6. CASE ~isFirstNodeCall
    <3>1. doc = Doc(Nest(n), "value", s) /\ tokens = <<",", "event">>
      BY <2>1, <2>2, <2>4, <2>6
    <3>2. Write(Doc(Nest(n), "value", s), <<",", "event">>) = Doc(Nest(n), "value", s)
      BY <2>1, WriteEvent
    <3> HIDE DEF tokens
    <3>3. QED
      BY <2>4, <3>1, <3>2
  <2>7. QED
    BY <2>5, <2>6
<1> HIDE DEF tokens
<1>4. PICK w : w = Write(doc, tokens)
  OBVIOUS
<1>5. ASSUME Sound, ~doc.full, Follows
      PROVE  w.ok /\ (w.stray => "again" \in causes') /\ (doc' = w => Follows')
  <2>1. w = Doc(Nest(n), "value", doc.stray)
    BY <1>3, <1>4, <1>5
  <2>2. w.ok /\ w.stray = doc.stray /\ w.stack = Nest(n) /\ w.last = "value"
    BY <2>1, DocFields
  <2>3. doc' = w => Follows'
    BY <1>1, <2>2 DEF Follows, n
  <2>4. QED
    BY <1>5, <2>2, <2>3 DEF Sound
<1>6. file = "open" => file' # "closed"
  OBVIOUS
<1>7. QED
  BY <1>1, <1>2, <1>4, <1>5, <1>6, DocPrinted

\* An execution ends.
LEMMA EndingDocument ==
    ASSUME DocType, DocInv, nestLevel \in Nat, nestLevel > 0, outcome = "ok", UNCHANGED causes,
           AfterExecution, nestLevel' = nestLevel - 1, isFirstNodeCall' = FALSE
    PROVE  DocInv'
<1>0. PICK n \in Nat : nestLevel = n + 1 /\ nestLevel' = n
  <2>1. nestLevel - 1 \in Nat /\ nestLevel = (nestLevel - 1) + 1
    OBVIOUS
  <2>2. QED
    BY <2>1
<1>1. ASSUME Sound, ~doc.full, Follows
      PROVE  \E l \in {"open", "value"}, s \in BOOLEAN :
                /\ doc = Doc(Nest(n + 1), l, s) /\ s = doc.stray
                /\ s => "again" \in causes'
  <2>1. /\ doc = Doc(Nest(n + 1), doc.last, doc.stray) /\ doc.stray \in BOOLEAN
    BY <1>0, <1>1, DocIs DEF DocType
  <2>2. doc.last \in {"open", "value"} /\ (doc.stray => "again" \in causes')
    BY <1>1 DEF Follows, Sound
  <2>3. QED
    BY <2>1, <2>2
<1>2. ASSUME NEW tokens \in Seq(Token), TracePrintf(tokens), UNCHANGED file,
             \A l \in {"open", "value"}, s \in BOOLEAN :
                Write(Doc(Nest(n + 1), l, s), tokens) = Doc(Nest(n), "value", s)
      PROVE  DocInv'
  <2>1. PICK w : w = Write(doc, tokens)
    OBVIOUS
  <2>2. ASSUME Sound, ~doc.full, Follows
        PROVE  w.ok /\ (w.stray => "again" \in causes') /\ (doc' = w => Follows')
    <3>1. PICK l \in {"open", "value"}, s \in BOOLEAN :
              doc = Doc(Nest(n + 1), l, s) /\ (s => "again" \in causes')
      BY <1>1, <2>2
    <3>2. w = Doc(Nest(n), "value", s)
      BY <1>2, <2>1, <3>1
    <3>3. w.ok /\ w.stray = s /\ w.stack = Nest(n) /\ w.last = "value"
      BY <3>2, DocFields
    <3>4. doc' = w => Follows'
      BY <1>0, <3>3 DEF Follows
    <3>5. QED
      BY <3>1, <3>3, <3>4
  <2>3. file = "open" => file' # "closed"
    BY <1>2
  <2>4. QED
    BY <1>2, <2>1, <2>2, <2>3, DocPrinted
<1>3. CASE ~context /\ nestLevel # 1
  <2>1. TracePrintf(Stopped \o <<>>) /\ UNCHANGED file
    BY <1>3 DEF AfterExecution, Stopped
  <2>2. Stopped \o <<>> = Stopped
    BY TokenTypes, ConcatEmptySeq
  <2>3. TracePrintf(Stopped)
    BY <2>1, <2>2
  <2>4. QED
    BY <1>2, <2>1, <2>3, TokenTypes, WriteStopped
<1>4. CASE ~context /\ nestLevel = 1
  <2> DEFINE tokens == Stopped \o Closing
  <2>1. TracePrintf(tokens) /\ file' = "closed"
    BY <1>4 DEF AfterExecution, Stopped, Closing
  <2>2. tokens \in Seq(Token)
    BY TokenTypes, Joined
  <2>3. PICK w : w = Write(doc, tokens)
    OBVIOUS
  <2>4. ASSUME Sound, ~doc.full, Follows
        PROVE  w = Doc(<<>>, "value", doc.stray)
    <3>1. PICK l \in {"open", "value"}, s \in BOOLEAN :
              doc = Doc(Nest(n + 1), l, s) /\ s = doc.stray
      BY <1>1, <2>4
    <3>2. n + 1 = 1
      BY <1>0, <1>4
    <3>3. Write(Doc(Nest(1), l, s), tokens) = Doc(<<>>, "value", s)
      BY WriteLast
    <3> HIDE DEF tokens
    <3>4. QED
      BY <2>3, <3>1, <3>2, <3>3
  <2> HIDE DEF tokens
  <2>5. QED
    BY <2>1, <2>2, <2>3, <2>4, DocEnded
<1>5. CASE context /\ currentState = NoState
  <2>1. outcome' # "ok" /\ UNCHANGED <<file, doc>>
    BY <1>5 DEF AfterExecution, Ends
  <2>2. QED
    BY <2>1, DocQuiet
<1>6. CASE context /\ currentState # NoState
  <2> DEFINE tokens == <<"]", ",", "member">> \o ExecutorTraceDumpAndClearStat \o <<"}">>
  <2>1. TracePrintf(tokens) /\ UNCHANGED file
    BY <1>6 DEF AfterExecution
  <2>2. \A l \in {"open", "value"}, s \in BOOLEAN :
           tokens \in Seq(Token) /\ Write(Doc(Nest(n + 1), l, s), tokens) = Doc(Nest(n), "value", s)
    BY WriteEnding
  <2>3. tokens \in Seq(Token)
    BY <2>2
  <2> HIDE DEF tokens
  <2>4. QED
    BY <1>2, <2>1, <2>2, <2>3
<1>7. QED
  BY <1>3, <1>4, <1>5, <1>6

\* Steps outside of the executor.
LEMMA ElsewhereDocument ==
    ASSUME DocType, DocInv, nestLevel \in Nat, outcome = "ok", Elsewhere
    PROVE  DocInv'
<1> USE DEF trace, writing, control, history
<1>1. ASSUME NEW s, SigHandler(s)
      PROVE  DocInv'
  BY <1>1, DocQuiet DEF SigHandler
<1>2. CASE Error \/ Catch
  BY <1>2, DocQuiet DEF Error, Catch
<1>3. CASE ParseOrPlan \/ ParseOrPlanFails
  BY <1>3, DocQuiet DEF ParseOrPlan, ParseOrPlanFails
<1>4. ASSUME NEW hasEvent, Wait(hasEvent)
      PROVE  DocInv'
  BY <1>4, DocQuiet DEF Wait
<1>5. CASE LockBuffer \/ PGSemaphoreLock
  BY <1>5, DocQuiet DEF LockBuffer, PGSemaphoreLock, Because
<1>6. CASE RaiseLimit
  <2> DEFINE raisedLimit == "limit raised"
  <2>1. causes' = causes \cup {raisedLimit}
    BY <1>6 DEF RaiseLimit, Because
  <2>2. Undisturbed' => raisedLimit \notin causes'
    BY Excepted DEF Undisturbed
  <2> HIDE DEF raisedLimit
  <2>3. ~Undisturbed'
    BY <2>1, <2>2
  <2>4. QED
    BY <2>3 DEF DocInv
<1>7. CASE TraceNotNormalShutdown
  BY <1>7, ExitDocument
<1>8. CASE UNCHANGED vars
  BY <1>8, DocQuiet DEF vars
<1>9. ASSUME NEW q, ExecutorRewind(q)
      PROVE  DocInv'
  <2>1. causes \subseteq causes' /\ outcome = "ok"
    BY <1>9 DEF ExecutorRewind, Because, Calling
  <2>2. UNCHANGED <<doc, file, nestLevel, isFirstNodeCall>>
    BY <1>9 DEF ExecutorRewind
  <2>3. QED
    BY <2>1, <2>2, DocQuiet
<1>10. QED
  BY <1>1, <1>2, <1>3, <1>4, <1>5, <1>6, <1>7, <1>8, <1>9 DEF Elsewhere

\* An execution that is traced, or not.
LEMMA ExecutesDocument ==
    ASSUME DocType, DocInv, ControlType, nestLevel \in Nat, NEW q \in Queries, Executes(q)
    PROVE  DocInv'
<1>1. ASSUME NEW kind, NEW hook, Execute(kind, q, hook)
      PROVE  DocInv'
  <2>1. outcome = "ok" /\ UNCHANGED file
    BY <1>1 DEF Executes, Execute
  <2>2. CASE hook
    <3>1. /\ BeforeExecution(q) /\ nestLevel' = nestLevel + 1
          /\ causes \subseteq causes'
      BY <1>1, <2>2 DEF Execute
    <3>2. QED
      BY <2>1, <3>1, BeginningDocument
  <2>3. CASE ~hook
    BY <1>1, <2>1, <2>3, DocQuiet DEF Execute
  <2>4. QED
    BY <2>2, <2>3
<1>2. QED
  BY <1>1 DEF Executes

\* A frame is left: below a node or an expression there is an execution.
LEMMA LeavingDocument ==
    ASSUME DocType, DocInv, ControlType, NestLevelIsDepth, NodesOfExecution, Leaving
    PROVE  DocInv'
<1> USE DEF trace, writing, history
<1>0. outcome = "ok" /\ frames # <<>> /\ UNCHANGED causes
  BY DEF Leaving, ReturnFromStart, UnwindStart, ReturnFromExecution, UnwindExecution,
         ReturnFromHook, UnwindHook, Returning, Unwinding
<1> DEFINE n == Len(frames)
<1>1. n \in DOMAIN frames /\ Top = frames[n] /\ Top \in FrameSet
  <2>1. frames \in Seq(FrameSet)
    BY DEF ControlType
  <2>2. /\ DOMAIN frames = (1 .. n - 1) \cup {n}
        /\ Last(frames) = frames[n] /\ Last(frames) \in FrameSet
    BY <1>0, <2>1, FrontFrames
  <2>3. QED
    BY <2>2 DEF Top
<1> HIDE DEF n
<1>2. /\ nestLevel \in Nat
      /\ \A i \in DOMAIN frames : frames[i].traced /\ frames[i].kind \in Executing => nestLevel > 0
  BY LevelOfStack
<1>3. CASE ReturnFromStart \/ UnwindStart \/ UnwindHook
  BY <1>0, <1>3, DocQuiet DEF ReturnFromStart, UnwindStart, UnwindHook
<1>4. CASE ReturnFromExecution \/ UnwindExecution
  <2>1. Finally /\ Top.kind \in Executing \cup {"triggers"}
    BY <1>4 DEF ReturnFromExecution, UnwindExecution
  <2>2. CASE Top.traced
    <3>1. Top.kind \in Executing
      BY <1>1, <2>1, <2>2 DEF FrameSet
    <3>2. nestLevel > 0
      BY <1>1, <1>2, <2>2, <3>1
    <3>3. /\ nestLevel' = nestLevel - 1 /\ isFirstNodeCall' = FALSE /\ AfterExecution
      BY <2>1, <2>2 DEF Finally
    <3>4. QED
      BY <1>0, <1>2, <3>2, <3>3, EndingDocument
  <2>3. CASE ~Top.traced
    BY <1>0, <2>1, <2>3, DocQuiet DEF Finally
  <2>4. QED
    BY <2>2, <2>3
<1>5. CASE ReturnFromHook
  <2>1. UNCHANGED <<nestLevel, file>> /\ Top.kind \in {"node", "expr"}
    BY <1>5 DEF ReturnFromHook
  <2>2. CASE currentState = NoState
    BY <1>0, <1>5, <2>1, <2>2, DocQuiet DEF ReturnFromHook
  <2>3. CASE currentState # NoState
    <3>1. Event
      BY <1>5, <2>3 DEF ReturnFromHook
    <3>2. PICK e \in DOMAIN frames : NodesAbove(frames, n, e)
      BY <1>1, <2>1 DEF NodesOfExecution
    <3>3. nestLevel > 0
      BY <1>2, <3>2 DEF NodesAbove
    <3>4. QED
      BY <1>0, <1>2, <2>1, <3>1, <3>3, EventDocument
  <2>4. QED
    BY <2>2, <2>3
<1>6. QED
  BY <1>3, <1>4, <1>5 DEF Leaving

\* No step disturbs the document.
LEMMA DocStep ==
    ASSUME DocType, DocInv, ControlType, NestLevelIsDepth, FileInv, NodesOfExecution, [Next]_vars
    PROVE  DocInv'
<1>0. nestLevel \in Nat
  BY LevelOfStack
<1>a. CASE outcome # "ok"
  <2>1. UNCHANGED <<doc, file, outcome, causes, nestLevel, isFirstNodeCall>>
    BY <1>a, Over DEF vars, writing, control, history
  <2>2. QED
    BY <2>1 DEF DocInv, Undisturbed, Sound, Finished, Follows
<1>b. SUFFICES ASSUME outcome = "ok"
               PROVE  DocInv'
  BY <1>a
<1> USE DEF trace, writing, control, history
<1>1. CASE Starting
  BY <1>0, <1>1, StartingDocument
<1>2. CASE Stopping
  BY <1>2, StoppingDocument
<1>3. CASE Elsewhere
  BY <1>0, <1>b, <1>3, ElsewhereDocument
<1>4. ASSUME NEW q \in Queries, Executes(q)
      PROVE  DocInv'
  BY <1>0, <1>4, ExecutesDocument
<1>5. ASSUME NEW q \in Queries, ExecutorStart(q) \/ ExecutorEnd(q)
      PROVE  DocInv'
  BY <1>b, <1>5, DocQuiet DEF ExecutorStart, ExecutorEnd
<1>6. CASE TraceExecProcNodeHook \/ TraceExprNodeHook
  <2>1. UNCHANGED <<doc, file, causes, nestLevel, isFirstNodeCall>>
    BY <1>6 DEF TraceExecProcNodeHook, TraceExprNodeHook, Hook
  <2>2. QED
    BY <1>b, <2>1, DocQuiet
<1>7. CASE Leaving
  BY <1>7, LeavingDocument
<1>8. QED
  BY <1>1, <1>2, <1>3, <1>4, <1>5, <1>6, <1>7, Steps

-----------------------------------------------------------------------------
\* The types.

LEMMA LimitedType ==
    ASSUME NEW d \in Document
    PROVE  [d EXCEPT !.full = FALSE] \in Document
  BY DEF Document

LEMMA NothingType == <<>> \in Seq(Token)
  OBVIOUS

\* And each leaves a document.
LEMMA DocTypeStep ==
    ASSUME DocType, ControlType, NestLevelIsDepth, [Next]_vars
    PROVE  DocType'
<1> USE DEF trace, writing, control, history
<1>0. /\ doc \in Document /\ file \in {"closed", "open"} /\ isFirstNodeCall \in BOOLEAN
      /\ nestLevel \in Nat
  BY LevelOfStack DEF DocType
<1>a. SUFFICES doc' \in Document /\ file' \in {"closed", "open"} /\ isFirstNodeCall' \in BOOLEAN
  BY DEF DocType
<1>1. CASE Starting
  <2>1. PICK ok : SessionTraceStart(ok)
    BY <1>1 DEF Starting, start_session_trace, StartPending
  <2>2. CASE tracing
    BY <1>0, <2>1, <2>2 DEF SessionTraceStart
  <2> DEFINE head == <<"file">>
  <2>3. NoDocument \in Document /\ head \in Seq(Token)
    BY DEF NoDocument, Document, Token
  <2>4. Write(NoDocument, head) \in Document
    <3> HIDE DEF head
    <3>1. QED
      BY <2>3, WriteType
  <2>a. Write(NoDocument, ClosingTail) \in Document
    <3>1. ClosingTail = FlattenSeq(Levels(nestLevel)) \o Closing
      BY DEF ClosingTail, Levels, Closing
    <3>2. \A s \in BOOLEAN, l \in {"open", "value"} : ClosingTail \in Seq(Token)
      BY <1>0, <3>1, WriteUnwound
    <3>3. ClosingTail \in Seq(Token)
      BY <3>2
    <3>4. QED
      BY <2>3, <3>3, WriteType
  <2>5. CASE ~tracing /\ StartSucceeds
    <3>1. CASE exits < MaxExits
      BY <1>0, <2>4, <2>5, <3>1 DEF StartSucceeds, OpenTraceSessionFile
    <3>2. CASE ~(exits < MaxExits)
      <4>1. doc' = Write(NoDocument, ClosingTail) /\ file' = "closed" /\ UNCHANGED isFirstNodeCall
        BY <2>5, <3>2 DEF StartSucceeds
      <4>2. QED
        BY <1>0, <2>a, <4>1
    <3>3. QED
      BY <3>1, <3>2
  <2>6. CASE ~tracing /\ StartCannotOpen
    BY <1>0, <2>6 DEF StartCannotOpen
  <2>7. CASE ~tracing /\ StartCannotAttach
    BY <1>0, <2>3, <2>7 DEF StartCannotAttach
  <2>8. QED
    BY <2>1, <2>2, <2>5, <2>6, <2>7 DEF SessionTraceStart
<1>2. CASE Stopping
  <2>1. PICK closeFile, ok : SessionTraceStop(closeFile, ok)
    BY <1>2 DEF Stopping, stop_session_trace, StopPending
  <2>2. CASE ~tracing
    BY <1>0, <2>1, <2>2 DEF SessionTraceStop
  <2>3. CASE tracing
    <3>1. /\ TracePrintf(IF closeFile THEN Closing ELSE <<>>)
          /\ file' \in {file, "closed"} /\ UNCHANGED isFirstNodeCall
      BY <2>1, <2>3 DEF SessionTraceStop, Closing
    <3>2. (IF closeFile THEN Closing ELSE <<>>) \in Seq(Token)
      BY TokenTypes, NothingType
    <3>3. doc' \in Document
      BY <1>0, <3>1, <3>2, Printing
    <3>4. QED
      BY <1>0, <3>1, <3>3
  <2>4. QED
    BY <2>2, <2>3
<1>3. CASE Elsewhere
  <2>1. ASSUME NEW s, SigHandler(s)
        PROVE  UNCHANGED <<doc, file, isFirstNodeCall>>
    BY <2>1 DEF SigHandler
  <2>2. CASE Error \/ Catch
    BY <1>0, <2>2 DEF Error, Catch
  <2>3. CASE ParseOrPlan \/ ParseOrPlanFails
    BY <1>0, <2>3 DEF ParseOrPlan, ParseOrPlanFails
  <2>4. ASSUME NEW hasEvent, Wait(hasEvent)
        PROVE  UNCHANGED <<doc, file, isFirstNodeCall>>
    BY <2>4 DEF Wait
  <2>5. CASE LockBuffer \/ PGSemaphoreLock
    BY <1>0, <2>5 DEF LockBuffer, PGSemaphoreLock
  <2>6. CASE RaiseLimit
    <3>1. doc' = [doc EXCEPT !.full = FALSE] /\ UNCHANGED <<file, isFirstNodeCall>>
      BY <2>6 DEF RaiseLimit
    <3>2. QED
      BY <1>0, <3>1, LimitedType
  <2>7. CASE TraceNotNormalShutdown
    <3> DEFINE tokens == FlattenSeq(Levels(nestLevel)) \o Closing
    <3>1. TracePrintf(tokens) /\ file' = "closed" /\ UNCHANGED isFirstNodeCall
      BY <2>7 DEF TraceNotNormalShutdown, ClosingTail, Levels, Closing
    <3>2. \A s \in BOOLEAN, l \in {"open", "value"} : tokens \in Seq(Token)
      BY <1>0, WriteUnwound
    <3> HIDE DEF tokens
    <3>3. doc' \in Document
      BY <1>0, <3>1, <3>2, Printing
    <3>4. QED
      BY <1>0, <3>1, <3>3
  <2>8. CASE UNCHANGED vars
    BY <1>0, <2>8 DEF vars
  <2>9. ASSUME NEW q, ExecutorRewind(q)
        PROVE  UNCHANGED <<doc, file, isFirstNodeCall>>
    BY <2>9 DEF ExecutorRewind
  <2>10. QED
    BY <1>0, <1>3, <2>1, <2>2, <2>3, <2>4, <2>5, <2>6, <2>7, <2>8, <2>9 DEF Elsewhere
<1>4. ASSUME NEW q \in Queries, Executes(q)
      PROVE  doc' \in Document /\ file' \in {"closed", "open"} /\ isFirstNodeCall' \in BOOLEAN
  <2>1. PICK kind, hook : Execute(kind, q, hook)
    BY <1>4 DEF Executes
  <2>2. UNCHANGED file
    BY <2>1 DEF Execute
  <2>3. CASE hook
    <3> DEFINE tokens == (IF isFirstNodeCall THEN <<>> ELSE <<",">>) \o Beginning
    <3>1. TracePrintf(tokens) /\ isFirstNodeCall' = TRUE
      BY <2>1, <2>3 DEF Execute, BeforeExecution, Beginning
    <3>2. tokens \in Seq(Token)
      <4>1. (IF isFirstNodeCall THEN <<>> ELSE <<",">>) \in Seq(Token)
        BY TokenTypes, NothingType
      <4>2. \A p \in Seq(Token) : p \o Beginning \in Seq(Token)
        BY TokenTypes, Joined
      <4>3. QED
        BY <4>1, <4>2
    <3> HIDE DEF tokens
    <3>3. doc' \in Document
      BY <1>0, <3>1, <3>2, Printing
    <3>4. QED
      BY <1>0, <2>2, <3>1, <3>3
  <2>4. CASE ~hook
    BY <1>0, <2>1, <2>2, <2>4 DEF Execute
  <2>5. QED
    BY <2>3, <2>4
<1>5. ASSUME NEW q \in Queries, ExecutorStart(q) \/ ExecutorEnd(q)
      PROVE  UNCHANGED <<doc, file, isFirstNodeCall>>
  BY <1>5 DEF ExecutorStart, ExecutorEnd
<1>6. CASE TraceExecProcNodeHook \/ TraceExprNodeHook
  BY <1>0, <1>6 DEF TraceExecProcNodeHook, TraceExprNodeHook, Hook
<1>7. CASE Leaving
  <2>1. CASE ReturnFromStart \/ UnwindStart \/ UnwindHook
    BY <1>0, <2>1 DEF ReturnFromStart, UnwindStart, UnwindHook
  <2>2. CASE ReturnFromHook
    <3>1. UNCHANGED file
      BY <2>2 DEF ReturnFromHook
    <3>2. CASE currentState = NoState
      BY <1>0, <2>2, <3>1, <3>2 DEF ReturnFromHook
    <3>3. CASE currentState # NoState
      <4> DEFINE tokens == IF isFirstNodeCall THEN <<"event">> ELSE <<",", "event">>
      <4>1. TracePrintf(tokens) /\ isFirstNodeCall' = FALSE
        BY <2>2, <3>3 DEF ReturnFromHook, Event
      <4>2. tokens \in Seq(Token)
        BY TokenTypes
      <4> HIDE DEF tokens
      <4>3. QED
        BY <1>0, <3>1, <4>1, <4>2, Printing
    <3>4. QED
      BY <3>2, <3>3
  <2>3. CASE ReturnFromExecution \/ UnwindExecution
    <3>1. Finally
      BY <2>3 DEF ReturnFromExecution, UnwindExecution
    <3>2. CASE ~Top.traced
      BY <1>0, <3>1, <3>2 DEF Finally
    <3>3. CASE Top.traced
      <4>1. AfterExecution /\ isFirstNodeCall' = FALSE
        BY <3>1, <3>3 DEF Finally
      <4>2. CASE ~context
        <5> DEFINE tokens == Stopped \o IF nestLevel = 1 THEN Closing ELSE <<>>
        <5>1. TracePrintf(tokens) /\ file' \in {file, "closed"}
          BY <4>1, <4>2 DEF AfterExecution, Stopped, Closing
        <5>2. tokens \in Seq(Token)
          <6>1. (IF nestLevel = 1 THEN Closing ELSE <<>>) \in Seq(Token)
            BY TokenTypes, NothingType
          <6>2. \A p \in Seq(Token) : Stopped \o p \in Seq(Token)
            BY TokenTypes, Joined
          <6>3. QED
            BY <6>1, <6>2
        <5> HIDE DEF tokens
        <5>3. doc' \in Document
          BY <1>0, <5>1, <5>2, Printing
        <5>4. QED
          BY <1>0, <4>1, <5>1, <5>3
      <4>3. CASE context /\ currentState = NoState
        BY <1>0, <4>1, <4>3 DEF AfterExecution
      <4>4. CASE context /\ currentState # NoState
        <5> DEFINE tokens == <<"]", ",", "member">> \o ExecutorTraceDumpAndClearStat \o <<"}">>
        <5>1. TracePrintf(tokens) /\ UNCHANGED file
          BY <4>1, <4>4 DEF AfterExecution
        <5>2. \A m \in Nat, l \in {"open", "value"}, s \in BOOLEAN : tokens \in Seq(Token)
          BY WriteEnding
        <5>3. 0 \in Nat /\ "open" \in {"open", "value"} /\ TRUE \in BOOLEAN
          OBVIOUS
        <5>4. tokens \in Seq(Token)
          BY <5>2, <5>3
        <5> HIDE DEF tokens
        <5>5. doc' \in Document
          BY <1>0, <5>1, <5>4, Printing
        <5>6. QED
          BY <1>0, <4>1, <5>1, <5>5
      <4>5. QED
        BY <4>2, <4>3, <4>4
    <3>4. QED
      BY <3>2, <3>3
  <2>4. QED
    BY <1>7, <2>1, <2>2, <2>3 DEF Leaving
<1>8. QED
  BY <1>0, <1>1, <1>2, <1>3, <1>4, <1>5, <1>6, <1>7, Steps

Outcomes == {"ok", "exited", "fatal", "crashed", "wrong result", "wild write"}
Circumstances == {"again", "restarted", "old query", "stopped outside", "slept",
                  "failed start", "limit raised", "rewound", "slots"}

SessionType ==
    /\ context \in BOOLEAN /\ attached \in BOOLEAN
    /\ isExecuteTime \in BOOLEAN /\ raised \in BOOLEAN
    /\ pending \subseteq {"start", "stop"}
    /\ open \subseteq Queries
    /\ kept \subseteq {"parsing", "planning", "params"}
    /\ waitEvent \in {"none", "map", "freed", "forgotten"}
    /\ outcome \in Outcomes
    /\ causes \subseteq Circumstances
    /\ features \in Sessions

LEMMA KnownCircumstances ==
    /\ {"again"} \subseteq Circumstances /\ {"restarted"} \subseteq Circumstances
    /\ {"old query"} \subseteq Circumstances /\ {"stopped outside"} \subseteq Circumstances
    /\ {"slept"} \subseteq Circumstances /\ {"failed start"} \subseteq Circumstances
    /\ {"limit raised"} \subseteq Circumstances /\ {"rewound"} \subseteq Circumstances
    /\ {"slots"} \subseteq Circumstances /\ {} \subseteq Circumstances
  BY DEF Circumstances

LEMMA KnownOutcomes ==
    /\ "ok" \in Outcomes /\ "exited" \in Outcomes /\ "fatal" \in Outcomes
    /\ "crashed" \in Outcomes
    /\ "wrong result" \in Outcomes /\ "wild write" \in Outcomes
  BY DEF Outcomes

\* The circumstances a step may add.
LEMMA CausesStep ==
    ASSUME causes \subseteq Circumstances, [Next]_vars
    PROVE  causes' \subseteq Circumstances
<1> USE DEF history
<1>0. ASSUME NEW A, NEW B, A \subseteq Circumstances, B \subseteq Circumstances,
             causes' = (causes \cup A) \cup B
      PROVE  causes' \subseteq Circumstances
  BY <1>0
<1>1. CASE Starting
  <2>1. PICK ok : SessionTraceStart(ok)
    BY <1>1 DEF Starting, start_session_trace, StartPending
  <2>2. CASE tracing
    BY <2>1, <2>2 DEF SessionTraceStart
  <2>3. CASE ~tracing /\ StartSucceeds
    <3> DEFINE A == IF isFirstNodeCall THEN {} ELSE {"again"}
               B == IF nestLevel > 0 THEN {"restarted"} ELSE {}
               C == IF exits < MaxExits THEN {} ELSE {"slots"}
    <3>1. causes' = ((causes \cup A) \cup B) \cup C
      BY <2>3 DEF StartSucceeds
    <3>2. A \subseteq Circumstances /\ B \subseteq Circumstances /\ C \subseteq Circumstances
      BY KnownCircumstances
    <3> HIDE DEF A, B, C
    <3>3. causes' = (causes \cup A) \cup (B \cup C) /\ B \cup C \subseteq Circumstances
      BY <3>1, <3>2
    <3>4. QED
      BY <1>0, <3>2, <3>3
  <2>4. CASE ~tracing /\ StartCannotOpen
    <3> DEFINE B == IF nestLevel > 0 THEN {"restarted"} ELSE {}
    <3>1. causes' = causes \cup B
      BY <2>4 DEF StartCannotOpen
    <3>2. B \subseteq Circumstances
      BY KnownCircumstances
    <3> HIDE DEF B
    <3>3. QED
      BY <3>1, <3>2
  <2>5. CASE ~tracing /\ StartCannotAttach
    <3> DEFINE B == {"failed start"}
    <3>1. causes' = causes \cup B \/ causes' = causes
      BY <2>5 DEF StartCannotAttach, Because
    <3>2. B \subseteq Circumstances
      BY KnownCircumstances
    <3> HIDE DEF B
    <3>3. QED
      BY <3>1, <3>2
  <2>6. QED
    BY <2>1, <2>2, <2>3, <2>4, <2>5 DEF SessionTraceStart
<1>2. CASE Stopping
  <2> DEFINE B == {"stopped outside"}
  <2>1. causes' = causes \cup B \/ causes' = causes
    BY <1>2 DEF Stopping, stop_session_trace, StopPending, SessionTraceStop
  <2>2. B \subseteq Circumstances
    BY KnownCircumstances
  <2> HIDE DEF B
  <2>3. QED
    BY <2>1, <2>2
<1>3. CASE Elsewhere
  <2> USE DEF control
  <2>1. ASSUME NEW s, SigHandler(s)
        PROVE  UNCHANGED causes
    BY <2>1 DEF SigHandler
  <2>2. CASE Error \/ Catch \/ ParseOrPlan \/ ParseOrPlanFails
    BY <2>2 DEF Error, Catch, ParseOrPlan, ParseOrPlanFails
  <2>3. ASSUME NEW hasEvent, Wait(hasEvent)
        PROVE  UNCHANGED causes
    BY <2>3 DEF Wait
  <2>4. CASE PGSemaphoreLock
    <3> DEFINE B == {"slept"}
    <3>1. causes' = causes \cup B
      BY <2>4 DEF PGSemaphoreLock, Because
    <3>2. B \subseteq Circumstances
      BY KnownCircumstances
    <3> HIDE DEF B
    <3>3. QED
      BY <3>1, <3>2
  <2>5. CASE RaiseLimit
    <3> DEFINE B == {"limit raised"}
    <3>1. causes' = causes \cup B
      BY <2>5 DEF RaiseLimit, Because
    <3>2. B \subseteq Circumstances
      BY KnownCircumstances
    <3> HIDE DEF B
    <3>3. QED
      BY <3>1, <3>2
  <2>6. CASE LockBuffer \/ TraceNotNormalShutdown \/ UNCHANGED vars
    BY <2>6 DEF LockBuffer, TraceNotNormalShutdown, vars
  <2>7. ASSUME NEW q, ExecutorRewind(q)
        PROVE  causes' \subseteq Circumstances
    <3> DEFINE B == {"rewound"}
    <3>1. causes' = causes \cup B
      BY <2>7 DEF ExecutorRewind, Because
    <3>2. B \subseteq Circumstances
      BY KnownCircumstances
    <3> HIDE DEF B
    <3>3. QED
      BY <3>1, <3>2
  <2>8. QED
    BY <1>3, <2>1, <2>2, <2>3, <2>4, <2>5, <2>6, <2>7 DEF Elsewhere
<1>4. ASSUME NEW q \in Queries, Executes(q)
      PROVE  causes' \subseteq Circumstances
  <2> DEFINE B == {"old query"}
  <2>1. causes' = causes \cup B \/ causes' = causes
    BY <1>4 DEF Executes, Execute
  <2>2. B \subseteq Circumstances
    BY KnownCircumstances
  <2> HIDE DEF B
  <2>3. QED
    BY <2>1, <2>2
<1>5. ASSUME NEW q \in Queries, ExecutorStart(q) \/ ExecutorEnd(q)
      PROVE  UNCHANGED causes
  BY <1>5 DEF ExecutorStart, ExecutorEnd
<1>6. CASE TraceExecProcNodeHook \/ TraceExprNodeHook
  BY <1>6 DEF TraceExecProcNodeHook, TraceExprNodeHook, Hook
<1>7. CASE Leaving
  BY <1>7 DEF Leaving, ReturnFromStart, UnwindStart, ReturnFromExecution, UnwindExecution,
              ReturnFromHook, UnwindHook
<1>8. QED
  BY <1>1, <1>2, <1>3, <1>4, <1>5, <1>6, <1>7, Steps

\* How a step may end the session.
LEMMA OutcomeStep ==
    ASSUME outcome \in Outcomes, [Next]_vars
    PROVE  outcome' \in Outcomes
<1>1. CASE Starting
  <2>1. UNCHANGED outcome \/ outcome' \in {"crashed", "fatal"}
    BY <1>1 DEF Starting, start_session_trace, StartPending, SessionTraceStart, StartSucceeds,
                StartCannotOpen, StartCannotAttach, Ends
  <2>2. QED
    BY <2>1, KnownOutcomes
<1>2. CASE Stopping
  BY <1>2 DEF Stopping, stop_session_trace, StopPending, SessionTraceStop
<1>3. CASE Elsewhere
  <2> USE DEF control
  <2>1. ASSUME NEW s, SigHandler(s)
        PROVE  UNCHANGED outcome
    BY <2>1 DEF SigHandler
  <2>2. CASE Error \/ Catch \/ ParseOrPlan \/ ParseOrPlanFails
    BY <2>2 DEF Error, Catch, ParseOrPlan, ParseOrPlanFails
  <2>3. ASSUME NEW hasEvent, Wait(hasEvent)
        PROVE  outcome' \in Outcomes
    BY <2>3, KnownOutcomes DEF Wait, Ends
  <2>4. CASE PGSemaphoreLock \/ RaiseLimit \/ UNCHANGED vars
    BY <2>4 DEF PGSemaphoreLock, RaiseLimit, vars
  <2>5. CASE LockBuffer \/ TraceNotNormalShutdown
    BY <2>5, KnownOutcomes DEF LockBuffer, TraceNotNormalShutdown, Ends
  <2>6. ASSUME NEW q, ExecutorRewind(q)
        PROVE  outcome' \in Outcomes
    <3> DEFINE wrong == "wrong result"
    <3>1. outcome' = CASE currentState = q       -> outcome
                       [] currentState = NoState -> "crashed"
                       [] OTHER                  -> wrong
      BY <2>6 DEF ExecutorRewind
    <3>2. "crashed" \in Outcomes /\ wrong \in Outcomes
      BY KnownOutcomes
    <3> HIDE DEF wrong
    <3>3. QED
      BY <3>1, <3>2
  <2>7. QED
    BY <1>3, <2>1, <2>2, <2>3, <2>4, <2>5, <2>6 DEF Elsewhere
<1>4. ASSUME NEW q \in Queries, Executes(q) \/ ExecutorStart(q) \/ ExecutorEnd(q)
      PROVE  UNCHANGED outcome
  BY <1>4 DEF Executes, Execute, ExecutorStart, ExecutorEnd, control
<1>5. CASE TraceExecProcNodeHook \/ TraceExprNodeHook
  BY <1>5, KnownOutcomes DEF TraceExecProcNodeHook, TraceExprNodeHook, Hook, Ends
<1>6. CASE Leaving
  BY <1>6, LeavingStates, KnownOutcomes
<1>7. QED
  BY <1>1, <1>2, <1>3, <1>4, <1>5, <1>6, Steps

LEMMA StatisticsFunctions ==
    /\ \A k \in SUBSET {"parsing", "planning", "params"} :
          PlanningWriteData(ParsingWriteData(k)) \in SUBSET {"parsing", "planning", "params"}
    /\ \A w \in {"none", "map", "freed", "forgotten"} :
          /\ TraceWaitEventsClearStat(w) \in {"none", "map", "freed", "forgotten"}
          /\ TraceWaitEventDumpStat(w) \in {"none", "map", "freed", "forgotten"}
          /\ TraceWaitEventsUprobesGet(w) \in {"none", "map", "freed", "forgotten"}
  BY DEF PlanningWriteData, ParsingWriteData, TraceWaitEventsClearStat, TraceWaitEventDumpStat,
         TraceWaitEventsUprobesGet

LEMMA RaiseType == Raise => raised' \in BOOLEAN
  BY DEF Raise

LEMMA SessionTypeStep ==
    ASSUME SessionType, ControlType, [Next]_vars
    PROVE  SessionType'
<1> DEFINE Waits == {"none", "map", "freed", "forgotten"}
           Data  == {"parsing", "planning", "params"}
           Rest  == /\ context' \in BOOLEAN /\ attached' \in BOOLEAN
                    /\ isExecuteTime' \in BOOLEAN /\ raised' \in BOOLEAN
                    /\ pending' \subseteq {"start", "stop"}
                    /\ open' \subseteq Queries
                    /\ kept' \subseteq Data
                    /\ waitEvent' \in Waits
                    /\ features' \in Sessions
<1>0. /\ context \in BOOLEAN /\ attached \in BOOLEAN
      /\ isExecuteTime \in BOOLEAN /\ raised \in BOOLEAN
      /\ pending \subseteq {"start", "stop"}
      /\ open \subseteq Queries
      /\ kept \subseteq Data
      /\ waitEvent \in Waits
      /\ features \in Sessions
  BY DEF SessionType
<1>a. causes' \subseteq Circumstances /\ outcome' \in Outcomes
  BY CausesStep, OutcomeStep DEF SessionType
<1>b. SUFFICES Rest
  BY <1>a DEF SessionType
<1>c. /\ PlanningWriteData(ParsingWriteData(kept)) \subseteq Data
      /\ TraceWaitEventsClearStat(waitEvent) \in Waits
      /\ TraceWaitEventDumpStat(waitEvent) \in Waits
      /\ TraceWaitEventsUprobesGet(waitEvent) \in Waits
  BY <1>0, StatisticsFunctions
<1> USE DEF trace, writing, control, history, statistics
<1>1. CASE Starting
  <2>1. PICK ok : /\ SessionTraceStart(ok) /\ UNCHANGED open
                  /\ pending' \in {pending, pending \ {"start"}}
                  /\ UNCHANGED raised \/ Raise
    BY <1>1 DEF Starting, start_session_trace, StartPending
  <2>2. raised' \in BOOLEAN /\ pending' \subseteq {"start", "stop"} /\ open' \subseteq Queries
    BY <1>0, <2>1, RaiseType
  <2>3. CASE tracing
    BY <1>0, <2>1, <2>2, <2>3 DEF SessionTraceStart
  <2>4. CASE ~tracing /\ StartSucceeds
    BY <1>0, <1>c, <2>2, <2>4 DEF StartSucceeds
  <2>5. CASE ~tracing /\ StartCannotOpen
    BY <1>0, <2>2, <2>5 DEF StartCannotOpen
  <2>6. CASE ~tracing /\ StartCannotAttach
    <3>1. /\ context' = FALSE /\ UNCHANGED <<kept, isExecuteTime, features>>
          /\ attached' \in {TRUE, attached}
          /\ waitEvent' \in {TraceWaitEventsUprobesGet(waitEvent),
                             TraceWaitEventsClearStat(waitEvent), waitEvent}
      BY <2>6 DEF StartCannotAttach
    <3>2. QED
      BY <1>0, <1>c, <2>2, <3>1
  <2>7. QED
    BY <2>1, <2>3, <2>4, <2>5, <2>6 DEF SessionTraceStart
<1>2. CASE Stopping
  <2>1. PICK closeFile, ok :
             /\ SessionTraceStop(closeFile, ok) /\ UNCHANGED open
             /\ pending' \in {pending, {}}
             /\ UNCHANGED raised \/ Raise
    BY <1>2 DEF Stopping, stop_session_trace, StopPending
  <2>2. raised' \in BOOLEAN /\ pending' \subseteq {"start", "stop"} /\ open' \subseteq Queries
    BY <1>0, <2>1, RaiseType
  <2>3. QED
    BY <1>0, <2>1, <2>2 DEF SessionTraceStop, ClearData
<1>3. CASE Elsewhere
  <2>1. ASSUME NEW s \in {"start", "stop"}, SigHandler(s)
        PROVE  Rest
    BY <1>0, <2>1 DEF SigHandler
  <2>2. CASE Error \/ Catch
    <3>1. raised' \in BOOLEAN
      BY <2>2, RaiseType DEF Error, Catch
    <3>2. QED
      BY <1>0, <2>2, <3>1 DEF Error, Catch
  <2>3. CASE ParseOrPlan
    <3>1. kept' \subseteq Data /\ UNCHANGED waitEvent
      BY <1>0, <2>3 DEF ParseOrPlan, RawParser, Planner, GetCachedPlan, Keep
    <3>2. QED
      BY <1>0, <2>3, <3>1 DEF ParseOrPlan
  <2>4. CASE ParseOrPlanFails
    <3>1. raised' \in BOOLEAN
      BY <2>4, RaiseType DEF ParseOrPlanFails
    <3>2. QED
      BY <1>0, <2>4, <3>1 DEF ParseOrPlanFails, CallFails
  <2>5. ASSUME NEW hasEvent, Wait(hasEvent)
        PROVE  Rest
    BY <1>0, <2>5 DEF Wait, WaitFunction
  <2>6. CASE PGSemaphoreLock
    BY <1>0, <2>6 DEF PGSemaphoreLock, SignalWaitEvent
  <2>7. CASE LockBuffer
    BY <1>0, <2>7 DEF LockBuffer
  <2>8. CASE RaiseLimit \/ TraceNotNormalShutdown
    BY <1>0, <2>8 DEF RaiseLimit, TraceNotNormalShutdown
  <2>9. CASE UNCHANGED vars
    BY <1>0, <2>9 DEF vars
  <2>10. ASSUME NEW q, ExecutorRewind(q)
         PROVE  Rest
    BY <1>0, <2>10 DEF ExecutorRewind
  <2>11. QED
    BY <1>3, <2>1, <2>2, <2>3, <2>4, <2>5, <2>6, <2>7, <2>8, <2>9, <2>10 DEF Elsewhere
<1>4. ASSUME NEW q \in Queries, Executes(q)
      PROVE  Rest
  <2>1. PICK kind, hook : Execute(kind, q, hook)
    BY <1>4 DEF Executes
  <2>2. CASE hook
    <3>1. /\ isExecuteTime' = TRUE
          /\ kept' = PlanningWriteData(ParsingWriteData(kept))
          /\ waitEvent' = TraceWaitEventsClearStat(waitEvent)
      BY <2>1, <2>2 DEF Execute, BeforeExecution
    <3>2. QED
      BY <1>0, <1>c, <2>1, <3>1 DEF Execute
  <2>3. CASE ~hook
    BY <1>0, <2>1, <2>3 DEF Execute
  <2>4. QED
    BY <2>2, <2>3
<1>5. ASSUME NEW q \in Queries, ExecutorStart(q)
      PROVE  Rest
  BY <1>0, <1>5 DEF ExecutorStart
<1>6. ASSUME NEW q \in Queries, ExecutorEnd(q)
      PROVE  Rest
  BY <1>0, <1>6 DEF ExecutorEnd
<1>7. CASE TraceExecProcNodeHook \/ TraceExprNodeHook
  BY <1>0, <1>7 DEF TraceExecProcNodeHook, TraceExprNodeHook, Hook
<1>8. CASE ReturnFromStart
  <2>1. Top.query \in Queries
    <3>1. frames # <<>> /\ frames \in Seq(FrameSet)
      BY <1>8 DEF ReturnFromStart, Returning, ControlType
    <3>2. Top \in FrameSet
      BY <3>1, FrontFrames DEF Top
    <3>3. QED
      BY <3>2 DEF FrameSet
  <2>2. QED
    BY <1>0, <1>8, <2>1 DEF ReturnFromStart
<1>9. CASE UnwindStart \/ UnwindHook
  BY <1>0, <1>9 DEF UnwindStart, UnwindHook
<1>10. CASE ReturnFromHook
  BY <1>0, <1>10 DEF ReturnFromHook
<1>11. CASE ReturnFromExecution \/ UnwindExecution
  <2>1. /\ Finally /\ UNCHANGED <<context, attached, pending, raised, features>>
        /\ open' \in {open, open \ {Top.query}}
    BY <1>11 DEF ReturnFromExecution, UnwindExecution
  <2>2. /\ isExecuteTime' \in {isExecuteTime, FALSE} /\ UNCHANGED kept
        /\ waitEvent' \in {waitEvent, TraceWaitEventDumpStat(waitEvent)}
    BY <2>1 DEF Finally, AfterExecution
  <2>3. QED
    BY <1>0, <1>c, <2>1, <2>2
<1>12. QED
  BY <1>1, <1>2, <1>3, <1>4, <1>5, <1>6, <1>7, <1>8, <1>9, <1>10, <1>11, Steps DEF Leaving

-----------------------------------------------------------------------------
\* The bounds.

Deep == Len(frames) <= MaxDepth

\* How a step changes the stack; a frame is entered only when there is room.
LEMMA FramesChange ==
    ASSUME ControlType, [Next]_vars
    PROVE  \/ frames' = frames \/ frames' = Orphaned
           \/ frames # <<>> /\ frames' = Front(frames)
           \/ RoomToCall /\ \E f \in FrameSet : frames' = Append(frames, f)
<1>1. CASE Starting \/ Elsewhere
  BY <1>1, StartingCases, ElsewhereStays
<1>2. CASE Stopping
  BY <1>2, StoppingCases
<1>3. ASSUME NEW q \in Queries, Executes(q), RoomToCall
      PROVE  \E f \in FrameSet : frames' = Append(frames, f)
  BY <1>3, ExecutesStack
<1>4. ASSUME NEW q \in Queries, ExecutorStart(q)
      PROVE  \/ frames' = frames
             \/ RoomToCall /\ (\E f \in FrameSet : frames' = Append(frames, f))
  <2>1. RoomToCall
    BY <1>4 DEF ExecutorStart
  <2>2. frames' = frames \/ (\E f \in FrameSet : frames' = Append(frames, f))
    <3>1. \E k \in Queries : ExecutorStart(k)
      BY <1>4
    <3>2. \/ frames' = frames
          \/ \E f \in FrameSet : frames' = Append(frames, f) /\ f.kind \notin Executing
      BY <3>1, OtherStack
    <3>3. QED
      BY <3>2
  <2>3. QED
    BY <2>1, <2>2
<1>5. CASE TraceExecProcNodeHook \/ TraceExprNodeHook
  BY <1>5, OtherStack DEF TraceExecProcNodeHook, TraceExprNodeHook
<1>6. ASSUME NEW q \in Queries, ExecutorEnd(q)
      PROVE  UNCHANGED frames
  BY <1>6 DEF ExecutorEnd, control
<1>7. CASE Leaving
  BY <1>7, LeaveStack
<1>8. \/ Starting \/ Stopping \/ Elsewhere
      \/ \E q \in Queries : (Executes(q) /\ RoomToCall) \/ ExecutorStart(q) \/ ExecutorEnd(q)
      \/ TraceExecProcNodeHook \/ TraceExprNodeHook \/ Leaving
  <2>1. ASSUME NEW q \in Queries,
               \/ ExecutorRun(q) \/ ProcessUtility(q)
               \/ \E aux \in BOOLEAN : ExecutorFinish(q, aux)
        PROVE  Executes(q) /\ RoomToCall
    BY <2>1 DEF Executes, ExecutorRun, ProcessUtility, ExecutorFinish, Calling, Returning
  <2>2. QED
    BY <2>1 DEF Next, Starting, Stopping, Elsewhere, Leaving
<1>9. QED
  BY <1>1, <1>2, <1>3, <1>4, <1>5, <1>6, <1>7, <1>8

\* The stack stays within its bound.
LEMMA DeepStep == ASSUME ControlType, Deep, [Next]_vars PROVE Deep'
<1>0. /\ frames \in Seq(FrameSet) /\ Len(frames) \in Nat
      /\ MaxDepth \in Nat /\ Len(frames) <= MaxDepth
  BY SessionTraceAssumption DEF ControlType, Deep
<1>1. CASE frames' = frames
  BY <1>0, <1>1 DEF Deep
<1>2. CASE frames' = Orphaned
  <2>1. Orphaned \in Seq(FrameSet) /\ DOMAIN Orphaned = DOMAIN frames
    BY <1>0, CountOrphaned, OrphanedFrames
  <2>2. \A s, t \in Seq(FrameSet) : DOMAIN s = DOMAIN t => Len(s) = Len(t)
    BY LenProperties
  <2>3. Len(frames') = Len(frames)
    BY <1>0, <1>2, <2>1, <2>2
  <2>4. QED
    BY <1>0, <2>3 DEF Deep
<1>3. CASE frames # <<>> /\ frames' = Front(frames)
  <2>1. Len(frames') = Len(frames) - 1
    BY <1>0, <1>3, FrontFrames
  <2>2. QED
    BY <1>0, <2>1 DEF Deep
<1>4. CASE RoomToCall /\ \E f \in FrameSet : frames' = Append(frames, f)
  <2>1. Len(frames') = Len(frames) + 1 /\ Len(frames) < MaxDepth
    BY <1>0, <1>4, AppendedFrames DEF RoomToCall
  <2>2. QED
    BY <1>0, <2>1 DEF Deep
<1>5. QED
  BY <1>1, <1>2, <1>3, <1>4, FramesChange

\* There are at most as many traced executions as frames.
LEMMA LevelBound ==
    ASSUME ControlType, NestLevelIsDepth, Deep
    PROVE  nestLevel \in 0 .. MaxDepth
<1>0. /\ frames \in Seq(FrameSet) /\ Len(frames) \in Nat
      /\ MaxDepth \in Nat /\ Len(frames) <= MaxDepth
  BY SessionTraceAssumption DEF ControlType, Deep
<1>1. nestLevel = Cardinality(Counted(frames)) /\ nestLevel \in Nat
      /\ Counted(frames) \subseteq 1 .. Len(frames)
  BY <1>0, CountedFinite, DepthIsCounted DEF NestLevelIsDepth
<1>2. IsFiniteSet(1 .. Len(frames)) /\ Cardinality(1 .. Len(frames)) = Len(frames)
  <2>1. 1 \in Int /\ Len(frames) \in Int
    BY <1>0
  <2>2. /\ IsFiniteSet(1 .. Len(frames))
        /\ Cardinality(1 .. Len(frames)) = IF 1 > Len(frames) THEN 0 ELSE Len(frames) - 1 + 1
    BY <2>1, FS_Interval
  <2>3. (IF 1 > Len(frames) THEN 0 ELSE Len(frames) - 1 + 1) = Len(frames)
    BY <1>0
  <2>4. QED
    BY <2>2, <2>3
<1>3. nestLevel <= Len(frames)
  BY <1>1, <1>2, FS_Subset
<1>4. QED
  BY <1>0, <1>1, <1>3

\* Without a trace no storage is left behind by an error.
Forgotten == ~tracing => orphans = 0
OrphanInv == Forgotten /\ orphans <= storages

\* Errors leave storages behind only under a trace.
LEMMA ForgottenStep ==
    ASSUME ControlType, LiveTraced, Forgotten, [Next]_vars
    PROVE  Forgotten'
<1> USE DEF trace, history
<1>1. CASE Starting
  <2>1. PICK ok : SessionTraceStart(ok)
    BY <1>1 DEF Starting, start_session_trace, StartPending
  <2>2. UNCHANGED <<tracing, orphans>> \/ orphans' = 0
    BY <2>1 DEF SessionTraceStart, StartSucceeds, StartCannotOpen, StartCannotAttach
  <2>3. QED
    BY <2>2 DEF Forgotten
<1>2. CASE Stopping
  <2>1. UNCHANGED <<tracing, orphans>> \/ orphans' = 0
    BY <1>2 DEF Stopping, stop_session_trace, StopPending, SessionTraceStop
  <2>2. QED
    BY <2>1 DEF Forgotten
<1>3. CASE Elsewhere
  <2>1. UNCHANGED <<tracing, orphans>> \/ tracing'
    <3>1. ASSUME NEW s, SigHandler(s)
          PROVE  UNCHANGED <<tracing, orphans>>
      BY <3>1 DEF SigHandler
    <3>2. ASSUME NEW hasEvent, Wait(hasEvent)
          PROVE  UNCHANGED <<tracing, orphans>>
      BY <3>2 DEF Wait
    <3>3. CASE ParseOrPlanFails
      <4>1. tracing /\ UNCHANGED tracing
        BY <3>3 DEF ParseOrPlanFails
      <4>2. QED
        BY <4>1
    <3>4. CASE Error \/ Catch \/ ParseOrPlan \/ LockBuffer
      BY <3>4 DEF Error, Catch, ParseOrPlan, LockBuffer
    <3>5. CASE PGSemaphoreLock \/ RaiseLimit \/ TraceNotNormalShutdown \/ UNCHANGED vars
      BY <3>5 DEF PGSemaphoreLock, RaiseLimit, TraceNotNormalShutdown, vars
    <3>6. ASSUME NEW q, ExecutorRewind(q)
          PROVE  UNCHANGED <<tracing, orphans>>
      BY <3>6 DEF ExecutorRewind
    <3>7. QED
      BY <1>3, <3>1, <3>2, <3>3, <3>4, <3>5, <3>6 DEF Elsewhere
  <2>2. QED
    BY <2>1 DEF Forgotten
<1>4. ASSUME NEW q \in Queries, Executes(q) \/ ExecutorStart(q) \/ ExecutorEnd(q)
      PROVE  Forgotten'
  BY <1>4 DEF Executes, Execute, ExecutorStart, ExecutorEnd, Forgotten
<1>5. CASE TraceExecProcNodeHook \/ TraceExprNodeHook
  BY <1>5 DEF TraceExecProcNodeHook, TraceExprNodeHook, Hook, Forgotten
<1>6. CASE Leaving
  <2>1. CASE UnwindHook
    <3>1. frames \in Seq(FrameSet) /\ frames # <<>>
      BY <2>1 DEF UnwindHook, Unwinding, ControlType
    <3>2. Len(frames) \in DOMAIN frames /\ Top = frames[Len(frames)]
      BY <3>1 DEF Top, Last
    <3>3. Top.live => tracing
      BY <3>2 DEF LiveTraced
    <3>4. UNCHANGED tracing /\ orphans' = IF Top.live /\ perNode THEN orphans + 1 ELSE orphans
      BY <2>1 DEF UnwindHook
    <3>5. QED
      BY <3>3, <3>4 DEF Forgotten
  <2>2. CASE ~UnwindHook
    <3>1. UNCHANGED <<tracing, orphans>>
      BY <1>6, <2>2 DEF Leaving, ReturnFromStart, UnwindStart, ReturnFromExecution,
                        UnwindExecution, ReturnFromHook
    <3>2. QED
      BY <3>1 DEF Forgotten
  <2>3. QED
    BY <2>1, <2>2
<1>7. QED
  BY <1>1, <1>2, <1>3, <1>4, <1>5, <1>6, Steps

\* The step that ends a session leaves the storages as they are, ends its trace or
\* begins one.
LEMMA EndKeepsStorages ==
    ASSUME ControlType, [Next]_vars, outcome' # "ok", tracing'
    PROVE  (UNCHANGED <<storages, orphans>>) \/ orphans' = 0
<1> USE DEF trace, history, statistics
<1>a. CASE outcome # "ok"
  BY <1>a, Over DEF vars
<1>b. SUFFICES ASSUME outcome = "ok"
               PROVE  (UNCHANGED <<storages, orphans>>) \/ orphans' = 0
  BY <1>a
<1>1. CASE Starting
  <2>1. PICK ok : SessionTraceStart(ok)
    BY <1>1 DEF Starting, start_session_trace, StartPending
  <2>2. QED
    BY <1>b, <2>1 DEF SessionTraceStart, StartSucceeds, StartCannotOpen, StartCannotAttach
<1>2. CASE Stopping
  BY <1>b, <1>2 DEF Stopping, stop_session_trace, StopPending, SessionTraceStop
<1>3. CASE Elsewhere
  BY <1>b, <1>3 DEF Elsewhere, SigHandler, Error, Catch, ParseOrPlan, ParseOrPlanFails, Wait,
                    WaitFunction, LockBuffer, PGSemaphoreLock, RaiseLimit,
                    TraceNotNormalShutdown, ExecutorRewind, vars, control
<1>4. ASSUME NEW q \in Queries, Executes(q) \/ ExecutorStart(q) \/ ExecutorEnd(q)
      PROVE  FALSE
  BY <1>b, <1>4 DEF Executes, Execute, ExecutorStart, ExecutorEnd, control
<1>5. CASE TraceExecProcNodeHook \/ TraceExprNodeHook
  <2>1. PICK kind : Hook(kind) /\ frames # <<>>
    BY <1>5 DEF TraceExecProcNodeHook, TraceExprNodeHook, InPlan, Evaluating
  <2>2. Top.query \in Queries
    BY <2>1, CountLeft DEF Top, FrameSet, ControlType
  <2>3. currentState # Top.query
    BY <1>b, <2>1, <2>2, ExecuteNodesAssumption DEF Hook
  <2>4. QED
    BY <2>1, <2>3 DEF Hook
<1>6. CASE Leaving
  BY <1>b, <1>6 DEF Leaving, ReturnFromStart, UnwindStart, ReturnFromExecution,
                    UnwindExecution, ReturnFromHook, UnwindHook, Finally, AfterExecution
<1>7. QED
  BY <1>1, <1>2, <1>3, <1>4, <1>5, <1>6, Steps

\* And no more than there are: StorageInv counts them while the session lives.
LEMMA OrphanStep ==
    ASSUME ControlType, ControlType', LiveTraced, StorageType', StorageInv', OrphanInv,
           [Next]_vars
    PROVE  OrphanInv'
<1>1. Forgotten'
  BY ForgottenStep DEF OrphanInv
<1>2. storages' \in Nat /\ orphans' \in Nat /\ perNode' \in BOOLEAN /\ frames' \in Seq(FrameSet)
  BY DEF StorageType, ControlType
<1>3. CASE ~tracing'
  BY <1>1, <1>2, <1>3 DEF Forgotten, OrphanInv
<1>4. CASE tracing' /\ outcome' = "ok"
  <2>1. storages' = 1 + Held(frames', perNode') + orphans'
    BY <1>4 DEF StorageInv
  <2>2. Held(frames', perNode') \in Nat
    BY <1>2, HeldNat
  <2>3. orphans' <= storages'
    BY <1>2, <2>1, <2>2
  <2>4. QED
    BY <1>1, <2>3 DEF OrphanInv
<1>5. CASE tracing' /\ outcome' # "ok"
  <2>1. (UNCHANGED <<storages, orphans>>) \/ orphans' = 0
    BY <1>5, EndKeepsStorages
  <2>2. orphans' <= storages'
    BY <1>2, <2>1 DEF OrphanInv
  <2>3. QED
    BY <1>1, <2>2 DEF OrphanInv
<1>6. QED
  BY <1>3, <1>4, <1>5

-----------------------------------------------------------------------------
\* The invariant of types and document.

DocumentInv == Inv /\ DocType /\ DocInv /\ SessionType /\ Deep /\ OrphanInv

LEMMA InitDocument == Init => DocumentInv
<1> SUFFICES ASSUME Init PROVE DocumentInv
  OBVIOUS
<1>1. Inv
  BY InitStack
<1>2. /\ doc = NoDocument /\ file = "closed" /\ isFirstNodeCall = TRUE
      /\ context = FALSE /\ attached = FALSE /\ isExecuteTime = FALSE /\ raised = FALSE
      /\ pending = {} /\ open = {} /\ kept = {} /\ waitEvent = "none" /\ outcome = "ok"
      /\ causes = {} /\ features \in Sessions /\ frames = <<>> /\ orphans = 0 /\ storages = 0
  BY DEF Init, NodesInit, StatisticsInit
<1>3. NoDocument \in Document
  BY DEF NoDocument, Document
<1>4. DocType
  BY <1>2, <1>3 DEF DocType
<1>5. DocInv
  BY <1>2 DEF DocInv, Sound, Finished, NoDocument
<1>6. SessionType
  <2>1. outcome \in Outcomes /\ causes \subseteq Circumstances
    BY <1>2, KnownOutcomes, KnownCircumstances
  <2>2. QED
    BY <1>2, <2>1 DEF SessionType
<1>7. Deep
  BY <1>2, SessionTraceAssumption DEF Deep
<1>8. OrphanInv
  BY <1>2 DEF OrphanInv, Forgotten
<1>9. QED
  BY <1>1, <1>4, <1>5, <1>6, <1>7, <1>8 DEF DocumentInv

LEMMA DocumentStep == DocumentInv /\ [Next]_vars => DocumentInv'
<1> SUFFICES ASSUME DocumentInv, [Next]_vars PROVE DocumentInv'
  OBVIOUS
<1>1. Inv /\ DocType /\ DocInv /\ SessionType /\ Deep /\ OrphanInv
  BY DEF DocumentInv
<1>2. Inv'
  BY <1>1, InvStep
<1>3. /\ ControlType /\ NestLevelIsDepth /\ FileInv /\ NodesOfExecution /\ LiveTraced
      /\ ControlType' /\ StorageType' /\ StorageInv'
  BY <1>1, <1>2 DEF Inv, StackIInv, IInv, FrameInv
<1>4. DocInv' /\ DocType'
  BY <1>1, <1>3, DocStep, DocTypeStep
<1>5. SessionType' /\ Deep' /\ OrphanInv'
  BY <1>1, <1>3, SessionTypeStep, DeepStep, OrphanStep
<1>6. QED
  BY <1>2, <1>4, <1>5 DEF DocumentInv

\* The invariant the theorems below follow from.
THEOREM DocumentInvariance == Spec => []DocumentInv
<1>1. Init => DocumentInv
  BY InitDocument
<1>2. DocumentInv /\ [Next]_vars => DocumentInv'
  BY DocumentStep
<1>3. QED
  BY <1>1, <1>2, PTL DEF Spec

\* What TracePrintf has written is one JSON document as far as it goes, for any nesting
\* of executions, errors and stops inside of them, and for any place where the size
\* limit cuts it off; only the comma at the beginning of a second trace is out of place.
THEOREM DocumentIsWellFormed == Spec => []WellFormed
<1>1. DocumentInv => WellFormed
  BY DEF DocumentInv, DocInv, Sound, WellFormed
<1>2. QED
  BY <1>1, DocumentInvariance, PTL

\* Whoever closes the trace file, the stop, the outermost execution or the end of the
\* session, has closed every bracket of it before.
THEOREM ClosedDocumentIsComplete == Spec => []ClosedIsComplete
<1>1. DocumentInv => ClosedIsComplete
  BY DEF DocumentInv, DocInv, Finished, ClosedIsComplete
<1>2. QED
  BY <1>1, DocumentInvariance, PTL

\* Every variable has its type; the level is bounded by the depth of the stack and an
\* error leaves no more storages behind than there are.
THEOREM TypesAreRight == Spec => []TypeOK
<1>1. ASSUME DocumentInv
      PROVE  TypeOK
  <2>1. /\ ControlType /\ NestLevelIsDepth /\ StackType /\ StorageType
        /\ DocType /\ SessionType /\ Deep /\ OrphanInv
    BY <1>1 DEF DocumentInv, Inv, StackIInv, IInv
  <2>2. NodesTypeOK
    BY <2>1 DEF NodesTypeOK, ControlType, StackType
  <2>3. StatisticsTypeOK
    BY <2>1 DEF StatisticsTypeOK, StorageType, SessionType
  <2>4. {tracing, context, perNode, attached, isExecuteTime, isFirstNodeCall, raised}
            \subseteq BOOLEAN
    BY <2>1 DEF ControlType, StorageType, SessionType, DocType
  <2>5. nestLevel \in 0 .. MaxDepth
    BY <2>1, LevelBound
  <2>6. file \in {"closed", "open"} /\ doc \in Document
    BY <2>1 DEF DocType
  <2>7. frames \in Seq([kind : Executing \cup {"start", "triggers", "node", "expr"},
                        query : Queries, traced : BOOLEAN, live : BOOLEAN])
    <3> DEFINE R == [kind : Executing \cup {"start", "triggers", "node", "expr"},
                     query : Queries, traced : BOOLEAN, live : BOOLEAN]
    <3>1. FrameSet \subseteq R /\ frames \in Seq(FrameSet)
      BY <2>1 DEF ControlType, FrameSet
    <3> HIDE DEF R
    <3>2. frames \in [1 .. Len(frames) -> R] /\ Len(frames) \in Nat
      BY <3>1
    <3>3. \A n \in Nat : \A f \in [1 .. n -> R] : f \in Seq(R)
      OBVIOUS
    <3>4. frames \in Seq(R)
      BY <3>2, <3>3
    <3>5. QED
      BY <3>4 DEF R
  <2>8. orphans \in 0 .. storages
    BY <2>1 DEF OrphanInv, StorageType
  <2>9. /\ pending \subseteq {"start", "stop"} /\ open \subseteq Queries
        /\ outcome \in Outcomes /\ causes \subseteq Circumstances /\ features \in Sessions
    BY <2>1 DEF SessionType
  <2>10. exits \in 0 .. MaxExits
    BY <1>1 DEF DocumentInv, Inv, ExitsInv
  <2>11. QED
    BY <2>2, <2>3, <2>4, <2>5, <2>6, <2>7, <2>8, <2>9, <2>10 DEF TypeOK, Outcomes, Circumstances
<1>2. QED
  BY <1>1, DocumentInvariance, PTL
=================================================================================
