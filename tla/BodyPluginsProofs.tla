-------------------------- MODULE BodyPluginsProofs --------------------------
(***************************************************************************)
(* Proofs about the plugins that rewrite a body.  What a recursive function *)
(* computes is proved by induction over places, which the first section     *)
(* derives from the least element of a set of numbers.  The sections on     *)
(* insertions, ads and tokens are about complete bodies; the last one       *)
(* brings them to the responses that stream through a plugin.               *)
(***************************************************************************)
EXTENDS BodyPlugins, FiniteSetTheorems, SequenceTheorems, TLAPS

-----------------------------------------------------------------------------
(* Numbers and loops.                                                       *)

\* A set of natural numbers has a least one, and Min finds it.
LEMMA MinIn ==
    ASSUME NEW T \in SUBSET Nat, T # {}
    PROVE  Min(T) \in T /\ \A y \in T : Min(T) <= y
<1>1. PICK x \in T : \A y \in T : ~(<<y, x>> \in OpToRel(<, Nat))
  BY NatLessThanWellFounded, WFMin
<1>2. OpToRel(<, Nat) = {p \in Nat \X Nat : p[1] < p[2]}
  BY DEF OpToRel
<1>3. ASSUME NEW y \in T PROVE x <= y
  <2>1. x \in Nat /\ y \in Nat /\ <<y, x>> \in Nat \X Nat
    OBVIOUS
  <2>2. ~(y < x)
    BY <1>1, <1>2, <2>1
  <2> QED BY <2>1, <2>2
<1> QED BY <1>3 DEF Min

\* A set of places up to n has a greatest one, and Max finds it.
LEMMA MaxIn ==
    ASSUME NEW n \in Nat, NEW T \in SUBSET (1..n), T # {}
    PROVE  Max(T) \in T /\ \A y \in T : Max(T) >= y
<1> DEFINE U == {n - i : i \in T}
<1>0. \A i \in T : i \in Nat /\ n - i \in Nat
  OBVIOUS
<1>1. U \in SUBSET Nat /\ U # {}
  BY <1>0
<1>2. Min(U) \in U /\ \A y \in U : Min(U) <= y
  BY <1>1, MinIn
<1>3. PICK x \in T : Min(U) = n - x
  BY <1>2
<1>4. ASSUME NEW y \in T PROVE x >= y
  <2>1. n - x <= n - y
    BY <1>2, <1>3
  <2> QED BY <1>0, <2>1
<1> QED BY <1>4 DEF Max

\* Induction from n down to 1, for the set T of the places where a claim holds.
LEMMA DownwardInduction ==
    ASSUME NEW n \in Nat, NEW T,
           \A i \in 1..n : (\A j \in (i + 1)..n : j \in T) => i \in T
    PROVE  \A i \in 1..n : i \in T
<1> DEFINE bad == {i \in 1..n : i \notin T}
<1>1. CASE bad # {}
  <2>1. Max(bad) \in bad /\ \A y \in bad : Max(bad) >= y
    BY <1>1, MaxIn
  <2>2. \A j \in (Max(bad) + 1)..n : j \in T
    BY <2>1
  <2> QED BY <2>1, <2>2
<1> QED BY <1>1

\* Sequences put one after the other.
LEMMA EmptySequence ==
    ASSUME NEW S, NEW s \in Seq(S), Len(s) = 0
    PROVE  s = <<>>
OBVIOUS

LEMMA ConcatLength ==
    ASSUME NEW S, NEW s \in Seq(S), NEW t \in Seq(S)
    PROVE  s \o t \in Seq(S) /\ Len(s \o t) = Len(s) + Len(t)
OBVIOUS

LEMMA ConcatAt ==
    ASSUME NEW S, NEW s \in Seq(S), NEW t \in Seq(S), NEW k \in 1..(Len(s) + Len(t))
    PROVE  (s \o t)[k] = IF k <= Len(s) THEN s[k] ELSE t[k - Len(s)]
OBVIOUS

\* What one part gains the other loses.
LEMMA MovedOver ==
    ASSUME NEW a \in Nat, NEW b \in Nat, NEW n \in Nat
    PROVE  (a + n) + (b - n) = a + b
OBVIOUS

\* A loop through the places 1 to n: at one in `stop' it ends with base, from any
\* other it goes on to a later one, next, and step makes its result of that.
IsLoop(n, V, stop, base, next, step) ==
    /\ n \in Nat /\ base \in [1..n -> V] /\ step \in [(1..n) \X V -> V]
    /\ \A i \in 1..n : i \notin stop => next[i] \in (i + 1)..n

LoopValue(f, i, stop, base, next, step) ==
    IF i \in stop THEN base[i] ELSE step[<<i, f[next[i]]>>]

LoopEnds(n, V, stop, base, next, step) ==
    \E f \in [1..n -> V] : \A i \in 1..n :
      f[i] = LoopValue(f, i, stop, base, next, step)

\* It has a result for every place, so that the recursive function with which the
\* model writes it exists.
LEMMA RecursionExists ==
    ASSUME NEW n, NEW V, NEW stop, NEW base, NEW next, NEW step,
           IsLoop(n, V, stop, base, next, step)
    PROVE  LoopEnds(n, V, stop, base, next, step)
<1>0. /\ n \in Nat /\ base \in [1..n -> V] /\ step \in [(1..n) \X V -> V]
      /\ \A i \in 1..n : i \notin stop => next[i] \in (i + 1)..n
  BY DEF IsLoop
<1> USE <1>0
<1> DEFINE Value(f, i) == IF i \in stop THEN base[i] ELSE step[<<i, f[next[i]]>>]
           Good(k) == \E f \in [1..n -> V] : \A i \in k..n : f[i] = Value(f, i)
           T == {k \in 1..(n + 1) : Good(k)}
<1>1. n + 1 \in T
  <2>1. \A i \in (n + 1)..n : base[i] = Value(base, i)
    OBVIOUS
  <2> QED BY <2>1
<1>2. ASSUME NEW k \in 1..(n + 1), \A j \in (k + 1)..(n + 1) : j \in T
      PROVE  k \in T
  <2>1. CASE k = n + 1
    BY <1>1, <2>1
  <2>2. CASE k \in 1..n
    <3>1. k + 1 \in T
      <4> HIDE DEF T
      <4> QED BY <1>2, <2>2
    <3>2. PICK f \in [1..n -> V] : \A i \in (k + 1)..n : f[i] = Value(f, i)
      BY <3>1
    <3> DEFINE g == [f EXCEPT ![k] = Value(f, k)]
    <3>3. Value(f, k) \in V
      BY <2>2, <3>2
    <3>4. g \in [1..n -> V]
      BY <3>3
    <3>5. ASSUME NEW i \in k..n PROVE g[i] = Value(g, i)
      <4>1. i \in 1..n /\ (i \notin stop => next[i] \in (i + 1)..n)
        BY <2>2
      <4>2. i \notin stop => g[next[i]] = f[next[i]]
        BY <4>1, <2>2
      <4>3. Value(g, i) = Value(f, i)
        <5>1. CASE i \in stop
          BY <5>1
        <5>2. CASE i \notin stop
          <6> HIDE DEF g
          <6> QED BY <4>2, <5>2
        <5> QED BY <5>1, <5>2
      <4>4. CASE i = k
        BY <4>3, <4>4, <2>2
      <4>5. CASE i \in (k + 1)..n
        BY <4>3, <4>5, <3>2, <2>2
      <4> QED BY <4>4, <4>5, <2>2
    <3> HIDE DEF g, Value
    <3> QED BY <3>4, <3>5
  <2> QED BY <2>1, <2>2
<1> HIDE DEF T
<1>3. 1 \in T
  <2>1. n + 1 \in Nat /\ 1 \in 1..(n + 1)
    OBVIOUS
  <2>2. \A k \in 1..(n + 1) : (\A j \in (k + 1)..(n + 1) : j \in T) => k \in T
    BY <1>2
  <2> QED BY <2>1, <2>2, DownwardInduction
<1> QED BY <1>3 DEF T, LoopEnds, LoopValue

\* Induction from 0 up to n, for the set T of the places where a claim holds.
LEMMA UpwardInduction ==
    ASSUME NEW n \in Nat, NEW T, 0 \in T,
           \A i \in 1..n : i - 1 \in T => i \in T
    PROVE  \A i \in 0..n : i \in T
<1> DEFINE bad == {i \in 0..n : i \notin T}
<1>1. CASE bad # {}
  <2>1. bad \in SUBSET Nat
    OBVIOUS
  <2>2. Min(bad) \in bad /\ \A y \in bad : Min(bad) <= y
    BY <1>1, <2>1, MinIn
  <2>3. Min(bad) \in 1..n /\ Min(bad) - 1 \in 0..n /\ ~(Min(bad) <= Min(bad) - 1)
    BY <2>2
  <2>4. Min(bad) - 1 \in T
    BY <2>2, <2>3
  <2> QED BY <2>2, <2>3, <2>4
<1> QED BY <1>1

\* Step by step: from start, the step at place i makes its result of the one before.
IsChain(n, V, start, step) ==
    n \in Nat /\ start \in V /\ step \in [(1..n) \X V -> V]

ChainEnds(n, V, start, step) ==
    \E f \in [0..n -> V] :
      f[0] = start /\ \A i \in 1..n : f[i] = step[<<i, f[i - 1]>>]

LEMMA ChainExists ==
    ASSUME NEW n, NEW V, NEW start, NEW step, IsChain(n, V, start, step)
    PROVE  ChainEnds(n, V, start, step)
<1>0. n \in Nat /\ start \in V /\ step \in [(1..n) \X V -> V]
  BY DEF IsChain
<1> USE <1>0
<1> DEFINE Good(k) == \E f \in [0..n -> V] :
             f[0] = start /\ \A i \in 1..k : f[i] = step[<<i, f[i - 1]>>]
           T == {k \in 0..n : Good(k)}
<1>1. 0 \in T
  <2> DEFINE f == [i \in 0..n |-> start]
  <2>1. f \in [0..n -> V] /\ f[0] = start /\ \A i \in 1..0 : f[i] = step[<<i, f[i - 1]>>]
    OBVIOUS
  <2> HIDE DEF f
  <2> QED BY <2>1
<1>2. ASSUME NEW k \in 1..n, k - 1 \in T PROVE k \in T
  <2>1. PICK f \in [0..n -> V] :
          f[0] = start /\ \A i \in 1..(k - 1) : f[i] = step[<<i, f[i - 1]>>]
    BY <1>2
  <2> DEFINE g == [f EXCEPT ![k] = step[<<k, f[k - 1]>>]]
  <2>2. f[k - 1] \in V /\ k \in 0..n
    BY <2>1
  <2>3. step[<<k, f[k - 1]>>] \in V
    BY <2>2
  <2>4. g \in [0..n -> V] /\ g[0] = start
    BY <2>1, <2>3
  <2>5. ASSUME NEW i \in 1..k PROVE g[i] = step[<<i, g[i - 1]>>]
    <3>1. i - 1 \in 0..n /\ i - 1 # k /\ i \in 0..n
      OBVIOUS
    <3>2. g[i - 1] = f[i - 1]
      BY <3>1
    <3>3. CASE i = k
      BY <2>2, <3>2, <3>3
    <3>4. CASE i # k
      <4>1. i \in 1..(k - 1)
        BY <3>4
      <4>2. g[i] = f[i]
        BY <3>1, <3>4
      <4> QED BY <2>1, <3>2, <4>1, <4>2
    <3> QED BY <3>3, <3>4
  <2> HIDE DEF g
  <2> QED BY <2>4, <2>5
<1> HIDE DEF T
<1>3. n \in T
  BY <1>1, <1>2, UpwardInduction
<1> QED BY <1>3 DEF T, ChainEnds

\* Sequences grow from the empty one by appending: induction for the set C of
\* the sequences for which a claim holds.
LEMMA SequenceInduction ==
    ASSUME NEW T, NEW C, <<>> \in C,
           \A s \in Seq(T), x \in T : s \in C => Append(s, x) \in C
    PROVE  Seq(T) \subseteq C
<1> SUFFICES ASSUME NEW s \in Seq(T) PROVE s \in C
  OBVIOUS
<1> DEFINE part(i) == SubSeq(s, 1, i)
           n == Len(s)
           G == {i \in 0..n : part(i) \in C}
<1>0. n \in Nat /\ part(0) = <<>> /\ part(n) = s
  OBVIOUS
<1>1. ASSUME NEW i \in 1..n
      PROVE  /\ part(i - 1) \in Seq(T) /\ s[i] \in T
             /\ part(i) = Append(part(i - 1), s[i])
  OBVIOUS
<1> HIDE DEF part, n
<1>2. 0 \in G
  BY <1>0
<1>3. ASSUME NEW i \in 1..n, i - 1 \in G PROVE i \in G
  <2>1. i \in 0..n
    BY <1>0
  <2> QED BY <1>1, <1>3, <2>1
<1>4. n \in G
  <2>1. n \in 0..n
    BY <1>0
  <2> HIDE DEF G
  <2> QED BY <1>0, <1>2, <1>3, <2>1, UpwardInduction
<1> QED BY <1>0, <1>4

LEMMA ConcatAppend ==
    ASSUME NEW T, NEW s \in Seq(T), NEW t \in Seq(T), NEW x \in T
    PROVE  s \o Append(t, x) = Append(s \o t, x)
OBVIOUS

\* A sequence is what stands up to a place and what stands after it.
LEMMA SplitAt ==
    ASSUME NEW T, NEW s \in Seq(T), NEW p \in 0..Len(s)
    PROVE  LET pre == SubSeq(s, 1, p)
               post == SubSeq(s, p + 1, Len(s))
           IN  /\ pre \in Seq(T) /\ Len(pre) = p
               /\ post \in Seq(T) /\ Len(post) = Len(s) - p
               /\ s = pre \o post
<1> DEFINE n == Len(s)
           pre == SubSeq(s, 1, p)
           post == SubSeq(s, p + 1, n)
<1>1. /\ n \in Nat /\ p \in Nat /\ p <= n /\ \A i \in 1..n : s[i] \in T
      /\ p \in Int /\ n \in Int /\ p + 1 \in Int /\ 1 \in Int
  OBVIOUS
<1>2. pre \in Seq(T) /\ Len(pre) = p
  BY <1>1, SubSeqProperties
<1>3. post \in Seq(T) /\ Len(post) = n - p
  <2>1. \A i \in (p + 1)..n : s[i] \in T
    BY <1>1
  <2>2. post \in Seq(T) /\ Len(post) = IF p + 1 <= n THEN n - (p + 1) + 1 ELSE 0
    BY <1>1, <2>1, SubSeqProperties
  <2> HIDE DEF post, n
  <2> QED BY <1>1, <2>2
<1>4. s = pre \o post
  <2>1. 1 \in 1..(n + 1) /\ p \in (1 - 1)..n /\ n \in p..n
    BY <1>1
  <2> QED BY <2>1, ConcatAdjacentSubSeq, SubSeqFull
<1> QED BY <1>2, <1>3, <1>4

\* The same with the element at the place between them.
LEMMA SplitAround ==
    ASSUME NEW T, NEW s \in Seq(T), NEW k \in 1..Len(s)
    PROVE  LET pre == SubSeq(s, 1, k - 1)
               post == SubSeq(s, k + 1, Len(s))
           IN  /\ pre \in Seq(T) /\ Len(pre) = k - 1 /\ post \in Seq(T)
               /\ s = (pre \o <<s[k]>>) \o post
<1> DEFINE pre == SubSeq(s, 1, k - 1)
           post == SubSeq(s, k + 1, Len(s))
           upto == SubSeq(s, 1, k)
<1>1. k - 1 \in 0..Len(s) /\ k \in 0..Len(s)
  OBVIOUS
<1>2. pre \in Seq(T) /\ Len(pre) = k - 1 /\ post \in Seq(T) /\ s = upto \o post
  BY <1>1, SplitAt
<1>3. upto = pre \o <<s[k]>>
  OBVIOUS
<1> HIDE DEF pre, post, upto
<1>4. s = (pre \o <<s[k]>>) \o post
  BY <1>2, <1>3
<1> QED BY <1>2, <1>4 DEF pre, post

-----------------------------------------------------------------------------
(* Filter.                                                                  *)

\* Filter keeps or skips one element after the other.
LEMMA FilterLoop ==
    ASSUME NEW T, NEW s \in Seq(T), NEW S
    PROVE  \E f : /\ Filter(s, S) = f[Len(s)] /\ f[0] = <<>>
                  /\ \A i \in 1..Len(s) :
                       f[i] = IF s[i] \in S THEN Append(f[i - 1], s[i]) ELSE f[i - 1]
<1> DEFINE n == Len(s)
           Op(kept, x) == IF x \in S THEN Append(kept, x) ELSE kept
           D(f) == [i \in 0..n |-> IF i = 0 THEN <<>> ELSE Op(f[i - 1], s[i])]
           after == CHOOSE f : f = D(f)
           V == Seq(T)
           step == [q \in (1..n) \X V |-> Op(q[2], s[q[1]])]
<1>0. n \in Nat /\ <<>> \in V /\ \A i \in 1..n : s[i] \in T
  OBVIOUS
<1>1. \A i \in 1..n, v \in V : Op(v, s[i]) \in V
  BY <1>0
<1>2. Filter(s, S) = after[n]
  BY DEF Filter, ForEach
<1> HIDE DEF Op, n, V
<1>3. step \in [(1..n) \X V -> V]
  BY <1>1
<1>4. PICK f \in [0..n -> V] :
        f[0] = <<>> /\ \A i \in 1..n : f[i] = step[<<i, f[i - 1]>>]
  <2> HIDE DEF step
  <2>1. IsChain(n, V, <<>>, step)
    BY <1>0, <1>3 DEF IsChain
  <2> QED BY <2>1, ChainExists DEF ChainEnds
<1>5. ASSUME NEW i \in 1..n PROVE f[i] = Op(f[i - 1], s[i])
  <2>1. f[i - 1] \in V
    BY <1>0, <1>4
  <2> QED BY <1>4, <2>1
<1>6. f = D(f)
  BY <1>0, <1>4, <1>5
<1>7. after = D(after)
  <2> HIDE DEF D
  <2> QED BY <1>6
<1> HIDE DEF after
<1>8. after[0] = <<>> /\ \A i \in 1..n : after[i] = Op(after[i - 1], s[i])
  BY <1>0, <1>7
<1> QED BY <1>2, <1>8 DEF Op, n

LEMMA FilterEmpty ==
    ASSUME NEW S
    PROVE  Filter(<<>>, S) = <<>>
<1>1. ASSUME NEW e \in Seq({}), Len(e) = 0 PROVE Filter(e, S) = <<>>
  <2>1. PICK f : Filter(e, S) = f[Len(e)] /\ f[0] = <<>>
    BY FilterLoop
  <2> QED BY <1>1, <2>1
<1>2. <<>> \in Seq({}) /\ Len(<<>>) = 0
  OBVIOUS
<1> QED BY <1>1, <1>2

\* One element more.
LEMMA FilterAppend ==
    ASSUME NEW T, NEW s \in Seq(T), NEW x \in T, NEW S
    PROVE  Filter(Append(s, x), S)
             = IF x \in S THEN Append(Filter(s, S), x) ELSE Filter(s, S)
<1> DEFINE n == Len(s)
           t == Append(s, x)
<1>2. /\ n \in Nat /\ t \in Seq(T) /\ Len(t) = n + 1 /\ t[n + 1] = x
      /\ \A i \in 1..n : t[i] = s[i]
  OBVIOUS
<1> HIDE DEF t
<1>3. PICK f : /\ Filter(s, S) = f[n] /\ f[0] = <<>>
               /\ \A i \in 1..n :
                    f[i] = IF s[i] \in S THEN Append(f[i - 1], s[i]) ELSE f[i - 1]
  BY FilterLoop
<1>4. PICK g : /\ Filter(t, S) = g[Len(t)] /\ g[0] = <<>>
               /\ \A i \in 1..Len(t) :
                    g[i] = IF t[i] \in S THEN Append(g[i - 1], t[i]) ELSE g[i - 1]
  BY <1>2, FilterLoop
<1> HIDE DEF n
<1> DEFINE G == {i \in 0..n : f[i] = g[i]}
<1>5. 0 \in G
  BY <1>2, <1>3, <1>4
<1>6. ASSUME NEW i \in 1..n, i - 1 \in G PROVE i \in G
  <2>1. i \in 1..Len(t) /\ i \in 0..n
    BY <1>2
  <2> QED BY <1>2, <1>3, <1>4, <1>6, <2>1
<1>7. n \in G
  <2>1. n \in 0..n
    BY <1>2
  <2> HIDE DEF G
  <2> QED BY <1>2, <1>5, <1>6, <2>1, UpwardInduction
<1>8. g[n + 1] = IF x \in S THEN Append(g[n], x) ELSE g[n]
  <2>1. n + 1 \in 1..Len(t) /\ (n + 1) - 1 = n
    BY <1>2
  <2> QED BY <1>2, <1>4, <2>1
<1> QED BY <1>2, <1>3, <1>4, <1>7, <1>8 DEF t

LEMMA FilterType ==
    ASSUME NEW T, NEW s \in Seq(T), NEW S
    PROVE  Filter(s, S) \in Seq(T) /\ Filter(s, S) \in Seq(S)
<1> DEFINE F(r) == Filter(r, S)
           P(r) == F(r) \in Seq(T) /\ F(r) \in Seq(S)
           C == {r \in Seq(T) : P(r)}
<1>1. F(<<>>) = <<>>
  BY FilterEmpty
<1>2. ASSUME NEW r \in Seq(T), NEW x \in T
      PROVE  F(Append(r, x)) = IF x \in S THEN Append(F(r), x) ELSE F(r)
  BY FilterAppend
<1> HIDE DEF F
<1>3. P(<<>>)
  <2>1. <<>> \in Seq(T) /\ <<>> \in Seq(S)
    OBVIOUS
  <2> QED BY <1>1, <2>1, Zenon
<1>4. ASSUME NEW r \in Seq(T), NEW x \in T, P(r) PROVE P(Append(r, x))
  <2>1. /\ Append(F(r), x) \in Seq(T)
        /\ x \in S => Append(F(r), x) \in Seq(S)
    BY <1>4
  <2> QED BY <1>2, <1>4, <2>1, Zenon
<1> HIDE DEF P
<1>5. <<>> \in C /\ \A r \in Seq(T), x \in T : r \in C => Append(r, x) \in C
  BY <1>3, <1>4
<1> HIDE DEF C
<1>6. s \in C
  BY <1>5, SequenceInduction
<1> QED BY <1>6 DEF C, P, F

\* The filter of two parts.
LEMMA FilterConcat ==
    ASSUME NEW T, NEW s \in Seq(T), NEW t \in Seq(T), NEW S
    PROVE  Filter(s \o t, S) = Filter(s, S) \o Filter(t, S)
<1> DEFINE F(r) == Filter(r, S)
           P(r) == F(s \o r) = F(s) \o F(r)
           C == {r \in Seq(T) : P(r)}
<1>1. F(<<>>) = <<>>
  BY FilterEmpty
<1>2. ASSUME NEW r \in Seq(T), NEW x \in T
      PROVE  F(Append(r, x)) = IF x \in S THEN Append(F(r), x) ELSE F(r)
  BY FilterAppend
<1>3. ASSUME NEW r \in Seq(T) PROVE F(r) \in Seq(T)
  BY FilterType
<1> HIDE DEF F
<1>4. P(<<>>)
  <2>1. s \o <<>> = s /\ F(s) \o <<>> = F(s)
    BY <1>3, ConcatEmptySeq
  <2> QED BY <1>1, <2>1, Zenon
<1>5. ASSUME NEW r \in Seq(T), NEW x \in T, P(r) PROVE P(Append(r, x))
  <2>1. s \o Append(r, x) = Append(s \o r, x) /\ s \o r \in Seq(T)
    BY ConcatAppend, ConcatLength
  <2>2. F(s) \o Append(F(r), x) = Append(F(s) \o F(r), x)
    BY <1>3, ConcatAppend
  <2>3. F(Append(s \o r, x)) = IF x \in S THEN Append(F(s \o r), x) ELSE F(s \o r)
    BY <1>2, <2>1
  <2>4. F(Append(r, x)) = IF x \in S THEN Append(F(r), x) ELSE F(r)
    BY <1>2
  <2> QED BY <1>5, <2>1, <2>2, <2>3, <2>4, Zenon
<1> HIDE DEF P
<1>6. <<>> \in C /\ \A r \in Seq(T), x \in T : r \in C => Append(r, x) \in C
  BY <1>4, <1>5
<1> HIDE DEF C
<1>7. t \in C
  BY <1>6, SequenceInduction
<1> QED BY <1>7 DEF C, P, F

\* Only what S says about the elements at hand matters.
LEMMA FilterSame ==
    ASSUME NEW T, NEW s \in Seq(T), NEW S, NEW R, \A x \in T : x \in S <=> x \in R
    PROVE  Filter(s, S) = Filter(s, R)
<1> DEFINE P(r) == Filter(r, S) = Filter(r, R)
           C == {r \in Seq(T) : P(r)}
<1>1. P(<<>>)
  BY FilterEmpty
<1>2. ASSUME NEW r \in Seq(T), NEW x \in T, P(r) PROVE P(Append(r, x))
  <2>1. /\ Filter(Append(r, x), S)
             = IF x \in S THEN Append(Filter(r, S), x) ELSE Filter(r, S)
        /\ Filter(Append(r, x), R)
             = IF x \in R THEN Append(Filter(r, R), x) ELSE Filter(r, R)
    BY FilterAppend
  <2>2. CASE x \in S
    BY <1>2, <2>1, <2>2, Zenon
  <2>3. CASE x \notin S
    BY <1>2, <2>1, <2>3, Zenon
  <2> QED BY <2>2, <2>3
<1> HIDE DEF P
<1>3. <<>> \in C /\ \A r \in Seq(T), x \in T : r \in C => Append(r, x) \in C
  BY <1>1, <1>2
<1> HIDE DEF C
<1>4. s \in C
  BY <1>3, SequenceInduction
<1> QED BY <1>4 DEF C, P

LEMMA FilterAll ==
    ASSUME NEW T, NEW s \in Seq(T), NEW S, T \subseteq S
    PROVE  Filter(s, S) = s
<1> DEFINE P(r) == Filter(r, S) = r
           C == {r \in Seq(T) : P(r)}
<1>1. P(<<>>)
  BY FilterEmpty
<1>2. ASSUME NEW r \in Seq(T), NEW x \in T, P(r) PROVE P(Append(r, x))
  BY <1>2, FilterAppend, Zenon
<1> HIDE DEF P
<1>3. <<>> \in C /\ \A r \in Seq(T), x \in T : r \in C => Append(r, x) \in C
  BY <1>1, <1>2
<1> HIDE DEF C
<1>4. s \in C
  BY <1>3, SequenceInduction
<1> QED BY <1>4 DEF C, P

LEMMA FilterNone ==
    ASSUME NEW T, NEW s \in Seq(T), NEW S, T \cap S = {}
    PROVE  Filter(s, S) = <<>>
<1> DEFINE P(r) == Filter(r, S) = <<>>
           C == {r \in Seq(T) : P(r)}
<1>1. P(<<>>)
  BY FilterEmpty
<1>2. ASSUME NEW r \in Seq(T), NEW x \in T, P(r) PROVE P(Append(r, x))
  BY <1>2, FilterAppend, Zenon
<1> HIDE DEF P
<1>3. <<>> \in C /\ \A r \in Seq(T), x \in T : r \in C => Append(r, x) \in C
  BY <1>1, <1>2
<1> HIDE DEF C
<1>4. s \in C
  BY <1>3, SequenceInduction
<1> QED BY <1>4 DEF C, P

\* A filter of a filter.
LEMMA FilterTwice ==
    ASSUME NEW T, NEW s \in Seq(T), NEW S, NEW R
    PROVE  Filter(Filter(s, S), R) = Filter(s, S \cap R)
<1> DEFINE P(r) == Filter(Filter(r, S), R) = Filter(r, S \cap R)
           C == {r \in Seq(T) : P(r)}
<1>1. P(<<>>)
  BY FilterEmpty, Zenon
<1>2. ASSUME NEW r \in Seq(T), NEW x \in T, P(r) PROVE P(Append(r, x))
  <2>1. Filter(r, S) \in Seq(T)
    BY FilterType
  <2>2. Filter(Append(Filter(r, S), x), R)
          = IF x \in R THEN Append(Filter(Filter(r, S), R), x)
            ELSE Filter(Filter(r, S), R)
    BY <2>1, FilterAppend
  <2>3. /\ Filter(Append(r, x), S)
             = IF x \in S THEN Append(Filter(r, S), x) ELSE Filter(r, S)
        /\ Filter(Append(r, x), S \cap R)
             = IF x \in S \cap R THEN Append(Filter(r, S \cap R), x)
               ELSE Filter(r, S \cap R)
    BY FilterAppend
  <2>4. CASE x \in S
    <3>1. Filter(Append(r, x), S) = Append(Filter(r, S), x)
      BY <2>3, <2>4, Zenon
    <3>2. x \in S \cap R <=> x \in R
      BY <2>4
    <3> QED BY <1>2, <2>2, <2>3, <3>1, <3>2, Zenon
  <2>5. CASE x \notin S
    BY <1>2, <2>3, <2>5, Zenon
  <2> QED BY <2>4, <2>5
<1> HIDE DEF P
<1>3. <<>> \in C /\ \A r \in Seq(T), x \in T : r \in C => Append(r, x) \in C
  BY <1>1, <1>2
<1> HIDE DEF C
<1>4. s \in C
  BY <1>3, SequenceInduction
<1> QED BY <1>4 DEF C, P

LEMMA RangeType ==
    ASSUME NEW T, NEW s \in Seq(T)
    PROVE  /\ s \in Seq(Range(s)) /\ Range(s) \subseteq T
           /\ \A i \in 1..Len(s) : s[i] \in Range(s)
BY DEF Range

LEMMA RangeAppend ==
    ASSUME NEW T, NEW s \in Seq(T), NEW x
    PROVE  Range(Append(s, x)) = Range(s) \cup {x}
<1> DEFINE t == Append(s, x)
           n == Len(s)
<1>1. /\ DOMAIN t = 1..(n + 1) /\ DOMAIN s = 1..n /\ n \in Nat /\ t[n + 1] = x
      /\ \A i \in 1..n : t[i] = s[i]
  OBVIOUS
<1>2. 1..(n + 1) = (1..n) \cup {n + 1}
  BY <1>1
<1> HIDE DEF t, n
<1>3. Range(t) = Range(s) \cup {x}
  BY <1>1, <1>2 DEF Range
<1> QED BY <1>3 DEF t

\* What passes the filter.
LEMMA FilterRange ==
    ASSUME NEW T, NEW s \in Seq(T), NEW S
    PROVE  Range(Filter(s, S)) = Range(s) \cap S
<1> DEFINE P(r) == Range(Filter(r, S)) = Range(r) \cap S
           C == {r \in Seq(T) : P(r)}
<1>1. P(<<>>)
  <2>1. Range(<<>>) = {}
    BY DEF Range
  <2> QED BY <2>1, FilterEmpty
<1>2. ASSUME NEW r \in Seq(T), NEW x \in T, P(r) PROVE P(Append(r, x))
  <2>1. Filter(r, S) \in Seq(T)
    BY FilterType
  <2>2. /\ Range(Append(r, x)) = Range(r) \cup {x}
        /\ Range(Append(Filter(r, S), x)) = Range(Filter(r, S)) \cup {x}
    BY <2>1, RangeAppend
  <2>3. Filter(Append(r, x), S)
          = IF x \in S THEN Append(Filter(r, S), x) ELSE Filter(r, S)
    BY FilterAppend
  <2> QED BY <1>2, <2>2, <2>3, Zenon
<1> HIDE DEF P
<1>3. <<>> \in C /\ \A r \in Seq(T), x \in T : r \in C => Append(r, x) \in C
  BY <1>1, <1>2
<1> HIDE DEF C
<1>4. s \in C
  BY <1>3, SequenceInduction
<1> QED BY <1>4 DEF C, P

\* One element, and three parts.
LEMMA FilterOne ==
    ASSUME NEW y, NEW S
    PROVE  Filter(<<y>>, S) = IF y \in S THEN <<y>> ELSE <<>>
<1>1. PICK e : e = <<>>
  OBVIOUS
<1>2. e \in Seq({y}) /\ y \in {y} /\ Append(e, y) = <<y>>
  BY <1>1
<1>3. Filter(Append(e, y), S) = IF y \in S THEN Append(Filter(e, S), y) ELSE Filter(e, S)
  BY <1>2, FilterAppend, Zenon
<1>4. Filter(e, S) = e
  BY <1>1, FilterEmpty
<1> QED BY <1>1, <1>2, <1>3, <1>4, Zenon

AllIn(T, a, m, b) == a \in Seq(T) /\ m \in Seq(T) /\ b \in Seq(T)

LEMMA FilterThree ==
    ASSUME NEW T, NEW a, NEW m, NEW b, NEW S, AllIn(T, a, m, b)
    PROVE  /\ (a \o m) \o b \in Seq(T)
           /\ Filter((a \o m) \o b, S)
                = (Filter(a, S) \o Filter(m, S)) \o Filter(b, S)
<1>0. a \in Seq(T) /\ m \in Seq(T) /\ b \in Seq(T)
  BY DEF AllIn
<1>1. /\ a \o m \in Seq(T) /\ (a \o m) \o b \in Seq(T)
      /\ Filter(a \o m, S) = Filter(a, S) \o Filter(m, S)
  BY <1>0, ConcatLength, FilterConcat
<1>2. ASSUME NEW c \in Seq(T) PROVE Filter(c \o b, S) = Filter(c, S) \o Filter(b, S)
  BY <1>0, FilterConcat
<1> QED BY <1>1, <1>2, Zenon

-----------------------------------------------------------------------------
(* GlobalReplace.                                                           *)

\* What a body of check_pii is made of.
Symbol == {<<x>> : x \in STRING} \cup {<<"X">>, <<"d">>}

Matches(text, pattern, i) ==
    SubSeq(text, i, i + Len(pattern) - 1) = Symbols(pattern)

Masked(text, n, kept, i) ==
    [k \in 1..n |->
       IF k <= n - kept /\ SubSeq(text, i, i + n - 1)[k] = <<"d">> THEN <<"X">>
       ELSE SubSeq(text, i, i + n - 1)[k]]

\* One turn of the loop, at place i.
ReplacedAt(text, pattern, kept, f, i) ==
    IF i + Len(pattern) - 1 > Len(text) THEN SubSeq(text, i, Len(text))
    ELSE IF Matches(text, pattern, i)
    THEN Masked(text, Len(pattern), kept, i) \o f[i + Len(pattern)]
    ELSE <<text[i]>> \o f[i + 1]

IsReplaceLoop(text, pattern, kept, f) ==
    \A i \in 1..(Len(text) + 1) : f[i] = ReplacedAt(text, pattern, kept, f, i)

LEMMA MaskedType ==
    ASSUME NEW text \in Seq(Symbol), NEW n \in Nat \ {0}, NEW kept,
           NEW i \in 1..Len(text), i + n - 1 <= Len(text)
    PROVE  LET m == Masked(text, n, kept, i) IN
           /\ m \in Seq(Symbol) /\ Len(m) = n
           /\ \A k \in 1..n :
                m[k] = IF k <= n - kept /\ text[i + k - 1] = <<"d">> THEN <<"X">>
                       ELSE text[i + k - 1]
<1> DEFINE part == SubSeq(text, i, i + n - 1)
           m == Masked(text, n, kept, i)
<1>1. Len(text) \in Nat /\ i + n - 1 \in i..Len(text)
  OBVIOUS
<1>2. part \in Seq(Symbol) /\ Len(part) = n
  BY <1>1
<1>3. \A k \in 1..n : part[k] = text[i + k - 1] /\ part[k] \in Symbol
  BY <1>1, <1>2
<1>4. <<"X">> \in Symbol
  BY DEF Symbol
<1>5. m = [k \in 1..n |-> IF k <= n - kept /\ part[k] = <<"d">> THEN <<"X">>
                           ELSE part[k]]
  BY DEF Masked
<1> HIDE DEF part, m
<1>6. m \in [1..n -> Symbol]
  BY <1>3, <1>4, <1>5
<1>7. m \in Seq(Symbol) /\ Len(m) = n
  BY <1>6
<1> QED BY <1>3, <1>5, <1>7 DEF m

\* The loop ends.
LEMMA ReplaceLoop ==
    ASSUME NEW text \in Seq(Symbol), NEW pattern, Len(pattern) \in Nat \ {0},
           NEW kept
    PROVE  \E f : /\ GlobalReplace(text, pattern, kept) = f[1]
                  /\ IsReplaceLoop(text, pattern, kept, f)
<1> DEFINE n == Len(text) + 1
           size == Len(pattern)
           D(f) == [i \in 1..n |-> ReplacedAt(text, pattern, kept, f, i)]
           from == CHOOSE f : f = D(f)
           V == Seq(Symbol)
           stop == {i \in 1..n : i + size - 1 > Len(text)}
           base == [i \in 1..n |-> SubSeq(text, i, Len(text))]
           next == [i \in 1..n |-> IF Matches(text, pattern, i) THEN i + size ELSE i + 1]
           head(i) == IF Matches(text, pattern, i)
                      THEN Masked(text, size, kept, i) ELSE <<text[i]>>
           step == [q \in (1..n) \X V |->
                      IF q[1] \in stop THEN q[2] ELSE head(q[1]) \o q[2]]
<1>0. n \in Nat /\ Len(text) \in Nat /\ size \in Nat \ {0}
  OBVIOUS
<1>1. \A i \in 1..n : i \notin stop =>
        i \in 1..Len(text) /\ i + size - 1 <= Len(text)
  BY <1>0
<1>2. \A i \in 1..n : i \notin stop => next[i] \in (i + 1)..n
  BY <1>0, <1>1
<1>3. base \in [1..n -> V]
  <2>1. \A i \in 1..n : SubSeq(text, i, Len(text)) \in Seq(Symbol)
    BY <1>0
  <2> HIDE DEF n
  <2> QED BY <2>1
<1>4. ASSUME NEW i \in 1..n, i \notin stop PROVE head(i) \in V
  <2>1. i \in 1..Len(text) /\ i + size - 1 <= Len(text)
    BY <1>1, <1>4
  <2>2. Masked(text, size, kept, i) \in Seq(Symbol)
    BY <1>0, <2>1, MaskedType
  <2>3. text[i] \in Symbol
    BY <2>1
  <2>4. <<text[i]>> \in Seq(Symbol)
    BY <2>3
  <2> QED BY <2>2, <2>4
<1>5. step \in [(1..n) \X V -> V]
  <2>1. ASSUME NEW q \in (1..n) \X V
        PROVE  (IF q[1] \in stop THEN q[2] ELSE head(q[1]) \o q[2]) \in V
    <3>1. q[1] \in 1..n /\ q[2] \in V
      OBVIOUS
    <3> HIDE DEF head, stop, n
    <3> QED BY <1>4, <3>1
  <2> HIDE DEF head, stop, n, V
  <2> QED BY <2>1
<1>6. PICK f \in [1..n -> V] : \A i \in 1..n :
        f[i] = IF i \in stop THEN base[i] ELSE step[<<i, f[next[i]]>>]
  <2> HIDE DEF n, V, stop, base, next, step
  <2>1. IsLoop(n, V, stop, base, next, step)
    BY <1>0, <1>2, <1>3, <1>5 DEF IsLoop
  <2>2. LoopEnds(n, V, stop, base, next, step)
    BY <2>1, RecursionExists
  <2> QED BY <2>2 DEF LoopEnds, LoopValue
<1>7. ASSUME NEW i \in 1..n PROVE f[i] = ReplacedAt(text, pattern, kept, f, i)
  <2>1. CASE i \in stop
    BY <1>6, <2>1 DEF ReplacedAt
  <2>2. CASE i \notin stop
    <3>1. next[i] \in 1..n /\ f[next[i]] \in V
      BY <1>2, <2>2
    <3>2. step[<<i, f[next[i]]>>] = head(i) \o f[next[i]]
      <4> HIDE DEF stop, head, V, next
      <4> QED BY <2>2, <3>1
    <3>3. f[i] = head(i) \o f[next[i]]
      BY <1>6, <2>2, <3>2
    <3>4. next[i] = IF Matches(text, pattern, i) THEN i + size ELSE i + 1
      OBVIOUS
    <3> HIDE DEF next
    <3> QED BY <2>2, <3>3, <3>4 DEF ReplacedAt
  <2> QED BY <2>1, <2>2
<1>8. f = D(f)
  <2> HIDE DEF n, V
  <2> QED BY <1>7
<1>9. from = D(from)
  <2> HIDE DEF D
  <2> QED BY <1>8
<1>10. GlobalReplace(text, pattern, kept) = from[1]
  BY DEF GlobalReplace, ReplacedAt, Matches, Masked
<1>11. \A i \in 1..n : from[i] = ReplacedAt(text, pattern, kept, from, i)
  <2> HIDE DEF from
  <2> QED BY <1>9
<1> HIDE DEF from
<1> QED BY <1>10, <1>11 DEF IsReplaceLoop

\* What a symbol may become.
MaskOf(x) == {x} \cup (IF x = <<"d">> THEN {<<"X">>} ELSE {})

\* What the loop leaves of the text from place i on.
KeepsShape(text, i, s) ==
    /\ s \in Seq(Symbol) /\ Len(s) = Len(text) + 1 - i
    /\ \A k \in 1..(Len(text) + 1 - i) : s[k] \in MaskOf(text[i + k - 1])

\* From every place on the length is kept, and a symbol stays or is masked.
LEMMA LoopKeepsShape ==
    ASSUME NEW text \in Seq(Symbol), NEW pattern, Len(pattern) \in Nat \ {0},
           NEW kept, NEW f, IsReplaceLoop(text, pattern, kept, f)
    PROVE  \A i \in 1..(Len(text) + 1) : KeepsShape(text, i, f[i])
<1> DEFINE n == Len(text) + 1
           size == Len(pattern)
           T == {i \in 1..n : KeepsShape(text, i, f[i])}
<1>0. n \in Nat /\ Len(text) \in Nat /\ size \in Nat \ {0} /\ n = Len(text) + 1
  OBVIOUS
<1> USE DEF IsReplaceLoop
<1>1. ASSUME NEW i \in 1..n, \A j \in (i + 1)..n : j \in T
      PROVE  KeepsShape(text, i, f[i])
  <2>1. CASE i + size - 1 > Len(text)
    <3>1. f[i] = SubSeq(text, i, Len(text))
      BY <2>1 DEF ReplacedAt
    <3> QED BY <1>0, <3>1 DEF KeepsShape, MaskOf
  <2>2. ASSUME i + size - 1 <= Len(text), NEW h \in Seq(Symbol), NEW j \in 1..n,
               j \in (i + 1)..n, Len(h) = j - i, f[i] = h \o f[j],
               \A k \in 1..Len(h) : h[k] \in MaskOf(text[i + k - 1])
        PROVE  KeepsShape(text, i, f[i])
    <3>1. /\ f[j] \in Seq(Symbol) /\ Len(f[j]) = n - j
          /\ \A k \in 1..(n - j) : f[j][k] \in MaskOf(text[j + k - 1])
      <4>1. KeepsShape(text, j, f[j])
        BY <1>1, <2>2
      <4>2. n - j = Len(text) + 1 - j
        OBVIOUS
      <4> HIDE DEF n
      <4> QED BY <4>1, <4>2 DEF KeepsShape
    <3> DEFINE g == f[j]
    <3>2. /\ g \in Seq(Symbol) /\ Len(h \o g) = Len(h) + Len(g)
          /\ h \o g \in Seq(Symbol)
          /\ \A k \in 1..(Len(h) + Len(g)) :
               (h \o g)[k] = IF k <= Len(h) THEN h[k] ELSE g[k - Len(h)]
      <4>1. g \in Seq(Symbol)
        BY <3>1
      <4> HIDE DEF g
      <4> QED BY <4>1
    <3>3. Len(h) + Len(g) = n - i /\ f[i] = h \o g
      BY <1>0, <2>2, <3>1
    <3>4. ASSUME NEW k \in 1..(n - i) PROVE f[i][k] \in MaskOf(text[i + k - 1])
      <4>1. f[i][k] = IF k <= Len(h) THEN h[k] ELSE g[k - Len(h)]
        BY <3>2, <3>3
      <4>2. CASE k <= Len(h)
        <5>1. k \in 1..Len(h)
          BY <1>0, <4>2
        <5> QED BY <2>2, <4>1, <4>2, <5>1
      <4>3. CASE ~(k <= Len(h))
        <5>1. k - Len(h) \in 1..(n - j) /\ j + (k - Len(h)) - 1 = i + k - 1
          BY <1>0, <2>2, <4>3
        <5> QED BY <3>1, <4>1, <4>3, <5>1
      <4> QED BY <4>2, <4>3
    <3>5. Len(text) + 1 - i = n - i
      BY <1>0
    <3>6. f[i] \in Seq(Symbol) /\ Len(f[i]) = n - i
      BY <1>0, <3>2, <3>3
    <3> HIDE DEF n
    <3> QED BY <3>4, <3>5, <3>6 DEF KeepsShape
  <2>3. CASE i + size - 1 <= Len(text)
    <3>1. /\ i \in 1..Len(text) /\ i + 1 \in (i + 1)..n /\ i + size \in (i + 1)..n
          /\ ~(i + size - 1 > Len(text)) /\ i + 1 \in 1..n /\ i + size \in 1..n
      BY <1>0, <2>3
    <3>2. CASE Matches(text, pattern, i)
      <4> DEFINE h == Masked(text, size, kept, i)
      <4>1. f[i] = h \o f[i + size]
        BY <3>1, <3>2 DEF ReplacedAt
      <4>2. /\ h \in Seq(Symbol) /\ Len(h) = size
            /\ \A k \in 1..size : h[k] \in MaskOf(text[i + k - 1])
        BY <1>0, <2>3, <3>1, MaskedType DEF MaskOf
      <4>3. Len(h) = (i + size) - i
        BY <1>0, <4>2
      <4> HIDE DEF h
      <4> QED BY <2>2, <2>3, <3>1, <4>1, <4>2, <4>3
    <3>3. CASE ~Matches(text, pattern, i)
      <4> DEFINE h == <<text[i]>>
      <4>1. f[i] = h \o f[i + 1]
        BY <3>1, <3>3 DEF ReplacedAt
      <4>2. text[i] \in Symbol
        BY <3>1
      <4>3. h \in Seq(Symbol) /\ Len(h) = (i + 1) - i /\ h[1] = text[i]
        BY <4>2
      <4>4. \A k \in 1..Len(h) : h[k] = text[i + k - 1]
        BY <4>3
      <4> HIDE DEF h
      <4>5. \A k \in 1..Len(h) : h[k] \in MaskOf(text[i + k - 1])
        BY <4>4 DEF MaskOf
      <4> QED BY <2>2, <2>3, <3>1, <4>1, <4>3, <4>5
    <3> QED BY <3>2, <3>3
  <2> QED BY <1>0, <2>1, <2>3
<1>2. \A i \in 1..n : (\A j \in (i + 1)..n : j \in T) => i \in T
  BY <1>1
<1>3. \A i \in 1..n : i \in T
  <2> HIDE DEF T, n
  <2> QED BY <1>0, <1>2, DownwardInduction
<1> QED BY <1>3

\* maskPII masks digits and changes nothing else.
LEMMA MaskKeepsShape ==
    ASSUME NEW text \in Seq(Symbol)
    PROVE  /\ maskPII(text) \in Seq(Symbol) /\ Len(maskPII(text)) = Len(text)
           /\ \A i \in 1..Len(text) : maskPII(text)[i] \in MaskOf(text[i])
<1>1. ASSUME NEW t \in Seq(Symbol), NEW pattern, Len(pattern) \in Nat \ {0}, NEW kept
      PROVE  KeepsShape(t, 1, GlobalReplace(t, pattern, kept))
  <2>1. PICK f : /\ GlobalReplace(t, pattern, kept) = f[1]
                 /\ IsReplaceLoop(t, pattern, kept, f)
    BY <1>1, ReplaceLoop
  <2>2. 1 \in 1..(Len(t) + 1)
    OBVIOUS
  <2>3. \A i \in 1..(Len(t) + 1) : KeepsShape(t, i, f[i])
    BY <1>1, <2>1, LoopKeepsShape
  <2> QED BY <2>1, <2>2, <2>3
<1>2. Len(Card) \in Nat \ {0} /\ Len(Code) \in Nat \ {0}
  <2>1. Len(Card) = 7 /\ Len(Code) = 3
    BY DEF Card, Code, CodeLength
  <2> QED BY <2>1
<1> DEFINE u == GlobalReplace(text, Card, 1)
           v == GlobalReplace(u, Code, CodeKept)
<1>3. KeepsShape(text, 1, u)
  BY <1>1, <1>2
<1> HIDE DEF u
<1>4. KeepsShape(u, 1, v)
  <2>1. u \in Seq(Symbol)
    BY <1>3 DEF KeepsShape
  <2> QED BY <1>1, <1>2, <2>1
<1>5. maskPII(text) = v
  BY DEF maskPII, u
<1> HIDE DEF v
<1>6. Len(text) \in Nat /\ Len(u) = Len(text) /\ Len(v) = Len(text) /\ v \in Seq(Symbol)
  BY <1>3, <1>4 DEF KeepsShape
<1>7. ASSUME NEW i \in 1..Len(text) PROVE v[i] \in MaskOf(text[i])
  <2>1. 1 + i - 1 = i /\ i \in 1..(Len(text) + 1 - 1)
    BY <1>6
  <2>2. u[i] \in MaskOf(text[i]) /\ v[i] \in MaskOf(u[i])
    BY <1>3, <1>4, <1>6, <2>1 DEF KeepsShape
  <2> QED BY <2>2 DEF MaskOf
<1> QED BY <1>5, <1>6, <1>7

-----------------------------------------------------------------------------
(* The response.                                                            *)

ResponseFields == {"pc", "body", "left", "active", "buf", "out", "chunk",
                   "by_trailers", "content_length", "checked", "header"}
IsResponse(r) == DOMAIN r = ResponseFields /\ r = [f \in ResponseFields |-> r[f]]

\* What the client has of a body that is passed on chunk by chunk, and what the
\* origin has left, make up its length.
Streamed(r) ==
    /\ r.buf = <<>> /\ r.left \in Seq(Symbol) /\ r.out \in Seq(Symbol)
    /\ Len(r.out) + Len(r.left) = Len(r.body)
    /\ r.pc = "ended" => r.left = <<>>

ChunkMasked(chunk) == chunk.in \in Seq(Symbol) /\ chunk.out = maskPII(chunk.in)

\* The Content-Length that is forwarded, if it is.
LengthSent(name, body) ==
    [number |-> Len(body),
     text |-> IF name = "check_pii" THEN maskPII(Numeral(Len(body)))
              ELSE Numeral(Len(body))]

PassedOn(name, r) == name = "check_pii" \/ (name = "ad_insertion" /\ ~r.active)

ResponseOK(name, r) ==
    /\ IsResponse(r) /\ r.pc \in {"body", "ended"} /\ r.active \in BOOLEAN
    /\ name = "ad_insertion" /\ r.active => r.content_length = {}
    /\ r.content_length \subseteq {LengthSent(name, r.body)}
    /\ name = "check_pii" => ChunkMasked(r.header)
    /\ PassedOn(name, r) => Streamed(r)
    /\ name = "check_pii" => ChunkMasked(r.chunk) \/ r.chunk.in = <<>>

\* The inductive invariant of the plugins that rewrite a body.
BodyInv ==
    \/ response = [pc |-> "none"]
    \/ bodyPlugin # NoPlugin /\ ResponseOK(bodyPlugin.name, response)

LEMMA SymbolsType ==
    ASSUME NEW text \in Seq(STRING)
    PROVE  Symbols(text) \in Seq(Symbol) /\ Len(Symbols(text)) = Len(text)
<1>1. DOMAIN text = 1..Len(text) /\ Len(text) \in Nat
  OBVIOUS
<1>2. \A i \in 1..Len(text) : text[i] \in STRING
  OBVIOUS
<1>3. \A i \in 1..Len(text) : <<text[i]>> \in Symbol
  BY <1>2 DEF Symbol
<1>4. Symbols(text) \in [1..Len(text) -> Symbol]
  BY <1>1, <1>3 DEF Symbols
<1> QED BY <1>1, <1>4

\* The headers come.
LEMMA HeadersStep ==
    ASSUME BodyInv, NEW html \in BOOLEAN, NEW ad_request \in BOOLEAN,
           NEW checked \in BOOLEAN,
           bodyPlugin.name \in DOMAIN Bodies, NEW body \in Bodies[bodyPlugin.name],
           NEW value \in HeaderValues[bodyPlugin.name],
           ResponseHeaders(body, value, html, ad_request, checked)
    PROVE  BodyInv'
<1> DEFINE r == response'
<1>1. body \in Seq(STRING)
  BY BodiesAssumption
<1>2. /\ Symbols(body) \in Seq(Symbol) /\ Len(Symbols(body)) = Len(body)
      /\ Len(body) \in Nat
  BY <1>1, SymbolsType
<1>3. r = [pc |-> "body", body |-> Symbols(body), left |-> Symbols(body),
           active |-> html /\ ~ad_request, checked |-> checked,
           buf |-> <<>>, out |-> <<>>,
           chunk |-> [in |-> <<>>, out |-> <<>>], by_trailers |-> FALSE,
           header |-> [in |-> Symbols(value), out |-> HeaderText(Symbols(value))],
           content_length |-> ContentLength(body, html)]
  BY DEF ResponseHeaders
<1> HIDE DEF r
<1>4. IsResponse(r)
  BY <1>3 DEF IsResponse, ResponseFields
<1>5. /\ r.pc = "body" /\ r.body = Symbols(body) /\ r.left = Symbols(body)
      /\ r.buf = <<>> /\ r.out = <<>> /\ r.chunk.in = <<>>
      /\ r.content_length = ContentLength(body, html)
      /\ r.header = [in |-> Symbols(value), out |-> HeaderText(Symbols(value))]
  BY <1>3
<1>6. r.active \in BOOLEAN /\ (r.active => html)
  BY <1>3
<1>7. /\ ContentLength(body, html) \subseteq {LengthSent(bodyPlugin.name, r.body)}
      /\ bodyPlugin.name = "ad_insertion" /\ html => ContentLength(body, html) = {}
  BY <1>2, <1>5 DEF ContentLength, LengthSent, HeaderText
<1>8. Streamed(r)
  BY <1>2, <1>5 DEF Streamed
<1>11. bodyPlugin.name = "check_pii" => ChunkMasked(r.header)
  <2>1. value \in Seq(STRING)
    BY BodiesAssumption
  <2>2. Symbols(value) \in Seq(Symbol)
    BY <2>1, SymbolsType
  <2> QED BY <1>5, <2>2 DEF ChunkMasked, HeaderText
<1>9. bodyPlugin # NoPlugin /\ bodyPlugin' = bodyPlugin
  BY DEF ResponseHeaders, NoPlugin
<1>10. ResponseOK(bodyPlugin.name, r)
  BY <1>4, <1>5, <1>6, <1>7, <1>8, <1>11 DEF ResponseOK
<1> QED BY <1>9, <1>10 DEF BodyInv, r

\* The trailers come.
LEMMA TrailersStep ==
    ASSUME BodyInv, ResponseTrailers
    PROVE  BodyInv'
<1> DEFINE r == response'
           w == response
<1>1. /\ bodyPlugin # NoPlugin /\ bodyPlugin' = bodyPlugin /\ w.pc = "body"
      /\ w.left = <<>> /\ ResponseOK(bodyPlugin.name, w)
      /\ r = [w EXCEPT !.out = w.out \o w.buf, !.buf = <<>>,
                       !.by_trailers = TRUE, !.pc = "ended"]
  BY DEF ResponseTrailers, BodyInv
<1>2. IsResponse(w)
  BY <1>1 DEF ResponseOK
<1> HIDE DEF r, w
<1>3. /\ IsResponse(r) /\ r.pc = "ended" /\ r.out = w.out \o w.buf /\ r.buf = <<>>
      /\ r.left = w.left /\ r.body = w.body /\ r.active = w.active
      /\ r.content_length = w.content_length /\ r.chunk = w.chunk
      /\ r.header = w.header
  BY <1>1, <1>2 DEF IsResponse, ResponseFields
<1>4. Streamed(w) => Streamed(r)
  <2> SUFFICES ASSUME Streamed(w) PROVE Streamed(r)
    OBVIOUS
  <2>1. w.out \in Seq(Symbol) /\ w.buf = <<>>
    BY DEF Streamed
  <2>2. w.out \o <<>> = w.out
    BY <2>1
  <2> QED BY <1>1, <1>3, <2>1, <2>2 DEF Streamed
<1>5. ResponseOK(bodyPlugin.name, r)
  BY <1>1, <1>3, <1>4 DEF ResponseOK, PassedOn
<1> QED BY <1>1, <1>5 DEF BodyInv, r

\* A chunk comes.  What is passed on of a body that is passed on chunk by chunk
\* is as long as what came.
LEMMA PassedOnKeepsLength ==
    ASSUME NEW data \in Seq(Symbol), NEW end, NEW new \in Processed(data, end),
           PassedOn(bodyPlugin.name, response)
    PROVE  new \in Seq(Symbol) /\ Len(new) = Len(data)
<1>1. CASE bodyPlugin.name = "check_pii"
  <2>1. new = maskPII(data)
    BY <1>1 DEF Processed
  <2> QED BY <2>1, MaskKeepsShape
<1>2. CASE bodyPlugin.name = "ad_insertion" /\ ~response.active
  <2>1. new = data
    BY <1>2 DEF Processed
  <2> QED BY <2>1
<1> QED BY <1>1, <1>2 DEF PassedOn

\* Such a body is never held back.
LEMMA PassedOnNeverHeld ==
    ASSUME NEW data, NEW end, PassedOn(bodyPlugin.name, response)
    PROVE  Processed(data, end) # {}
BY DEF PassedOn, Processed

LEMMA BodyStep ==
    ASSUME BodyInv, response.pc = "body", NEW n \in 0..Len(response.left),
           NEW end \in BOOLEAN, ResponseBody(n, end)
    PROVE  BodyInv'
<1> DEFINE w == response
           r == response'
           data == w.buf \o SubSeq(w.left, 1, n)
           rest == SubSeq(w.left, n + 1, Len(w.left))
<1>1. /\ bodyPlugin # NoPlugin /\ bodyPlugin' = bodyPlugin
      /\ ResponseOK(bodyPlugin.name, w) /\ w.pc = "body"
      /\ end => n = Len(w.left)
  <2>1. w.pc = "body" /\ (end => n = Len(w.left)) /\ bodyPlugin' = bodyPlugin
    BY DEF ResponseBody
  <2>2. w # [pc |-> "none"]
    BY <2>1
  <2> QED BY <2>1, <2>2 DEF BodyInv
<1>2. IsResponse(w)
  BY <1>1 DEF ResponseOK
<1>3. ASSUME Streamed(w)
      PROVE  /\ data \in Seq(Symbol) /\ rest \in Seq(Symbol)
             /\ Len(data) = n /\ Len(rest) = Len(w.left) - n
             /\ end => rest = <<>>
  <2>1. w.left \in Seq(Symbol) /\ w.buf = <<>> /\ n \in 0..Len(w.left)
    BY <1>3 DEF Streamed
  <2>2. SubSeq(w.left, 1, n) \in Seq(Symbol) /\ Len(SubSeq(w.left, 1, n)) = n
    BY <2>1
  <2>3. rest \in Seq(Symbol) /\ Len(rest) = Len(w.left) - n
    BY <2>1
  <2>4. data = SubSeq(w.left, 1, n)
    BY <2>1, <2>2
  <2>5. end => rest = <<>>
    <3>1. end => Len(rest) = 0
      BY <1>1, <2>1, <2>3
    <3> QED BY <2>3, <3>1, EmptySequence
  <2> HIDE DEF data, rest, w
  <2> QED BY <2>2, <2>3, <2>4, <2>5
<1>4. CASE Processed(data, end) = {}
  <2>1. r = [w EXCEPT !.buf = data, !.left = rest]
    BY <1>4 DEF ResponseBody
  <2>2. ~PassedOn(bodyPlugin.name, w)
    BY <1>4, PassedOnNeverHeld
  <2> HIDE DEF w, r, data, rest
  <2>3. /\ IsResponse(r) /\ r.pc = w.pc /\ r.active = w.active
        /\ r.content_length = w.content_length /\ r.chunk = w.chunk
        /\ r.header = w.header /\ r.body = w.body
    BY <1>2, <2>1 DEF IsResponse, ResponseFields
  <2>4. ResponseOK(bodyPlugin.name, r)
    BY <1>1, <2>2, <2>3 DEF ResponseOK, PassedOn
  <2> QED BY <1>1, <2>4 DEF BodyInv, r
<1>5. ASSUME NEW new \in Processed(data, end),
             r = [w EXCEPT !.buf = <<>>, !.left = rest, !.out = w.out \o new,
                           !.chunk = [in |-> data, out |-> new],
                           !.pc = IF end THEN "ended" ELSE "body"]
      PROVE  BodyInv'
  <2>1. ASSUME PassedOn(bodyPlugin.name, w), Streamed(w)
        PROVE  new \in Seq(Symbol) /\ Len(new) = n
    BY <1>3, <2>1, PassedOnKeepsLength
  <2>2. bodyPlugin.name = "check_pii" => new = maskPII(data)
    BY DEF Processed
  <2> HIDE DEF w, r, data, rest
  <2>3. /\ IsResponse(r) /\ r.pc = IF end THEN "ended" ELSE "body"
        /\ r.out = w.out \o new /\ r.buf = <<>> /\ r.left = rest
        /\ r.body = w.body /\ r.active = w.active
        /\ r.content_length = w.content_length /\ r.header = w.header
        /\ r.chunk = [in |-> data, out |-> new]
    BY <1>2, <1>5 DEF IsResponse, ResponseFields
  <2>4. PassedOn(bodyPlugin.name, w) <=> PassedOn(bodyPlugin.name, r)
    BY <2>3 DEF PassedOn
  <2>5. ASSUME PassedOn(bodyPlugin.name, w) PROVE Streamed(r)
    <3>1. Streamed(w)
      BY <1>1, <2>5 DEF ResponseOK
    <3>2. /\ w.out \in Seq(Symbol) /\ w.left \in Seq(Symbol)
          /\ Len(w.out) + Len(w.left) = Len(w.body)
      BY <3>1 DEF Streamed
    <3>3. new \in Seq(Symbol) /\ Len(new) = n
      BY <2>1, <2>5, <3>1
    <3>4. /\ rest \in Seq(Symbol) /\ Len(rest) = Len(w.left) - n
          /\ end => rest = <<>>
      BY <1>3, <3>1
    <3>5. w.out \o new \in Seq(Symbol) /\ Len(w.out \o new) = Len(w.out) + n
      BY <3>2, <3>3, ConcatLength
    <3>6. Len(w.out \o new) + Len(rest) = Len(w.body)
      <4>1. n \in Nat /\ Len(w.out) \in Nat /\ Len(w.left) \in Nat
        BY <3>2, <3>3
      <4>2. (Len(w.out) + n) + (Len(w.left) - n) = Len(w.out) + Len(w.left)
        BY <4>1, MovedOver
      <4>3. Len(w.out \o new) + Len(rest) = (Len(w.out) + n) + (Len(w.left) - n)
        BY <3>4, <3>5, Zenon
      <4> QED BY <3>2, <4>2, <4>3
    <3>7. r.pc = "ended" => rest = <<>>
      BY <2>3, <3>4
    <3> QED BY <2>3, <3>2, <3>4, <3>5, <3>6, <3>7 DEF Streamed
  <2>6. ASSUME bodyPlugin.name = "check_pii" PROVE ChunkMasked(r.chunk)
    <3>1. Streamed(w)
      BY <1>1, <2>6 DEF ResponseOK, PassedOn
    <3> QED BY <1>3, <2>2, <2>3, <2>6, <3>1 DEF ChunkMasked
  <2>7. ResponseOK(bodyPlugin.name, r)
    BY <1>1, <2>3, <2>4, <2>5, <2>6 DEF ResponseOK
  <2> QED BY <1>1, <2>7 DEF BodyInv, r
<1> QED BY <1>4, <1>5 DEF ResponseBody

\* The responses of all four plugins, wherever the origin cuts a body into chunks
\* and whether its last chunk or trailers end it (onResponseBody).
THEOREM BodyInvariant == BodySpec => []BodyInv
<1>1. BodyInit => BodyInv
  BY DEF BodyInit, BodyInv
<1>2. BodyInv /\ [BodyNext]_bodyVars => BodyInv'
  <2> SUFFICES ASSUME BodyInv, [BodyNext]_bodyVars PROVE BodyInv'
    OBVIOUS
  <2>1. CASE LoadBodyPlugin
    BY <2>1 DEF LoadBodyPlugin, BodyInv
  <2>2. CASE \E html, ad_request, checked \in BOOLEAN :
               /\ bodyPlugin.name \in DOMAIN Bodies
               /\ \E body \in Bodies[bodyPlugin.name],
                     value \in HeaderValues[bodyPlugin.name] :
                    ResponseHeaders(body, value, html, ad_request, checked)
    BY <2>2, HeadersStep
  <2>3. CASE \E end \in BOOLEAN :
               response.pc = "body" /\ \E n \in 0..Len(response.left) :
                 ResponseBody(n, end)
    BY <2>3, BodyStep
  <2>4. CASE ResponseTrailers
    BY <2>4, TrailersStep
  <2>5. CASE UNCHANGED bodyVars
    BY <2>5 DEF bodyVars, BodyInv
  <2> QED BY <2>1, <2>2, <2>3, <2>4, <2>5 DEF BodyNext
<1> QED BY <1>1, <1>2, PTL DEF BodySpec

-----------------------------------------------------------------------------
(* What is masked.                                                          *)

\* A text, a pattern and the loop that replaces it there.
Replaces(text, pattern, kept, f) ==
    /\ text \in Seq(Symbol) /\ kept \in Nat
    /\ Len(pattern) \in Nat \ {0} /\ DOMAIN pattern = 1..Len(pattern)
    /\ IsReplaceLoop(text, pattern, kept, f)

\* Symbol k of the result, if the loop is begun at place i.
Out(f, i, k) == f[i][k - i + 1]

\* There is a match at place i.
MatchAt(text, pattern, i) ==
    i + Len(pattern) - 1 <= Len(text) /\ Matches(text, pattern, i)

\* A match holds the symbols of the pattern.
LEMMA MatchSymbols ==
    ASSUME NEW text \in Seq(Symbol), NEW pattern, Len(pattern) \in Nat \ {0},
           DOMAIN pattern = 1..Len(pattern), NEW i \in 1..Len(text),
           i + Len(pattern) - 1 <= Len(text)
    PROVE  Matches(text, pattern, i) <=>
             \A k \in i..(i + Len(pattern) - 1) : text[k] = <<pattern[k - i + 1]>>
<1> DEFINE n == Len(pattern)
           part == SubSeq(text, i, i + n - 1)
<1>0. n \in Nat \ {0} /\ Len(text) \in Nat /\ i + n - 1 \in i..Len(text)
  OBVIOUS
<1>1. part = [k \in 1..n |-> text[i + k - 1]]
  BY <1>0
<1>2. Symbols(pattern) = [k \in 1..n |-> <<pattern[k]>>]
  BY DEF Symbols
<1>3. (part = Symbols(pattern)) <=> \A k \in 1..n : text[i + k - 1] = <<pattern[k]>>
  <2> HIDE DEF part, n
  <2> QED BY <1>1, <1>2
<1>4. (\A k \in 1..n : text[i + k - 1] = <<pattern[k]>>)
        => \A k \in i..(i + n - 1) : text[k] = <<pattern[k - i + 1]>>
  <2> SUFFICES ASSUME \A k \in 1..n : text[i + k - 1] = <<pattern[k]>>,
                      NEW k \in i..(i + n - 1)
               PROVE  text[k] = <<pattern[k - i + 1]>>
    OBVIOUS
  <2>1. k - i + 1 \in 1..n /\ i + (k - i + 1) - 1 = k
    BY <1>0
  <2> HIDE DEF n
  <2> QED BY <2>1
<1>5. (\A k \in i..(i + n - 1) : text[k] = <<pattern[k - i + 1]>>)
        => \A k \in 1..n : text[i + k - 1] = <<pattern[k]>>
  <2> SUFFICES ASSUME \A k \in i..(i + n - 1) : text[k] = <<pattern[k - i + 1]>>,
                      NEW k \in 1..n
               PROVE  text[i + k - 1] = <<pattern[k]>>
    OBVIOUS
  <2>1. i + k - 1 \in i..(i + n - 1) /\ (i + k - 1) - i + 1 = k
    BY <1>0
  <2> HIDE DEF n
  <2> QED BY <2>1
<1> QED BY <1>3, <1>4, <1>5 DEF Matches

\* One turn of the loop, symbol by symbol.
LEMMA LoopTurn ==
    ASSUME NEW text, NEW pattern, NEW kept, NEW f,
           Replaces(text, pattern, kept, f),
           NEW i \in 1..Len(text), NEW k \in i..Len(text)
    PROVE  Out(f, i, k) =
             IF MatchAt(text, pattern, i)
             THEN IF k < i + Len(pattern)
                  THEN IF k <= i + Len(pattern) - 1 - kept /\ text[k] = <<"d">>
                       THEN <<"X">> ELSE text[k]
                  ELSE Out(f, i + Len(pattern), k)
             ELSE IF i + Len(pattern) - 1 > Len(text) \/ k = i THEN text[k]
                  ELSE Out(f, i + 1, k)
<1> DEFINE n == Len(pattern)
<1>0. /\ text \in Seq(Symbol) /\ Len(text) \in Nat /\ n \in Nat \ {0} /\ kept \in Nat
      /\ i \in 1..(Len(text) + 1)
      /\ f[i] = ReplacedAt(text, pattern, kept, f, i)
      /\ k - i + 1 \in 1..(Len(text) - i + 1) /\ i + (k - i + 1) - 1 = k
  BY DEF Replaces, IsReplaceLoop
<1>1. \A j \in 1..(Len(text) + 1) :
        f[j] \in Seq(Symbol) /\ Len(f[j]) = Len(text) + 1 - j
  BY LoopKeepsShape DEF Replaces, KeepsShape
<1>2. CASE i + n - 1 > Len(text)
  <2>1. f[i] = SubSeq(text, i, Len(text))
    BY <1>0, <1>2 DEF ReplacedAt
  <2>2. f[i][k - i + 1] = text[k]
    BY <1>0, <2>1
  <2> QED BY <1>0, <1>2, <2>2 DEF MatchAt, Out
<1>3. CASE MatchAt(text, pattern, i)
  <2> DEFINE h == Masked(text, n, kept, i)
  <2>1. i + n - 1 <= Len(text) /\ i + n \in 1..(Len(text) + 1)
    BY <1>0, <1>3 DEF MatchAt
  <2>2. f[i] = h \o f[i + n]
    BY <1>0, <1>3, <2>1 DEF ReplacedAt, MatchAt
  <2>3. /\ h \in Seq(Symbol) /\ Len(h) = n
        /\ \A m \in 1..n :
             h[m] = IF m <= n - kept /\ text[i + m - 1] = <<"d">> THEN <<"X">>
                    ELSE text[i + m - 1]
    BY <1>0, <2>1, MaskedType
  <2> HIDE DEF h
  <2>4. f[i][k - i + 1] = IF k - i + 1 <= n THEN h[k - i + 1]
                          ELSE f[i + n][(k - i + 1) - n]
    <3>1. f[i + n] \in Seq(Symbol)
      BY <1>1, <2>1
    <3>2. Len(f[i + n]) = Len(text) + 1 - (i + n)
      BY <1>1, <2>1
    <3>3. k - i + 1 \in 1..(Len(h) + Len(f[i + n]))
      <4>1. n + (Len(text) + 1 - (i + n)) = Len(text) - i + 1
        BY <1>0
      <4>2. Len(h) + Len(f[i + n]) = Len(text) - i + 1
        BY <2>3, <3>2, <4>1, Zenon
      <4> QED BY <1>0, <4>2
    <3> QED BY <1>0, <2>2, <2>3, <3>1, <3>3, ConcatAt
  <2>5. CASE k < i + n
    <3>1. k - i + 1 \in 1..n /\ (k - i + 1 <= n - kept <=> k <= i + n - 1 - kept)
      BY <1>0, <2>5
    <3>2. h[k - i + 1] = IF k - i + 1 <= n - kept /\ text[k] = <<"d">> THEN <<"X">>
                         ELSE text[k]
      BY <1>0, <2>3, <3>1
    <3>3. f[i][k - i + 1] = h[k - i + 1]
      BY <2>4, <3>1
    <3> HIDE DEF n
    <3>4. Out(f, i, k) = IF k <= i + n - 1 - kept /\ text[k] = <<"d">> THEN <<"X">>
                        ELSE text[k]
      BY <3>1, <3>2, <3>3, Zenon DEF Out
    <3> QED BY <1>3, <2>5, <3>4, Zenon DEF n
  <2>6. CASE ~(k < i + n)
    <3>1. ~(k - i + 1 <= n) /\ (k - i + 1) - n = k - (i + n) + 1
      BY <1>0, <2>6
    <3>2. f[i][k - i + 1] = f[i + n][k - (i + n) + 1]
      BY <2>4, <3>1
    <3> HIDE DEF n
    <3>3. Out(f, i, k) = Out(f, i + n, k)
      BY <3>2, Zenon DEF Out
    <3> QED BY <1>3, <2>6, <3>3, Zenon DEF n
  <2> QED BY <2>5, <2>6
<1>4. CASE i + n - 1 <= Len(text) /\ ~MatchAt(text, pattern, i)
  <2>1. f[i] = <<text[i]>> \o f[i + 1]
    BY <1>0, <1>4 DEF ReplacedAt, MatchAt
  <2>2. text[i] \in Symbol
    BY <1>0
  <2>3. /\ <<text[i]>> \in Seq(Symbol) /\ Len(<<text[i]>>) = 1
        /\ <<text[i]>>[1] = text[i]
    BY <2>2
  <2>4. i + 1 \in 1..(Len(text) + 1)
    BY <1>0
  <2>5. f[i + 1] \in Seq(Symbol) /\ Len(f[i + 1]) = Len(text) + 1 - (i + 1)
    BY <1>1, <2>4
  <2>6. k - i + 1 \in 1..(Len(<<text[i]>>) + Len(f[i + 1]))
    BY <1>0, <2>3, <2>5
  <2>7. f[i][k - i + 1] = IF k - i + 1 <= 1 THEN <<text[i]>>[k - i + 1]
                          ELSE f[i + 1][(k - i + 1) - 1]
    BY <2>1, <2>3, <2>5, <2>6, ConcatAt
  <2>8. k = i => f[i][k - i + 1] = text[k]
    BY <1>0, <2>3, <2>7
  <2>9. k # i => f[i][k - i + 1] = f[i + 1][k - (i + 1) + 1]
    <3>1. k # i => ~(k - i + 1 <= 1) /\ (k - i + 1) - 1 = k - (i + 1) + 1
      BY <1>0
    <3> QED BY <2>7, <3>1
  <2>10. ~(i + n - 1 > Len(text))
    BY <1>0, <1>4
  <2> QED BY <1>4, <2>8, <2>9, <2>10, Zenon DEF Out
<1>5. i + n - 1 > Len(text) \/ i + n - 1 <= Len(text)
  BY <1>0
<1> QED BY <1>2, <1>3, <1>4, <1>5

\* A match covers symbol k, which is not among those it keeps.
Covers(text, pattern, kept, j, k) ==
    MatchAt(text, pattern, j) /\ j <= k /\ k <= j + Len(pattern) - 1 - kept

\* Only symbols that a match covers are changed.
LEMMA ChangedIsCovered ==
    ASSUME NEW text, NEW pattern, NEW kept, NEW f,
           Replaces(text, pattern, kept, f)
    PROVE  \A i \in 1..Len(text) : \A k \in i..Len(text) :
             Out(f, i, k) # text[k] =>
               \E j \in 1..Len(text) : Covers(text, pattern, kept, j, k)
<1> DEFINE n == Len(text)
           size == Len(pattern)
           C(k) == \E j \in 1..n : Covers(text, pattern, kept, j, k)
           T == {i \in 1..n : \A k \in i..n : Out(f, i, k) # text[k] => C(k)}
<1>0. n \in Nat /\ size \in Nat \ {0} /\ kept \in Nat
  BY DEF Replaces
<1>1. ASSUME NEW i \in 1..n, \A j \in (i + 1)..n : j \in T,
             NEW k \in i..n, Out(f, i, k) # text[k]
      PROVE  C(k)
  <2>1. ASSUME NEW j \in (i + 1)..n, k \in j..n, Out(f, i, k) = Out(f, j, k)
        PROVE  C(k)
    <3>1. j \in T
      BY <1>1, <2>1
    <3> HIDE DEF C
    <3> QED BY <1>1, <2>1, <3>1
  <2>2. CASE MatchAt(text, pattern, i)
    <3>1. CASE k < i + size
      <4>1. k <= i + size - 1 - kept
        BY <1>1, <2>2, <3>1, LoopTurn
      <4>2. i <= k
        BY <1>0
      <4> QED BY <2>2, <4>1, <4>2 DEF Covers
    <3>2. CASE ~(k < i + size)
      <4>1. Out(f, i, k) = Out(f, i + size, k)
        BY <2>2, <3>2, LoopTurn
      <4>2. i + size \in (i + 1)..n /\ k \in (i + size)..n
        BY <1>0, <3>2
      <4> HIDE DEF C, T
      <4> QED BY <2>1, <4>1, <4>2
    <3> QED BY <3>1, <3>2
  <2>3. CASE ~MatchAt(text, pattern, i)
    <3>1. Out(f, i, k) = Out(f, i + 1, k) /\ k # i
      BY <1>1, <2>3, LoopTurn
    <3>2. i + 1 \in (i + 1)..n /\ k \in (i + 1)..n
      BY <1>0, <3>1
    <3> HIDE DEF C, T
    <3> QED BY <2>1, <3>1, <3>2
  <2> QED BY <2>2, <2>3
<1>2. \A i \in 1..n : (\A j \in (i + 1)..n : j \in T) => i \in T
  <2> HIDE DEF C
  <2> QED BY <1>1
<1>3. \A i \in 1..n : i \in T
  <2> HIDE DEF T, n
  <2> QED BY <1>0, <1>2, DownwardInduction
<1> QED BY <1>3

\* No symbol of the pattern stands before place i.
NoneBefore(text, pattern, i) ==
    i > 1 => \A m \in DOMAIN pattern : text[i - 1] # <<pattern[m]>>

\* The loop comes to a place before which no symbol of the pattern stands: a match
\* that begins earlier has ended by then.
LEMMA LoopComesBy ==
    ASSUME NEW text, NEW pattern, NEW kept, NEW f,
           Replaces(text, pattern, kept, f),
           NEW i \in 1..Len(text), NoneBefore(text, pattern, i),
           NEW k \in i..Len(text)
    PROVE  Out(f, 1, k) = Out(f, i, k)
<1> DEFINE n == Len(text)
           size == Len(pattern)
           T == {j \in 1..i : Out(f, j, k) = Out(f, i, k)}
<1>0. /\ text \in Seq(Symbol) /\ n \in Nat /\ size \in Nat \ {0} /\ kept \in Nat
      /\ DOMAIN pattern = 1..size /\ i \in Nat
  BY DEF Replaces
<1>1. ASSUME NEW j \in 1..i, \A m \in (j + 1)..i : m \in T
      PROVE  j \in T
  <2>1. CASE j = i
    BY <2>1
  <2>2. CASE j # i
    <3>1. j \in 1..n /\ k \in j..n /\ k # j /\ j + 1 \in (j + 1)..i /\ i > 1
      BY <1>0, <2>2
    <3>2. CASE MatchAt(text, pattern, j)
      <4>1. j + size - 1 <= n
        BY <3>2 DEF MatchAt
      <4>2. j + size - 1 < i - 1
        <5> SUFFICES ASSUME i - 1 <= j + size - 1 PROVE FALSE
          BY <1>0, <3>1
        <5>1. i - 1 \in j..(j + size - 1)
          BY <1>0, <3>1
        <5>2. text[i - 1] = <<pattern[(i - 1) - j + 1]>>
          BY <1>0, <3>1, <3>2, <4>1, <5>1, MatchSymbols DEF MatchAt
        <5>3. (i - 1) - j + 1 \in 1..size
          BY <1>0, <5>1
        <5> QED BY <1>0, <3>1, <5>2, <5>3 DEF NoneBefore
      <4>3. j + size \in (j + 1)..i /\ ~(k < j + size)
        BY <1>0, <4>2
      <4>4. Out(f, j, k) = Out(f, j + size, k)
        BY <3>1, <3>2, <4>3, LoopTurn
      <4> QED BY <1>1, <4>3, <4>4
    <3>3. CASE ~MatchAt(text, pattern, j)
      <4>1. CASE j + size - 1 > n
        <5>1. i + size - 1 > n /\ ~MatchAt(text, pattern, i)
          BY <1>0, <4>1 DEF MatchAt
        <5>2. Out(f, j, k) = text[k]
          BY <3>1, <3>3, <4>1, LoopTurn
        <5>3. Out(f, i, k) = text[k]
          BY <5>1, LoopTurn
        <5> QED BY <5>2, <5>3
      <4>2. CASE ~(j + size - 1 > n)
        <5>1. Out(f, j, k) = Out(f, j + 1, k)
          BY <3>1, <3>3, <4>2, LoopTurn
        <5> QED BY <1>1, <3>1, <5>1
      <4> QED BY <4>1, <4>2
    <3> QED BY <3>2, <3>3
  <2> QED BY <2>1, <2>2
<1>2. \A j \in 1..i : (\A m \in (j + 1)..i : m \in T) => j \in T
  BY <1>1
<1>3. \A j \in 1..i : j \in T
  <2> HIDE DEF T, n
  <2> QED BY <1>0, <1>2, DownwardInduction
<1>4. 1 \in 1..i
  BY <1>0
<1> QED BY <1>3, <1>4

\* What GlobalReplace makes of a text: its shape, the symbols it may change, and
\* a match that nothing before it can take part in.
Replaced(text, pattern, kept, r) ==
    /\ r \in Seq(Symbol) /\ Len(r) = Len(text)
    /\ \A k \in 1..Len(text) :
         /\ r[k] \in {text[k], <<"X">>}
         /\ r[k] # text[k] =>
              \E j \in 1..Len(text) : Covers(text, pattern, kept, j, k)
    /\ \A i \in 1..Len(text) :
         MatchAt(text, pattern, i) /\ NoneBefore(text, pattern, i) =>
           \A k \in i..(i + Len(pattern) - 1) :
             r[k] = IF k <= i + Len(pattern) - 1 - kept /\ text[k] = <<"d">>
                    THEN <<"X">> ELSE text[k]

LEMMA ReplaceResult ==
    ASSUME NEW text \in Seq(Symbol), NEW pattern, NEW kept \in Nat,
           Len(pattern) \in Nat \ {0}, DOMAIN pattern = 1..Len(pattern)
    PROVE  Replaced(text, pattern, kept, GlobalReplace(text, pattern, kept))
<1> DEFINE r == GlobalReplace(text, pattern, kept)
           n == Len(text)
<1>1. PICK f : r = f[1] /\ IsReplaceLoop(text, pattern, kept, f)
  BY ReplaceLoop
<1>2. Replaces(text, pattern, kept, f)
  BY <1>1 DEF Replaces
<1>3. n \in Nat /\ 1 \in 1..(n + 1)
  OBVIOUS
<1>4. KeepsShape(text, 1, r)
  BY <1>1, <1>3, LoopKeepsShape
<1>5. \A k \in 1..n : r[k] = Out(f, 1, k)
  <2>1. \A k \in 1..n : k - 1 + 1 = k
    BY <1>3
  <2> QED BY <1>1, <2>1 DEF Out
<1> HIDE DEF r
<1>6. r \in Seq(Symbol) /\ Len(r) = n /\ \A k \in 1..n : r[k] \in {text[k], <<"X">>}
  <2>1. n + 1 - 1 = n /\ \A k \in 1..n : 1 + k - 1 = k
    BY <1>3
  <2>2. r \in Seq(Symbol) /\ Len(r) = n /\ \A k \in 1..n : r[k] \in MaskOf(text[k])
    BY <1>4, <2>1 DEF KeepsShape
  <2> QED BY <2>2 DEF MaskOf
<1>7. ASSUME NEW k \in 1..n, r[k] # text[k]
      PROVE  \E j \in 1..n : Covers(text, pattern, kept, j, k)
  <2>1. 1 \in 1..n /\ Out(f, 1, k) # text[k]
    BY <1>3, <1>5, <1>7
  <2> QED BY <1>2, <2>1, ChangedIsCovered
<1>8. ASSUME NEW i \in 1..n, MatchAt(text, pattern, i), NoneBefore(text, pattern, i),
             NEW k \in i..(i + Len(pattern) - 1)
      PROVE  r[k] = IF k <= i + Len(pattern) - 1 - kept /\ text[k] = <<"d">>
                    THEN <<"X">> ELSE text[k]
  <2>1. k \in i..n /\ k \in 1..n /\ k < i + Len(pattern)
    BY <1>3, <1>8 DEF MatchAt
  <2>2. Out(f, 1, k) = Out(f, i, k)
    BY <1>2, <1>8, <2>1, LoopComesBy
  <2>3. Out(f, i, k) = IF k <= i + Len(pattern) - 1 - kept /\ text[k] = <<"d">>
                      THEN <<"X">> ELSE text[k]
    BY <1>2, <1>8, <2>1, LoopTurn
  <2> QED BY <1>5, <2>1, <2>2, <2>3
<1> QED BY <1>6, <1>7, <1>8 DEF Replaced, r

\* The patterns of check_pii.
LEMMA Patterns ==
    /\ Len(Card) = 7 /\ DOMAIN Card = 1..7
    /\ \A m \in 1..7 : Card[m] = IF m \in {1, 3, 5, 7} THEN "d" ELSE "-"
    /\ Len(Code) = 3 /\ DOMAIN Code = 1..3 /\ \A m \in 1..3 : Code[m] = "d"
<1>1. Len(Card) = 7 /\ DOMAIN Card = 1..7
  BY DEF Card
<1>2. ASSUME NEW m \in 1..7 PROVE Card[m] = IF m \in {1, 3, 5, 7} THEN "d" ELSE "-"
  <2>1. m \in {1, 2, 3, 4, 5, 6, 7}
    OBVIOUS
  <2> QED BY <2>1 DEF Card
<1>3. Len(Code) = 3 /\ DOMAIN Code = 1..3 /\ \A m \in 1..3 : Code[m] = "d"
  BY DEF Code, CodeLength
<1> QED BY <1>1, <1>2, <1>3

\* The symbols of a match of one of them.
LEMMA PatternMatch ==
    ASSUME NEW text \in Seq(Symbol), NEW i \in 1..Len(text)
    PROVE  /\ MatchAt(text, Card, i) => i + 6 <= Len(text) /\ \A k \in i..(i + 6) :
                text[k] = IF k - i \in {0, 2, 4, 6} THEN <<"d">> ELSE <<"-">>
           /\ MatchAt(text, Code, i) <=>
                i + 2 <= Len(text) /\ \A k \in i..(i + 2) : text[k] = <<"d">>
<1>0. i \in Nat /\ Len(text) \in Nat
  OBVIOUS
<1>1. ASSUME MatchAt(text, Card, i)
      PROVE  i + 6 <= Len(text) /\ \A k \in i..(i + 6) :
               text[k] = IF k - i \in {0, 2, 4, 6} THEN <<"d">> ELSE <<"-">>
  <2>1. i + Len(Card) - 1 = i + 6 /\ i + 6 <= Len(text)
    BY <1>0, <1>1, Patterns DEF MatchAt
  <2>2. \A k \in i..(i + 6) : text[k] = <<Card[k - i + 1]>>
    <3>1. /\ Len(Card) \in Nat \ {0} /\ DOMAIN Card = 1..Len(Card)
          /\ i + Len(Card) - 1 <= Len(text)
      BY <2>1, Patterns
    <3>2. Matches(text, Card, i)
      BY <1>1 DEF MatchAt
    <3>3. \A k \in i..(i + Len(Card) - 1) : text[k] = <<Card[k - i + 1]>>
      BY <3>1, <3>2, MatchSymbols
    <3> QED BY <2>1, <3>3
  <2>3. ASSUME NEW k \in i..(i + 6)
        PROVE  text[k] = IF k - i \in {0, 2, 4, 6} THEN <<"d">> ELSE <<"-">>
    <3>1. k - i + 1 \in 1..7
      BY <1>0
    <3>2. k - i + 1 \in {1, 3, 5, 7} <=> k - i \in {0, 2, 4, 6}
      BY <1>0
    <3>3. Card[k - i + 1] = IF k - i \in {0, 2, 4, 6} THEN "d" ELSE "-"
      BY <3>1, <3>2, Patterns
    <3> QED BY <2>2, <3>3
  <2> QED BY <2>1, <2>3
<1>2. MatchAt(text, Code, i) <=>
        i + 2 <= Len(text) /\ \A k \in i..(i + 2) : text[k] = <<"d">>
  <2>1. i + Len(Code) - 1 = i + 2
    BY <1>0, Patterns
  <2>2. \A k \in i..(i + 2) : Code[k - i + 1] = "d"
    <3>1. \A k \in i..(i + 2) : k - i + 1 \in 1..3
      BY <1>0
    <3> QED BY <3>1, Patterns
  <2>3. ASSUME i + 2 <= Len(text)
        PROVE  Matches(text, Code, i) <=> \A k \in i..(i + 2) : text[k] = <<"d">>
    <3>1. Matches(text, Code, i) <=>
            \A k \in i..(i + 2) : text[k] = <<Code[k - i + 1]>>
      <4>1. /\ Len(Code) \in Nat \ {0} /\ DOMAIN Code = 1..Len(Code)
            /\ i + Len(Code) - 1 <= Len(text)
        BY <2>1, <2>3, Patterns
      <4>2. Matches(text, Code, i) <=>
              \A k \in i..(i + Len(Code) - 1) : text[k] = <<Code[k - i + 1]>>
        BY <4>1, MatchSymbols
      <4> QED BY <2>1, <4>2
    <3> QED BY <2>2, <3>1
  <2> QED BY <2>1, <2>3 DEF MatchAt
<1> QED BY <1>1, <1>2

\* maskPII masks a card or a code that stands alone.
LEMMA AloneIsMasked ==
    ASSUME NEW in \in Seq(Symbol), NEW i \in 1..Len(in), NEW pattern \in {Card, Code},
           MatchAt(in, pattern, i), Apart(in, i - 1), Apart(in, i + Len(pattern)),
           NEW k \in i..(i + Len(pattern) - 1), in[k] = <<"d">>
    PROVE  maskPII(in)[k] = IF k = i + Len(pattern) - 1 THEN <<"d">> ELSE <<"X">>
<1> DEFINE u == GlobalReplace(in, Card, 1)
           v == GlobalReplace(u, Code, 1)
<1>0. /\ i \in Nat /\ Len(in) \in Nat /\ DOMAIN in = 1..Len(in)
      /\ Len(Card) \in Nat \ {0} /\ DOMAIN Card = 1..Len(Card)
      /\ Len(Code) \in Nat \ {0} /\ DOMAIN Code = 1..Len(Code)
  BY Patterns
<1>1. maskPII(in) = v
  BY DEF maskPII, CodeKept
<1>2. Replaced(in, Card, 1, u)
  BY <1>0, ReplaceResult
<1> HIDE DEF u
<1>3. u \in Seq(Symbol) /\ Len(u) = Len(in)
  BY <1>2 DEF Replaced
<1>4. Replaced(u, Code, 1, v)
  BY <1>0, <1>3, ReplaceResult
<1> HIDE DEF v
<1>5. \A m \in 1..Len(in) : u[m] \in {in[m], <<"X">>} /\ v[m] \in {u[m], <<"X">>}
  BY <1>2, <1>3, <1>4 DEF Replaced
<1>6. CASE pattern = Card
  <2>1. Len(pattern) = 7 /\ k \in i..(i + 6) /\ i + 6 <= Len(in) /\ k \in 1..Len(in)
    BY <1>0, <1>6, Patterns DEF MatchAt
  <2>2. NoneBefore(in, Card, i)
    <3> SUFFICES ASSUME i > 1, NEW m \in 1..7 PROVE in[i - 1] # <<Card[m]>>
      BY Patterns DEF NoneBefore
    <3>1. i - 1 \in DOMAIN in
      BY <1>0
    <3>2. in[i - 1] = <<"t">>
      BY <3>1 DEF Apart
    <3>3. Card[m] \in {"d", "-"}
      BY Patterns
    <3> QED BY <3>2, <3>3
  <2>3. u[k] = IF k <= i + 7 - 1 - 1 /\ in[k] = <<"d">> THEN <<"X">> ELSE in[k]
    BY <1>2, <1>6, <2>1, <2>2 DEF Replaced
  <2>4. CASE k # i + 6
    <3>1. u[k] = <<"X">>
      BY <1>0, <2>1, <2>3, <2>4
    <3> QED BY <1>0, <1>1, <1>5, <2>1, <2>4, <3>1
  <2>5. CASE k = i + 6
    <3>1. u[k] = <<"d">>
      BY <1>0, <2>3, <2>5
    <3>2. ASSUME v[k] # u[k] PROVE FALSE
      <4>1. PICK j \in 1..Len(u) : Covers(u, Code, 1, j, k)
        BY <1>3, <1>4, <2>1, <3>2 DEF Replaced
      <4>2. MatchAt(u, Code, j) /\ j <= k /\ k <= j + 1
        BY <4>1, Patterns DEF Covers
      <4>3. j + 2 <= Len(u) /\ \A m \in j..(j + 2) : u[m] = <<"d">>
        BY <1>3, <4>2, PatternMatch
      <4>4. k + 1 \in j..(j + 2) /\ k + 1 \in 1..Len(in)
        BY <1>0, <1>3, <2>1, <4>2, <4>3
      <4>5. k + 1 = i + Len(pattern)
        BY <1>0, <2>1, <2>5
      <4>6. in[k + 1] = <<"t">>
        BY <1>0, <4>4, <4>5 DEF Apart
      <4> QED BY <1>5, <4>3, <4>4, <4>6
    <3> QED BY <1>0, <1>1, <2>1, <2>5, <3>1, <3>2
  <2> QED BY <2>4, <2>5
<1>7. CASE pattern = Code
  <2>1. /\ Len(pattern) = 3 /\ k \in i..(i + 2) /\ i + 2 <= Len(in) /\ k \in 1..Len(in)
        /\ \A m \in i..(i + 2) : in[m] = <<"d">>
    <3>1. i + 2 <= Len(in) /\ \A m \in i..(i + 2) : in[m] = <<"d">>
      BY <1>7, PatternMatch
    <3> QED BY <1>0, <1>7, <3>1, Patterns
  <2>2. ASSUME NEW m \in i..(i + 2), u[m] # in[m] PROVE FALSE
    <3>1. m \in 1..Len(in)
      BY <1>0, <2>1
    <3>2. PICK j \in 1..Len(in) : Covers(in, Card, 1, j, m)
      BY <1>2, <2>2, <3>1 DEF Replaced
    <3>3. MatchAt(in, Card, j) /\ j <= m /\ m <= j + 5
      BY <3>2, Patterns DEF Covers
    <3>4. /\ j + 6 <= Len(in)
          /\ \A q \in j..(j + 6) :
               in[q] = IF q - j \in {0, 2, 4, 6} THEN <<"d">> ELSE <<"-">>
      BY <3>3, PatternMatch
    <3>5. m \in j..(j + 6) /\ m + 1 \in j..(j + 6) /\ m + 1 \in 1..Len(in)
      BY <1>0, <3>1, <3>3, <3>4
    <3>6. in[m] = <<"d">>
      BY <2>1
    <3>7. m - j \in {0, 2, 4}
      <4>1. m - j \in {0, 1, 2, 3, 4, 5}
        BY <3>1, <3>3
      <4>2. m - j \in {0, 2, 4, 6}
        BY <3>4, <3>5, <3>6
      <4> QED BY <3>1, <4>1, <4>2
    <3>8. (m + 1) - j \notin {0, 2, 4, 6}
      BY <3>1, <3>7
    <3>9. in[m + 1] = <<"-">>
      BY <3>4, <3>5, <3>8
    <3>10. CASE m = i + 2
      <4>1. in[m + 1] = <<"t">>
        BY <1>0, <2>1, <3>5, <3>10 DEF Apart
      <4> QED BY <3>9, <4>1
    <3>11. CASE m # i + 2
      <4>1. m + 1 \in i..(i + 2)
        BY <1>0, <3>11
      <4> QED BY <2>1, <3>9, <4>1
    <3> QED BY <3>10, <3>11
  <2>3. \A m \in i..(i + 2) : u[m] = <<"d">>
    BY <2>1, <2>2
  <2>4. MatchAt(u, Code, i)
    BY <1>3, <2>1, <2>3, PatternMatch
  <2>5. NoneBefore(u, Code, i)
    <3> SUFFICES ASSUME i > 1 PROVE u[i - 1] # <<"d">>
      BY Patterns DEF NoneBefore
    <3>1. i - 1 \in 1..Len(in)
      BY <1>0
    <3>2. in[i - 1] = <<"t">>
      BY <1>0, <3>1 DEF Apart
    <3> QED BY <1>5, <3>1, <3>2
  <2>6. v[k] = IF k <= i + 3 - 1 - 1 /\ u[k] = <<"d">> THEN <<"X">> ELSE u[k]
    BY <1>3, <1>4, <2>1, <2>4, <2>5, Patterns DEF Replaced
  <2>7. u[k] = <<"d">>
    BY <2>1, <2>3
  <2>8. k <= i + 3 - 1 - 1 <=> k # i + 3 - 1
    BY <1>0, <2>1
  <2> QED BY <1>1, <2>1, <2>6, <2>7, <2>8
<1> QED BY <1>6, <1>7

LEMMA MaskedAll ==
    ASSUME NEW chunk, ChunkMasked(chunk) \/ chunk.in = <<>>
    PROVE  AllMasked(chunk.in, chunk.out)
<1> DEFINE in == chunk.in
           out == chunk.out
<1> SUFFICES ASSUME NEW i \in DOMAIN in, NEW pattern \in {Card, Code},
                    i + Len(pattern) - 1 \in DOMAIN in,
                    SubSeq(in, i, i + Len(pattern) - 1) = Symbols(pattern),
                    Apart(in, i - 1), Apart(in, i + Len(pattern) - 1 + 1),
                    NEW k \in i..(i + Len(pattern) - 1), in[k] = <<"d">>
             PROVE  out[k] = IF k = i + Len(pattern) - 1 THEN <<"d">> ELSE <<"X">>
  BY DEF AllMasked
<1>1. in # <<>>
  OBVIOUS
<1>2. in \in Seq(Symbol) /\ out = maskPII(in)
  BY <1>1 DEF ChunkMasked
<1> HIDE DEF in, out
<1>3. i \in 1..Len(in) /\ i + Len(pattern) - 1 \in 1..Len(in)
  BY <1>2
<1>4. MatchAt(in, pattern, i)
  BY <1>2, <1>3 DEF MatchAt, Matches
<1>5. i + Len(pattern) - 1 + 1 = i + Len(pattern)
  BY <1>3, Patterns
<1> QED BY <1>2, <1>3, <1>4, <1>5, AloneIsMasked

\* check_pii lets no card number and no code that stands alone in a header or in a
\* chunk of a response that asks for the check out unmasked, and keeps its last
\* digits: the scan of maskPII never passes over one, because what comes before it
\* is in no match, and the second pass neither undoes nor extends what the first
\* one masked.
THEOREM PiiMaskedTheorem == BodySpec => []PiiMasked
<1>1. BodyInv => PiiMasked
  <2> SUFFICES ASSUME BodyInv, bodyPlugin.name = "check_pii", response.pc # "none"
               PROVE  /\ AllMasked(response.header.in, response.header.out)
                      /\ AllMasked(response.chunk.in, response.chunk.out)
    BY DEF PiiMasked
  <2>1. ResponseOK(bodyPlugin.name, response)
    BY DEF BodyInv
  <2>2. /\ ChunkMasked(response.header)
        /\ ChunkMasked(response.chunk) \/ response.chunk.in = <<>>
    BY <2>1 DEF ResponseOK
  <2> QED BY <2>2, MaskedAll
<1> QED BY <1>1, BodyInvariant, PTL

-----------------------------------------------------------------------------
(* Insertions.                                                              *)

LEMMA SameElements ==
    ASSUME NEW T, NEW s \in Seq(T), NEW t \in Seq(T), Len(s) = Len(t),
           \A i \in 1..Len(s) : s[i] = t[i]
    PROVE  s = t
OBVIOUS

\* c is b with x after the first p elements: the others move on by one place.
IsInserted(T, b, p, x, c) ==
    /\ c \in Seq(T) /\ Len(c) = Len(b) + 1
    /\ \A i \in 1..p : c[i] = b[i]
    /\ c[p + 1] = x
    /\ \A i \in (p + 2)..(Len(b) + 1) : c[i] = b[i - 1]
    /\ \A S : x \notin S => Filter(c, S) = Filter(b, S)

LEMMA InsertedAt ==
    ASSUME NEW T, NEW b \in Seq(T), NEW p \in 0..Len(b), NEW x \in T
    PROVE  IsInserted(T, b, p, x, InsertAt(b, p + 1, x))
<1> DEFINE n == Len(b)
           pre == SubSeq(b, 1, p)
           post == SubSeq(b, p + 1, n)
           own == <<x>>
           c == InsertAt(b, p + 1, x)
<1>0. n \in Nat /\ p \in Nat /\ p <= n /\ (p + 1) - 1 = p
  OBVIOUS
<1>1. c = (pre \o own) \o post
  BY <1>0 DEF InsertAt
<1>2. /\ pre \in Seq(T) /\ Len(pre) = p /\ post \in Seq(T) /\ Len(post) = n - p
      /\ b = pre \o post
  BY SplitAt
<1>3. own \in Seq(T) /\ Len(own) = 1 /\ own[1] = x
  OBVIOUS
<1>4. ASSUME NEW S, x \notin S PROVE Filter(own, S) = <<>>
  BY <1>4, FilterOne
<1> HIDE DEF pre, post, own, c, n
<1> DEFINE a == pre \o own
<1>5. /\ a \in Seq(T) /\ Len(a) = p + 1
      /\ \A i \in 1..p : a[i] = pre[i]
      /\ a[p + 1] = x
  <2>1. a \in Seq(T) /\ Len(a) = p + 1
    BY <1>2, <1>3, ConcatLength
  <2>2. ASSUME NEW i \in 1..(p + 1)
        PROVE  a[i] = IF i <= p THEN pre[i] ELSE own[i - p]
    BY <1>2, <1>3, ConcatAt
  <2> HIDE DEF a
  <2>3. ASSUME NEW i \in 1..p PROVE a[i] = pre[i]
    BY <1>0, <2>2
  <2>4. p + 1 \in 1..(p + 1) /\ ~(p + 1 <= p) /\ (p + 1) - p = 1
    BY <1>0
  <2> QED BY <1>3, <2>1, <2>2, <2>3, <2>4
<1> HIDE DEF a
<1>6. c = a \o post
  BY <1>1 DEF a
<1>7. c \in Seq(T) /\ Len(c) = n + 1
  <2>1. c \in Seq(T) /\ Len(c) = (p + 1) + (n - p)
    BY <1>2, <1>5, <1>6, ConcatLength
  <2> QED BY <1>0, <2>1
<1>8. ASSUME NEW i \in 1..(n + 1)
      PROVE  c[i] = IF i <= p + 1 THEN a[i] ELSE post[i - (p + 1)]
  <2>1. i \in 1..(Len(a) + Len(post))
    BY <1>0, <1>2, <1>5
  <2>2. (a \o post)[i] = IF i <= Len(a) THEN a[i] ELSE post[i - Len(a)]
    BY <1>2, <1>5, <2>1, ConcatAt
  <2> QED BY <1>5, <1>6, <2>2
<1>9. ASSUME NEW i \in 1..n
      PROVE  b[i] = IF i <= p THEN pre[i] ELSE post[i - p]
  <2>1. i \in 1..(Len(pre) + Len(post))
    BY <1>0, <1>2
  <2>2. (pre \o post)[i] = IF i <= Len(pre) THEN pre[i] ELSE post[i - Len(pre)]
    BY <1>2, <2>1, ConcatAt
  <2> QED BY <1>2, <2>2
<1>10. ASSUME NEW i \in 1..p PROVE c[i] = b[i]
  <2>1. i \in 1..n /\ i \in 1..(n + 1) /\ i <= p /\ i <= p + 1
    BY <1>0
  <2> QED BY <1>5, <1>8, <1>9, <2>1
<1>11. c[p + 1] = x
  <2>1. p + 1 \in 1..(n + 1) /\ p + 1 <= p + 1
    BY <1>0
  <2> QED BY <1>5, <1>8, <2>1
<1>12. ASSUME NEW i \in (p + 2)..(n + 1) PROVE c[i] = b[i - 1]
  <2>1. /\ i \in 1..(n + 1) /\ i - 1 \in 1..n /\ ~(i <= p + 1) /\ ~(i - 1 <= p)
        /\ i - (p + 1) = (i - 1) - p
    BY <1>0
  <2> QED BY <1>8, <1>9, <2>1
<1>13. ASSUME NEW S, x \notin S PROVE Filter(c, S) = Filter(b, S)
  <2>1. AllIn(T, pre, own, post)
    BY <1>2, <1>3 DEF AllIn
  <2>2. Filter((pre \o own) \o post, S)
          = (Filter(pre, S) \o Filter(own, S)) \o Filter(post, S)
    BY <2>1, FilterThree
  <2>3. Filter(own, S) = <<>>
    BY <1>4, <1>13
  <2>4. Filter(pre, S) \in Seq(T)
    BY <1>2, FilterType
  <2>5. Filter(pre, S) \o <<>> = Filter(pre, S)
    BY <2>4, ConcatEmptySeq
  <2>6. Filter(pre \o post, S) = Filter(pre, S) \o Filter(post, S)
    BY <1>2, FilterConcat
  <2> QED BY <1>1, <1>2, <2>2, <2>3, <2>5, <2>6, Zenon
<1>14. IsInserted(T, b, p, x, c)
  BY <1>7, <1>10, <1>11, <1>12, <1>13 DEF n, IsInserted
<1> QED BY <1>14 DEF c

\* It is inserted in every part of the sequence that reaches over the place.
LEMMA InsertedPrefix ==
    ASSUME NEW T, NEW b \in Seq(T), NEW p \in 0..Len(b), NEW x \in T,
           NEW j \in (p + 1)..(Len(b) + 1)
    PROVE  SubSeq(InsertAt(b, p + 1, x), 1, j)
             = InsertAt(SubSeq(b, 1, j - 1), p + 1, x)
<1> DEFINE n == Len(b)
           c == InsertAt(b, p + 1, x)
           d == SubSeq(b, 1, j - 1)
           e == InsertAt(d, p + 1, x)
           l == SubSeq(c, 1, j)
<1>0. /\ n \in Nat /\ p \in Nat /\ j \in Nat /\ p <= j - 1 /\ j - 1 <= n
      /\ j - 1 \in 0..n
  OBVIOUS
<1>1. /\ c \in Seq(T) /\ Len(c) = n + 1
      /\ \A i \in 1..p : c[i] = b[i]
      /\ c[p + 1] = x
      /\ \A i \in (p + 2)..(n + 1) : c[i] = b[i - 1]
  <2>1. IsInserted(T, b, p, x, c)
    BY InsertedAt
  <2> HIDE DEF c
  <2> QED BY <2>1 DEF IsInserted
<1> HIDE DEF c, n
<1>2. d \in Seq(T) /\ Len(d) = j - 1
  BY <1>0, SplitAt DEF n
<1>3. \A i \in 1..(j - 1) : d[i] = b[i]
  BY <1>0 DEF n
<1> HIDE DEF d
<1>4. /\ e \in Seq(T) /\ Len(e) = (j - 1) + 1
      /\ \A i \in 1..p : e[i] = d[i]
      /\ e[p + 1] = x
      /\ \A i \in (p + 2)..((j - 1) + 1) : e[i] = d[i - 1]
  <2>1. p \in 0..Len(d)
    BY <1>0, <1>2
  <2>2. IsInserted(T, d, p, x, e)
    BY <1>2, <2>1, InsertedAt
  <2> HIDE DEF e
  <2> QED BY <1>2, <2>2 DEF IsInserted
<1> HIDE DEF e
<1>5. l \in Seq(T) /\ Len(l) = j
  <2>1. j \in 0..Len(c)
    BY <1>0, <1>1
  <2> QED BY <1>1, <2>1, SplitAt
<1>6. \A i \in 1..j : l[i] = c[i]
  BY <1>0, <1>1
<1> HIDE DEF l
<1>7. ASSUME NEW i \in 1..j PROVE l[i] = e[i]
  <2>1. CASE i \in 1..p
    BY <1>0, <1>1, <1>3, <1>4, <1>6, <2>1
  <2>2. CASE i = p + 1
    BY <1>1, <1>4, <1>6, <2>2
  <2>3. CASE i > p + 1
    <3>1. i \in (p + 2)..(n + 1) /\ i \in (p + 2)..((j - 1) + 1) /\ i - 1 \in 1..(j - 1)
      BY <1>0, <2>3
    <3> QED BY <1>1, <1>3, <1>4, <1>6, <3>1
  <2> QED BY <1>0, <2>1, <2>2, <2>3
<1>8. Len(e) = j
  BY <1>0, <1>4
<1>9. l = e
  BY <1>4, <1>5, <1>7, <1>8, SameElements
<1> QED BY <1>9 DEF l, e, c, d

\* The symbols of T are the origin's and others, and the length tells them apart.
Telling(T) == Symbol \subseteq T /\ \A x \in T : IsOrigin(x) <=> x \in Symbol

LEMMA WithoutIs ==
    ASSUME NEW T, NEW s \in Seq(T), Telling(T)
    PROVE  WithoutInsertions(s) = Filter(s, Symbol)
<1> DEFINE O == {x \in Range(s) : IsOrigin(x)}
<1>1. s \in Seq(Range(s)) /\ Range(s) \subseteq T
  BY RangeType
<1>2. \A x \in Range(s) : x \in O <=> x \in Symbol
  BY <1>1 DEF Telling
<1>3. WithoutInsertions(s) = Filter(s, O)
  BY DEF WithoutInsertions
<1> HIDE DEF O
<1> QED BY <1>1, <1>2, <1>3, FilterSame

\* What stands at place i, if the plugin put it there, and where.
Before(s, i) == Filter(SubSeq(s, 1, i - 1), Symbol)
PlacedAt(s, i) == [pos |-> Len(Before(s, i)), content |-> s[i]]
PlacesIn(s) == {i \in 1..Len(s) : s[i] \notin Symbol}

LEMMA PlacedIs ==
    ASSUME NEW T, NEW s \in Seq(T), Telling(T)
    PROVE  Placed(s) = {PlacedAt(s, i) : i \in PlacesIn(s)}
<1>0. DOMAIN s = 1..Len(s) /\ Len(s) \in Nat /\ \A i \in 1..Len(s) : s[i] \in T
  OBVIOUS
<1>1. {k \in DOMAIN s : ~IsOrigin(s[k])} = PlacesIn(s)
  BY <1>0 DEF Telling, PlacesIn
<1>2. ASSUME NEW i \in PlacesIn(s)
      PROVE  WithoutInsertions(SubSeq(s, 1, i - 1)) = Before(s, i)
  <2>1. i - 1 \in 0..Len(s)
    BY <1>0 DEF PlacesIn
  <2>2. SubSeq(s, 1, i - 1) \in Seq(T)
    BY <2>1, SplitAt
  <2> QED BY <2>2, WithoutIs DEF Before
<1>3. ASSUME NEW i \in PlacesIn(s)
      PROVE  [pos |-> Len(WithoutInsertions(SubSeq(s, 1, i - 1))), content |-> s[i]]
               = PlacedAt(s, i)
  BY <1>2 DEF PlacedAt
<1>4. Placed(s) = {[pos |-> Len(WithoutInsertions(SubSeq(s, 1, i - 1))),
                    content |-> s[i]] : i \in PlacesIn(s)}
  BY <1>1 DEF Placed
<1> HIDE DEF PlacesIn
<1> QED BY <1>3, <1>4

\* An insertion before all others stands at its place, and leaves theirs.
LEMMA PlacedInserted ==
    ASSUME NEW T, Telling(T), NEW b \in Seq(T), NEW p \in 0..Len(b),
           NEW x \in T \ Symbol, \A i \in 1..p : b[i] \in Symbol
    PROVE  Placed(InsertAt(b, p + 1, x))
             = Placed(b) \cup {[pos |-> p, content |-> x]}
<1> DEFINE n == Len(b)
           c == InsertAt(b, p + 1, x)
           new == [pos |-> p, content |-> x]
<1>0. n \in Nat /\ p \in Nat /\ p <= n
  OBVIOUS
<1>1. IsInserted(T, b, p, x, c)
  BY InsertedAt
<1>2. ASSUME NEW j \in (p + 1)..(n + 1)
      PROVE  SubSeq(c, 1, j) = InsertAt(SubSeq(b, 1, j - 1), p + 1, x)
  BY <1>2, InsertedPrefix
<1> HIDE DEF c, n
<1>3. /\ c \in Seq(T) /\ Len(c) = n + 1 /\ c[p + 1] = x
      /\ \A i \in 1..p : c[i] = b[i]
      /\ \A i \in (p + 2)..(n + 1) : c[i] = b[i - 1]
  BY <1>1 DEF IsInserted, n
<1>4. p + 1 \in PlacesIn(c) /\ PlacedAt(c, p + 1) = new
  <2>1. p + 1 \in PlacesIn(c)
    BY <1>0, <1>3 DEF PlacesIn
  <2> DEFINE d == SubSeq(c, 1, p)
  <2>2. d \in Seq(Symbol) /\ Len(d) = p
    <3>1. p \in 0..Len(c) /\ 1 \in Int /\ p \in Int
      BY <1>0, <1>3
    <3>2. \A i \in 1..p : c[i] \in Symbol
      BY <1>3
    <3> QED BY <1>3, <3>1, <3>2, SplitAt, SubSeqProperties
  <2>3. (p + 1) - 1 = p
    BY <1>0
  <2> HIDE DEF d
  <2>4. Filter(d, Symbol) = d
    BY <2>2, FilterAll
  <2>5. Before(c, p + 1) = d
    BY <2>3, <2>4 DEF Before, d
  <2> QED BY <1>3, <2>1, <2>2, <2>5 DEF PlacedAt
<1>5. ASSUME NEW i \in (p + 1)..n
      PROVE  c[i + 1] = b[i] /\ PlacedAt(c, i + 1) = PlacedAt(b, i)
  <2>0. /\ i \in Nat /\ i + 1 \in (p + 2)..(n + 1) /\ (i + 1) - 1 = i
        /\ i \in (p + 1)..(n + 1) /\ i - 1 \in 0..n
    BY <1>0
  <2>1. c[i + 1] = b[i]
    BY <1>3, <2>0
  <2> DEFINE d == SubSeq(b, 1, i - 1)
             e == SubSeq(c, 1, i)
  <2>2. e = InsertAt(d, p + 1, x)
    BY <1>2, <2>0
  <2>3. d \in Seq(T) /\ Len(d) = i - 1
    BY <2>0, SplitAt DEF n
  <2>4. p \in 0..Len(d)
    BY <1>0, <2>0, <2>3
  <2>5. Before(c, i + 1) = Filter(e, Symbol) /\ Before(b, i) = Filter(d, Symbol)
    BY <2>0 DEF Before
  <2> HIDE DEF d, e
  <2>6. IsInserted(T, d, p, x, e)
    BY <2>2, <2>3, <2>4, InsertedAt
  <2>7. Filter(e, Symbol) = Filter(d, Symbol)
    BY <2>6 DEF IsInserted
  <2> QED BY <2>1, <2>5, <2>7 DEF PlacedAt
<1>6. Placed(c) = {PlacedAt(c, i) : i \in PlacesIn(c)}
  BY <1>3, PlacedIs
<1>7. Placed(b) = {PlacedAt(b, i) : i \in PlacesIn(b)}
  BY PlacedIs
<1>8. ASSUME NEW i \in PlacesIn(c) PROVE PlacedAt(c, i) \in Placed(b) \cup {new}
  <2>1. i \in 1..(n + 1) /\ c[i] \notin Symbol
    BY <1>3 DEF PlacesIn
  <2>2. i > p
    BY <1>0, <1>3, <2>1
  <2>3. CASE i = p + 1
    BY <1>4, <2>3
  <2>4. CASE i # p + 1
    <3> DEFINE k == i - 1
    <3>1. k \in (p + 1)..n /\ k + 1 = i /\ k \in 1..n
      BY <1>0, <2>1, <2>2, <2>4
    <3> HIDE DEF k
    <3>2. c[k + 1] = b[k] /\ PlacedAt(c, k + 1) = PlacedAt(b, k)
      BY <1>5, <3>1
    <3>3. k \in PlacesIn(b)
      BY <2>1, <3>1, <3>2 DEF PlacesIn, n
    <3> QED BY <1>7, <3>1, <3>2, <3>3
  <2> QED BY <2>3, <2>4
<1>9. ASSUME NEW i \in PlacesIn(b) PROVE PlacedAt(b, i) \in Placed(c)
  <2>1. i \in 1..n /\ b[i] \notin Symbol
    BY DEF PlacesIn, n
  <2>2. i \in (p + 1)..n
    BY <1>0, <2>1
  <2>3. i + 1 \in PlacesIn(c)
    BY <1>0, <1>3, <1>5, <2>1, <2>2 DEF PlacesIn
  <2> QED BY <1>5, <1>6, <2>2, <2>3
<1>10. new \in Placed(c)
  BY <1>4, <1>6
<1> HIDE DEF new
<1>11. Placed(c) = Placed(b) \cup {new}
  BY <1>6, <1>7, <1>8, <1>9, <1>10
<1> QED BY <1>11 DEF c, new

\* Insertions into a body, from the last place to the first.
Spots(T, n) == [pos : 0..n, content : T \ Symbol]

IsOrder(T, body, o) ==
    /\ Telling(T) /\ body \in Seq(Symbol) /\ o \in Seq(Spots(T, Len(body)))
    /\ \A i, j \in 1..Len(o) : i < j => o[i].pos >= o[j].pos

\* After the first k of them: they stand in their places, and the body is whole
\* and as it was up to the place of each.
InsertedOK(T, body, o, k, c) ==
    /\ c \in Seq(T) /\ Len(c) = Len(body) + k /\ Filter(c, Symbol) = body
    /\ \A p \in 0..Len(body) : (\A j \in 1..k : p <= o[j].pos) =>
         \A i \in 1..p : c[i] = body[i]
    /\ Placed(c) = {o[j] : j \in 1..k}

LEMMA OrderTypes ==
    ASSUME NEW T, NEW body, NEW o, IsOrder(T, body, o)
    PROVE  /\ Telling(T) /\ body \in Seq(Symbol) /\ body \in Seq(T)
           /\ Len(body) \in Nat /\ Len(o) \in Nat
           /\ \A i \in 1..Len(body) : body[i] \in Symbol
           /\ \A k \in 1..Len(o) :
                /\ o[k].pos \in 0..Len(body) /\ o[k].content \in T \ Symbol
                /\ o[k] = [pos |-> o[k].pos, content |-> o[k].content]
<1>1. /\ Telling(T) /\ body \in Seq(Symbol) /\ o \in Seq(Spots(T, Len(body)))
      /\ Symbol \subseteq T
  BY DEF IsOrder, Telling
<1>2. body \in Seq(T)
  BY <1>1
<1>3. \A k \in 1..Len(o) : o[k] \in Spots(T, Len(body))
  BY <1>1
<1>4. \A x \in Spots(T, Len(body)) :
        /\ x.pos \in 0..Len(body) /\ x.content \in T \ Symbol
        /\ x = [pos |-> x.pos, content |-> x.content]
  BY DEF Spots
<1>5. Len(body) \in Nat /\ Len(o) \in Nat /\ \A i \in 1..Len(body) : body[i] \in Symbol
  BY <1>1
<1> QED BY <1>1, <1>2, <1>3, <1>4, <1>5

LEMMA InsertionsBegin ==
    ASSUME NEW T, NEW body, NEW o, IsOrder(T, body, o)
    PROVE  InsertedOK(T, body, o, 0, body)
<1>1. /\ Telling(T) /\ body \in Seq(Symbol) /\ body \in Seq(T) /\ Len(body) \in Nat
      /\ \A i \in 1..Len(body) : body[i] \in Symbol
  BY OrderTypes
<1>2. Filter(body, Symbol) = body
  BY <1>1, FilterAll
<1>3. PlacesIn(body) = {}
  BY <1>1 DEF PlacesIn
<1>4. Placed(body) = {PlacedAt(body, i) : i \in PlacesIn(body)}
  BY <1>1, PlacedIs
<1>5. Placed(body) = {}
  BY <1>3, <1>4
<1> QED BY <1>1, <1>2, <1>5 DEF InsertedOK

LEMMA InsertionsGoOn ==
    ASSUME NEW T, NEW body, NEW o, NEW b, NEW k \in 1..Len(o),
           IsOrder(T, body, o), InsertedOK(T, body, o, k - 1, b)
    PROVE  InsertedOK(T, body, o, k, InsertAt(b, o[k].pos + 1, o[k].content))
<1> DEFINE n == Len(body)
           p == o[k].pos
           x == o[k].content
           c == InsertAt(b, p + 1, x)
<1>1. /\ Telling(T) /\ n \in Nat /\ k \in Nat \ {0} /\ p \in 0..n /\ x \in T \ Symbol
      /\ o[k] = [pos |-> p, content |-> x]
      /\ \A i \in 1..n : body[i] \in Symbol
  BY OrderTypes
<1>2. /\ b \in Seq(T) /\ Len(b) = n + (k - 1) /\ Filter(b, Symbol) = body
      /\ \A q \in 0..n : (\A j \in 1..(k - 1) : q <= o[j].pos) =>
           \A i \in 1..q : b[i] = body[i]
      /\ Placed(b) = {o[j] : j \in 1..(k - 1)}
  BY DEF InsertedOK
<1>3. \A j \in 1..(k - 1) : p <= o[j].pos
  <2>1. ASSUME NEW j \in 1..(k - 1) PROVE p <= o[j].pos
    <3>1. j \in 1..Len(o) /\ j < k /\ Len(o) \in Nat
      BY <1>1, OrderTypes
    <3>2. o[j].pos >= p /\ o[j].pos \in 0..n
      BY <3>1, OrderTypes DEF IsOrder
    <3> QED BY <1>1, <3>2
  <2> QED BY <2>1
<1> HIDE DEF c, n, p, x
<1>4. p \in 0..Len(b)
  BY <1>1, <1>2
<1>5. \A i \in 1..p : b[i] = body[i]
  BY <1>1, <1>2, <1>3
<1>6. \A i \in 1..p : b[i] \in Symbol
  BY <1>1, <1>5
<1>7. IsInserted(T, b, p, x, c)
  BY <1>1, <1>2, <1>4, InsertedAt DEF c
<1>8. c \in Seq(T) /\ Len(c) = n + k /\ Filter(c, Symbol) = body
  <2>1. (n + (k - 1)) + 1 = n + k
    BY <1>1
  <2> QED BY <1>1, <1>2, <1>7, <2>1 DEF IsInserted
<1>9. Placed(c) = Placed(b) \cup {o[k]}
  BY <1>1, <1>2, <1>4, <1>6, PlacedInserted DEF c
<1>10. Placed(c) = {o[j] : j \in 1..k}
  <2>1. 1..k = 1..(k - 1) \cup {k}
    BY <1>1
  <2> QED BY <1>2, <1>9, <2>1
<1>11. ASSUME NEW q \in 0..n, \A j \in 1..k : q <= o[j].pos, NEW i \in 1..q
       PROVE  c[i] = body[i]
  <2>1. q <= p
    BY <1>1, <1>11 DEF p
  <2>2. i \in 1..p
    BY <1>1, <2>1
  <2> QED BY <1>5, <1>7, <2>2 DEF IsInserted
<1> QED BY <1>8, <1>10, <1>11 DEF InsertedOK, n, c, p, x

-----------------------------------------------------------------------------
(* The ads.                                                                 *)

\* The insertions one after the other (the loop of processBodyWithGAM).
LEMMA InsertLoop ==
    ASSUME NEW T, NEW body, NEW o, IsOrder(T, body, o)
    PROVE  InsertedOK(T, body, o, Len(o), ForEach(InsertOne, body, o))
<1> DEFINE n == Len(o)
           OK(k, b) == InsertedOK(T, body, o, k, b)
           Op(b, x) == InsertOne(b, x)
           D(f) == [i \in 0..n |-> IF i = 0 THEN body ELSE Op(f[i - 1], o[i])]
           after == CHOOSE f : f = D(f)
           V == Seq(T)
           Step(i, v) == IF OK(i - 1, v) THEN Op(v, o[i]) ELSE body
           step == [q \in (1..n) \X V |-> Step(q[1], q[2])]
<1>0. n \in Nat /\ body \in V /\ OK(0, body)
  BY OrderTypes, InsertionsBegin
<1>1. ASSUME NEW i \in 1..n, NEW b, OK(i - 1, b) PROVE OK(i, Op(b, o[i]))
  BY <1>1, InsertionsGoOn DEF InsertOne
<1>2. ForEach(InsertOne, body, o) = after[n]
  BY DEF ForEach
<1>3. ASSUME NEW i \in 1..n, NEW v \in V PROVE Step(i, v) \in V
  <2>1. CASE OK(i - 1, v)
    <3>1. OK(i, Op(v, o[i]))
      BY <1>1, <2>1
    <3> QED BY <2>1, <3>1 DEF InsertedOK
  <2>2. CASE ~OK(i - 1, v)
    BY <1>0, <2>2
  <2> QED BY <2>1, <2>2
<1> HIDE DEF Op, OK, n, V
<1>4. step \in [(1..n) \X V -> V]
  <2> HIDE DEF Step
  <2> QED BY <1>3
<1>5. PICK f \in [0..n -> V] :
        f[0] = body /\ \A i \in 1..n : f[i] = step[<<i, f[i - 1]>>]
  <2> HIDE DEF step
  <2>1. IsChain(n, V, body, step)
    BY <1>0, <1>4 DEF IsChain
  <2> QED BY <2>1, ChainExists DEF ChainEnds
<1>6. ASSUME NEW i \in 1..n, OK(i - 1, f[i - 1])
      PROVE  f[i] = Op(f[i - 1], o[i]) /\ OK(i, f[i])
  <2>1. f[i - 1] \in V
    BY <1>0, <1>5
  <2>2. f[i] = Op(f[i - 1], o[i])
    BY <1>5, <1>6, <2>1
  <2> QED BY <1>1, <1>6, <2>2
<1>7. \A i \in 0..n : OK(i, f[i])
  <2> DEFINE G == {i \in 0..n : OK(i, f[i])}
  <2>1. 0 \in G
    BY <1>0, <1>5
  <2>2. ASSUME NEW i \in 1..n, i - 1 \in G PROVE i \in G
    <3>1. i \in 0..n
      BY <1>0
    <3> QED BY <1>6, <2>2, <3>1
  <2> HIDE DEF G
  <2>3. \A i \in 0..n : i \in G
    BY <1>0, <2>1, <2>2, UpwardInduction
  <2> QED BY <2>3 DEF G
<1>8. ASSUME NEW i \in 1..n PROVE f[i] = Op(f[i - 1], o[i])
  <2>1. i - 1 \in 0..n
    BY <1>0
  <2> QED BY <1>6, <1>7, <2>1
<1>9. f = D(f)
  BY <1>0, <1>5, <1>8
<1>10. after = D(after)
  <2> HIDE DEF D
  <2> QED BY <1>9
<1> HIDE DEF after
<1>11. after[0] = body /\ \A i \in 1..n : after[i] = Op(after[i - 1], o[i])
  BY <1>0, <1>10
<1>12. OK(n, after[n])
  <2> DEFINE G == {i \in 0..n : OK(i, after[i])}
  <2>1. 0 \in G
    BY <1>0, <1>11
  <2>2. ASSUME NEW i \in 1..n, i - 1 \in G PROVE i \in G
    <3>1. i \in 0..n
      BY <1>0
    <3> QED BY <1>1, <1>11, <2>2, <3>1
  <2> HIDE DEF G
  <2>3. n \in G
    BY <1>0, <2>1, <2>2, UpwardInduction
  <2> QED BY <2>3 DEF G
<1> QED BY <1>2, <1>12 DEF OK, n

\* The ads that a configuration leaves are finitely many, each with a marker.
RootOK(root) ==
    /\ DOMAIN root = {"inject_gpt", "ads"} /\ root = [f \in DOMAIN root |-> root[f]]
    /\ IsFiniteSet(DOMAIN root.ads)
    /\ \A p \in DOMAIN root.ads : Len(root.ads[p].marker) \in Nat

LEMMA ConfigLineOK ==
    ASSUME NEW root, RootOK(root), NEW line, line.key = "ad" => line.marker \in Seq(STRING)
    PROVE  RootOK(ConfigLine(root, line))
<1> DEFINE r == ConfigLine(root, line)
<1>1. CASE line.key = "inject_gpt"
  <2>1. r = [root EXCEPT !.inject_gpt = line.value]
    BY <1>1 DEF ConfigLine
  <2> HIDE DEF r
  <2>2. r.ads = root.ads /\ DOMAIN r = {"inject_gpt", "ads"} /\ r = [f \in DOMAIN r |-> r[f]]
    BY <2>1 DEF RootOK
  <2>3. RootOK(r)
    BY <2>2 DEF RootOK
  <2> QED BY <2>3 DEF r
<1>2. CASE line.key = "ad"
  <2> DEFINE P == DOMAIN root.ads \cup {line.position}
             ads == [p \in P |->
                       IF p = line.position
                       THEN [marker |-> line.marker,
                             insert_before |-> line.insert_before]
                       ELSE root.ads[p]]
  <2>1. r = [root EXCEPT !.ads = ads]
    BY <1>2 DEF ConfigLine
  <2>2. \A p \in P : Len(ads[p].marker) \in Nat
    BY <1>2 DEF RootOK
  <2>3. DOMAIN ads = P /\ IsFiniteSet(P)
    BY FS_AddElement DEF RootOK
  <2> HIDE DEF r, ads, P
  <2>4. r.ads = ads /\ DOMAIN r = {"inject_gpt", "ads"} /\ r = [f \in DOMAIN r |-> r[f]]
    BY <2>1 DEF RootOK
  <2>5. RootOK(r)
    BY <2>2, <2>3, <2>4 DEF RootOK
  <2> QED BY <2>5 DEF r
<1>3. CASE line.key \notin {"inject_gpt", "ad"}
  BY <1>3 DEF ConfigLine
<1> QED BY <1>1, <1>2, <1>3

LEMMA AdsConfigured ==
    ASSUME NEW lines \in AdConfigs
    PROVE  RootOK(onConfigureAds(lines))
<1> DEFINE n == Len(lines)
           Op(r, x) == ConfigLine(r, x)
           start == [inject_gpt |-> TRUE,
                     ads |-> IF lines = <<>> THEN DefaultAds ELSE <<>>]
           D(f) == [i \in 0..n |-> IF i = 0 THEN start ELSE Op(f[i - 1], lines[i])]
           after == CHOOSE f : f = D(f)
<1>0. /\ n \in Nat
      /\ \A i \in 1..n : lines[i].key = "ad" => lines[i].marker \in Seq(STRING)
  <2>1. lines \in Seq(Range(lines))
    BY AdConfigsAssumption
  <2>2. n \in Nat /\ DOMAIN lines = 1..n
    BY <2>1
  <2> QED BY <2>2, AdConfigsAssumption
<1>1. onConfigureAds(lines) = after[n]
  BY DEF onConfigureAds, ForEach
<1>2. RootOK(start)
  <2> DEFINE ads == IF lines = <<>> THEN DefaultAds ELSE <<>>
  <2>1. DOMAIN DefaultAds = {"header", "content", "sidebar"}
    BY DEF DefaultAds
  <2>2. IsFiniteSet({"header", "content", "sidebar"}) /\ IsFiniteSet({})
    <3>1. IsFiniteSet({}) /\ IsFiniteSet({"header"})
      BY FS_EmptySet, FS_Singleton
    <3>2. IsFiniteSet({"header"} \cup {"content"})
      BY <3>1, FS_AddElement
    <3>3. IsFiniteSet(({"header"} \cup {"content"}) \cup {"sidebar"})
      BY <3>2, FS_AddElement
    <3>4. ({"header"} \cup {"content"}) \cup {"sidebar"} = {"header", "content", "sidebar"}
      OBVIOUS
    <3> QED BY <3>1, <3>3, <3>4
  <2>3. \A p \in {"header", "content", "sidebar"} : Len(DefaultAds[p].marker) \in Nat
    BY DEF DefaultAds
  <2>4. DOMAIN <<>> = {}
    OBVIOUS
  <2>5. IsFiniteSet(DOMAIN ads) /\ \A p \in DOMAIN ads : Len(ads[p].marker) \in Nat
    BY <2>1, <2>2, <2>3, <2>4
  <2> HIDE DEF ads
  <2> QED BY <2>5 DEF RootOK, ads
<1>3. ASSUME NEW i \in 1..n, NEW r, RootOK(r) PROVE RootOK(Op(r, lines[i]))
  BY <1>0, <1>3, ConfigLineOK
<1> HIDE DEF Op, n, start
<1> DEFINE Up(f, k) == /\ f = [i \in 0..n |-> f[i]] /\ f[0] = start
                       /\ \A i \in 1..k : f[i] = Op(f[i - 1], lines[i])
           G == {k \in 0..n : \E f : Up(f, k)}
<1>4. 0 \in G
  <2> DEFINE f == [i \in 0..n |-> start]
  <2>1. Up(f, 0)
    BY <1>0
  <2> HIDE DEF Up, f
  <2> QED BY <1>0, <2>1
<1>5. ASSUME NEW k \in 1..n, k - 1 \in G PROVE k \in G
  <2>1. PICK f : Up(f, k - 1)
    BY <1>5
  <2> DEFINE g == [j \in 0..n |-> IF j = k THEN Op(f[k - 1], lines[k]) ELSE f[j]]
  <2>2. g = [j \in 0..n |-> g[j]] /\ g[0] = start
    BY <1>0, <2>1
  <2>3. ASSUME NEW i \in 1..k PROVE g[i] = Op(g[i - 1], lines[i])
    <3>1. i \in 0..n /\ i - 1 \in 0..n /\ i - 1 # k
      BY <1>0
    <3>2. g[i - 1] = f[i - 1]
      BY <3>1
    <3>3. CASE i = k
      BY <3>1, <3>2, <3>3
    <3>4. CASE i # k
      <4>1. i \in 1..(k - 1) /\ g[i] = f[i]
        BY <3>1, <3>4
      <4> QED BY <2>1, <3>2, <4>1
    <3> QED BY <3>3, <3>4
  <2> HIDE DEF g
  <2>4. Up(g, k)
    BY <2>2, <2>3
  <2>5. k \in 0..n
    BY <1>0
  <2> HIDE DEF Up
  <2> QED BY <2>4, <2>5
<1>6. PICK f : Up(f, n)
  <2> HIDE DEF Up
  <2>1. \A i \in 0..n : i \in G
    <3> HIDE DEF G
    <3> QED BY <1>0, <1>4, <1>5, UpwardInduction
  <2>2. n \in 0..n
    BY <1>0
  <2> QED BY <2>1, <2>2
<1>7. f = D(f)
  BY <1>0, <1>6
<1>8. after = D(after)
  <2> HIDE DEF D
  <2> QED BY <1>7
<1> HIDE DEF after
<1>9. after[0] = start /\ \A i \in 1..n : after[i] = Op(after[i - 1], lines[i])
  BY <1>0, <1>8
<1>10. RootOK(after[n])
  <2> DEFINE H == {i \in 0..n : RootOK(after[i])}
  <2>1. 0 \in H
    BY <1>0, <1>2, <1>9
  <2>2. ASSUME NEW i \in 1..n, i - 1 \in H PROVE i \in H
    <3>1. i \in 0..n
      BY <1>0
    <3> QED BY <1>3, <1>9, <2>2, <3>1
  <2> HIDE DEF H
  <2>3. \A i \in 0..n : i \in H
    <3> HIDE DEF G
    <3> QED BY <1>0, <2>1, <2>2, UpwardInduction
  <2>4. n \in 0..n
    BY <1>0
  <2> QED BY <2>3, <2>4 DEF H
<1> QED BY <1>1, <1>10

\* What ad_insertion and the others put into a body, next to what is the origin's.
AdMarks(root) == {<<"ad", p>> : p \in DOMAIN root.ads} \cup {<<"gpt", "lib">>}

LEMMA AdMarksTell ==
    ASSUME NEW root
    PROVE  Telling(Symbol \cup AdMarks(root)) /\ AdMarks(root) \cap Symbol = {}
<1>1. \A x \in Symbol : IsOrigin(x)
  BY DEF Symbol, IsOrigin
<1>2. \A x \in AdMarks(root) : ~IsOrigin(x)
  BY DEF AdMarks, IsOrigin
<1> QED BY <1>1, <1>2 DEF Telling

\* Every place is one of the body.
LEMMA FoundPlace ==
    ASSUME NEW body, Len(body) \in Nat, NEW text, Len(text) \in Nat,
           Found(body, text) # {}
    PROVE  LET p == Min(Found(body, text)) IN
           p \in 0..Len(body) /\ p + Len(text) \in 0..Len(body)
<1> DEFINE S == Found(body, text)
<1>1. S \in SUBSET (0..(Len(body) - Len(text))) /\ S \in SUBSET Nat
  BY DEF Found
<1> HIDE DEF S
<1>2. Min(S) \in S
  BY <1>1, MinIn DEF S
<1>3. Min(S) \in 0..(Len(body) - Len(text))
  BY <1>1, <1>2
<1>4. ASSUME NEW a \in Nat, NEW b \in Nat, NEW m \in 0..(a - b)
      PROVE  m \in 0..a /\ m + b \in 0..a
  OBVIOUS
<1> QED BY <1>3, <1>4 DEF S

LEMMA InsertionSpots ==
    ASSUME NEW body, Len(body) \in Nat, NEW root, RootOK(root)
    PROVE  LET I == Insertions(body, root) IN
           /\ IsFiniteSet(I) /\ Cardinality(I) \in Nat
           /\ I \subseteq Spots(Symbol \cup AdMarks(root), Len(body))
<1> DEFINE n == Len(body)
           T == Symbol \cup AdMarks(root)
           S == Spots(T, n)
           ads == root.ads
           P == {q \in DOMAIN ads : Found(body, ads[q].marker) # {}}
           Spot(p) == [pos |-> Min(Found(body, ads[p].marker))
                         + (IF ads[p].insert_before THEN 0 ELSE Len(ads[p].marker)),
                       content |-> <<"ad", p>>]
           A == {Spot(p) : p \in P}
           G == GptInsertions(body)
<1>1. \A x \in AdMarks(root) : x \in T \ Symbol
  BY AdMarksTell
<1>2. ASSUME NEW p \in P PROVE Spot(p) \in S
  <2> DEFINE m == Min(Found(body, ads[p].marker))
             l == Len(ads[p].marker)
  <2>1. l \in Nat
    BY DEF RootOK
  <2>2. m \in 0..n /\ m + l \in 0..n
    BY <2>1, FoundPlace
  <2>3. <<"ad", p>> \in T \ Symbol
    <3>1. <<"ad", p>> \in AdMarks(root)
      BY DEF AdMarks
    <3> QED BY <1>1, <3>1
  <2> HIDE DEF m, l, T
  <2>4. m + (IF ads[p].insert_before THEN 0 ELSE l) \in 0..n
    BY <2>1, <2>2
  <2> QED BY <2>3, <2>4 DEF Spots, m, l
<1>3. G \subseteq S /\ IsFiniteSet(G)
  <2> DEFINE heads == Found(body, <<"<he", "ad>">>)
             tops == Found(body, <<"<bo", "dy>">>)
             g == <<"gpt", "lib">>
  <2>1. g \in T \ Symbol
    BY <1>1 DEF AdMarks
  <2>2. heads # {} => Min(heads) + 2 \in 0..n
    <3>1. PICK text : text = <<"<he", "ad>">>
      OBVIOUS
    <3>2. Len(text) = 2
      BY <3>1
    <3> QED BY <3>1, <3>2, FoundPlace
  <2>3. tops # {} => Min(tops) \in 0..n
    <3>1. PICK text : text = <<"<bo", "dy>">>
      OBVIOUS
    <3>2. Len(text) = 2
      BY <3>1
    <3> QED BY <3>1, <3>2, FoundPlace
  <2>4. G = IF heads # {} THEN {[pos |-> Min(heads) + 2, content |-> g]}
            ELSE IF tops # {} THEN {[pos |-> Min(tops), content |-> g]} ELSE {}
    BY DEF GptInsertions
  <2> HIDE DEF heads, tops, g, G, T
  <2>5. ASSUME NEW p \in 0..n PROVE [pos |-> p, content |-> g] \in S
    BY <2>1 DEF Spots
  <2> HIDE DEF S
  <2> QED BY <2>2, <2>3, <2>4, <2>5, FS_EmptySet, FS_Singleton
<1>4. A \subseteq S
  <2> HIDE DEF Spot, S, P
  <2> QED BY <1>2
<1>5. IsFiniteSet(A)
  <2>1. IsFiniteSet(P)
    BY FS_Subset DEF RootOK
  <2> HIDE DEF Spot, P
  <2>2. [p \in P |-> Spot(p)] \in Surjection(P, A)
    BY DEF Surjection
  <2> QED BY <2>1, <2>2, FS_Surjection
<1>6. \/ Insertions(body, root) = A \cup G
      \/ Insertions(body, root) = A \cup {}
  BY DEF Insertions, AdInsertions
<1> HIDE DEF A, G, S
<1>7. Insertions(body, root) \subseteq S
  BY <1>3, <1>4, <1>6
<1>8. IsFiniteSet(A \cup G) /\ IsFiniteSet(A \cup {})
  BY <1>3, <1>5, FS_Union, FS_EmptySet
<1>9. IsFiniteSet(Insertions(body, root))
  BY <1>6, <1>8
<1> QED BY <1>7, <1>9, FS_CardinalityType DEF S

\* The body is whole, and what was expected stands in it, once, and nothing else.
Complete(body, expected, out) ==
    /\ out \in Seq(Range(out))
    /\ WithoutInsertions(out) = body /\ Placed(out) = expected
    /\ Len(out) = Len(body) + Cardinality(expected)

LEMMA OrderIsComplete ==
    ASSUME NEW T, NEW body, NEW o, NEW out, IsOrder(T, body, o),
           InsertedOK(T, body, o, Len(o), out)
    PROVE  /\ WithoutInsertions(out) = body /\ Len(out) = Len(body) + Len(o)
           /\ Placed(out) = {o[j] : j \in 1..Len(o)} /\ out \in Seq(Range(out))
<1>1. Telling(T)
  BY OrderTypes
<1>2. /\ out \in Seq(T) /\ Len(out) = Len(body) + Len(o) /\ Filter(out, Symbol) = body
      /\ Placed(out) = {o[j] : j \in 1..Len(o)}
  BY DEF InsertedOK
<1>3. WithoutInsertions(out) = Filter(out, Symbol)
  BY <1>1, <1>2, WithoutIs
<1>4. out \in Seq(Range(out))
  BY <1>2, RangeType
<1> QED BY <1>2, <1>3, <1>4

LEMMA AdsInPlace ==
    ASSUME NEW body \in Seq(Symbol), NEW root, RootOK(root),
           NEW new \in processBodyWithGAM(body, root)
    PROVE  Complete(body, Insertions(body, root), new)
<1> DEFINE I == Insertions(body, root)
           T == Symbol \cup AdMarks(root)
           n == Cardinality(I)
<1>1. Len(body) \in Nat
  OBVIOUS
<1>2. n \in Nat /\ I \subseteq Spots(T, Len(body))
  BY <1>1, InsertionSpots
<1>3. Telling(T)
  BY AdMarksTell
<1>4. PICK o \in SortedInsertions(I) : new = ForEach(InsertOne, body, o)
  BY DEF processBodyWithGAM
<1> HIDE DEF I, T
<1>5. /\ o \in [1..n -> I] /\ DOMAIN o = 1..n /\ Range(o) = I
      /\ \A i, j \in DOMAIN o : i < j => o[i].pos >= o[j].pos
  BY DEF SortedInsertions
<1> HIDE DEF n
<1>6. Len(o) = n /\ o \in Seq(I)
  BY <1>2, <1>5
<1>7. o \in Seq(Spots(T, Len(body)))
  BY <1>2, <1>6
<1>8. IsOrder(T, body, o)
  BY <1>3, <1>5, <1>6, <1>7 DEF IsOrder
<1>9. InsertedOK(T, body, o, Len(o), new)
  BY <1>4, <1>8, InsertLoop
<1>10. /\ WithoutInsertions(new) = body /\ Len(new) = Len(body) + n
       /\ Placed(new) = {o[j] : j \in 1..n} /\ new \in Seq(Range(new))
  BY <1>6, <1>8, <1>9, OrderIsComplete
<1>11. {o[j] : j \in 1..n} = I
  BY <1>5 DEF Range
<1>12. Complete(body, I, new)
  BY <1>10, <1>11 DEF Complete, n
<1> QED BY <1>12 DEF I

-----------------------------------------------------------------------------
(* The tokens.                                                              *)

UrlHere(body, i) == <<i, UrlEnd(body, i)>>

LEMMA UrlEndIn ==
    ASSUME NEW body, Len(body) \in Nat, NEW i \in 1..Len(body)
    PROVE  UrlEnd(body, i) \in i..Len(body)
<1> DEFINE stops == {j \in (i + 1)..Len(body) : body[j] = UrlStop}
<1>1. UrlEnd(body, i) = IF stops = {} THEN Len(body) ELSE Min(stops) - 1
  BY DEF UrlEnd
<1>2. stops \in SUBSET Nat /\ stops \in SUBSET ((i + 1)..Len(body))
  OBVIOUS
<1> HIDE DEF stops
<1>3. stops # {} => Min(stops) \in (i + 1)..Len(body)
  BY <1>2, MinIn
<1> QED BY <1>1, <1>3

\* One turn of the loop that looks for URLs, at place i.
UrlsAt(body, f, i) ==
    IF i > Len(body) THEN <<>>
    ELSE IF UrlAt(body, i) THEN <<UrlHere(body, i)>> \o f[UrlEnd(body, i) + 1]
    ELSE f[i + 1]

LEMMA UrlsLoop ==
    ASSUME NEW body, Len(body) \in Nat
    PROVE  \E f : /\ Urls(body) = f[1]
                  /\ \A i \in 1..(Len(body) + 1) : f[i] = UrlsAt(body, f, i)
<1> DEFINE n == Len(body) + 1
           D(f) == [i \in 1..n |-> UrlsAt(body, f, i)]
           from == CHOOSE f : f = D(f)
           V == Seq(Nat \X Nat)
           stop == {n}
           base == [i \in 1..n |-> <<>>]
           next == [i \in 1..n |-> IF UrlAt(body, i) THEN UrlEnd(body, i) + 1 ELSE i + 1]
           one(i) == <<UrlHere(body, i)>>
           Step(i, v) == IF UrlAt(body, i) /\ i # n THEN one(i) \o v ELSE v
           step == [q \in (1..n) \X V |-> Step(q[1], q[2])]
<1>0. n \in Nat /\ Len(body) \in Nat
  OBVIOUS
<1>1. \A i \in 1..n : i \notin stop => i \in 1..Len(body)
  BY <1>0
<1>2. \A i \in 1..n : i \notin stop => next[i] \in (i + 1)..n
  BY <1>0, <1>1, UrlEndIn
<1>3. base \in [1..n -> V]
  OBVIOUS
<1>4. ASSUME NEW i \in 1..n, i # n PROVE one(i) \in V
  <2>1. i \in Nat /\ UrlEnd(body, i) \in Nat
    BY <1>0, <1>1, <1>4, UrlEndIn
  <2>2. UrlHere(body, i) \in Nat \X Nat
    BY <2>1 DEF UrlHere
  <2> QED BY <2>2
<1>5. step \in [(1..n) \X V -> V]
  <2>1. ASSUME NEW i \in 1..n, NEW v \in V PROVE Step(i, v) \in V
    <3> HIDE DEF one, n
    <3> QED BY <1>4
  <2> HIDE DEF Step, n, V
  <2> QED BY <2>1
<1>6. PICK f \in [1..n -> V] : \A i \in 1..n :
        f[i] = IF i \in stop THEN base[i] ELSE step[<<i, f[next[i]]>>]
  <2> HIDE DEF n, V, stop, base, next, step
  <2>1. IsLoop(n, V, stop, base, next, step)
    BY <1>0, <1>2, <1>3, <1>5 DEF IsLoop
  <2>2. LoopEnds(n, V, stop, base, next, step)
    BY <2>1, RecursionExists
  <2> QED BY <2>2 DEF LoopEnds, LoopValue
<1>7. ASSUME NEW i \in 1..n PROVE f[i] = UrlsAt(body, f, i)
  <2>1. CASE i = n
    <3>1. base[i] = <<>> /\ i \in stop /\ i > Len(body)
      BY <1>0, <2>1
    <3> HIDE DEF base, stop, n
    <3>2. f[i] = base[i]
      BY <1>6, <3>1
    <3> QED BY <3>1, <3>2, Zenon DEF UrlsAt
  <2>2. CASE i # n
    <3>1. next[i] \in 1..n /\ f[next[i]] \in V
      BY <1>2, <2>2
    <3>2. step[<<i, f[next[i]]>>] = Step(i, f[next[i]])
      <4> HIDE DEF Step, V, next
      <4> QED BY <3>1
    <3>3. f[i] = IF UrlAt(body, i) THEN one(i) \o f[next[i]] ELSE f[next[i]]
      BY <1>6, <2>2, <3>2
    <3>4. next[i] = IF UrlAt(body, i) THEN UrlEnd(body, i) + 1 ELSE i + 1
      OBVIOUS
    <3>5. ~(i > Len(body))
      BY <1>0, <2>2
    <3> HIDE DEF next
    <3> QED BY <3>3, <3>4, <3>5 DEF UrlsAt
  <2> QED BY <2>1, <2>2
<1>8. f = D(f)
  <2> HIDE DEF n, V
  <2> QED BY <1>7
<1>9. from = D(from)
  <2> HIDE DEF D
  <2> QED BY <1>8
<1>10. Urls(body) = from[1]
  BY DEF Urls, UrlsAt, UrlHere
<1>11. \A i \in 1..n : from[i] = UrlsAt(body, from, i)
  <2> HIDE DEF from
  <2> QED BY <1>9
<1> HIDE DEF from
<1> QED BY <1>10, <1>11

\* URLs from place i on: each ends where it began or later, and before the next.
UrlsOK(body, i, u) ==
    /\ u \in Seq(Nat \X Nat)
    /\ \A k \in 1..Len(u) : i <= u[k][1] /\ u[k][1] <= u[k][2] /\ u[k][2] <= Len(body)
    /\ \A j, k \in 1..Len(u) : j < k => u[j][2] < u[k][1]

LEMMA UrlsInOrder ==
    ASSUME NEW body, Len(body) \in Nat
    PROVE  UrlsOK(body, 1, Urls(body))
<1> DEFINE n == Len(body) + 1
<1>0. n \in Nat \ {0} /\ Len(body) \in Nat
  OBVIOUS
<1>1. PICK f : Urls(body) = f[1] /\ \A i \in 1..n : f[i] = UrlsAt(body, f, i)
  BY UrlsLoop
<1> DEFINE G == {i \in 1..n : UrlsOK(body, i, f[i])}
<1>2. ASSUME NEW i \in 1..n, \A j \in (i + 1)..n : j \in G PROVE i \in G
  <2>1. CASE i = n
    <3>1. i > Len(body)
      BY <1>0, <2>1
    <3>2. f[i] = <<>>
      BY <1>1, <3>1 DEF UrlsAt
    <3>3. ASSUME NEW w, w = <<>> PROVE UrlsOK(body, i, w)
      BY <3>3 DEF UrlsOK
    <3> QED BY <3>2, <3>3
  <2>2. CASE i # n
    <3>0. i \in 1..Len(body) /\ ~(i > Len(body)) /\ i \in Nat
      BY <1>0, <2>2
    <3>1. CASE ~UrlAt(body, i)
      <4>1. f[i] = f[i + 1] /\ i + 1 \in (i + 1)..n
        <5>1. f[i] = f[i + 1]
          BY <1>1, <3>0, <3>1, Zenon DEF UrlsAt
        <5> QED BY <1>0, <3>0, <5>1
      <4>2. UrlsOK(body, i + 1, f[i + 1])
        BY <1>2, <4>1
      <4> DEFINE u == f[i]
      <4>3. /\ u \in Seq(Nat \X Nat)
            /\ \A k \in 1..Len(u) :
                 i + 1 <= u[k][1] /\ u[k][1] <= u[k][2] /\ u[k][2] <= Len(body)
            /\ \A j, k \in 1..Len(u) : j < k => u[j][2] < u[k][1]
        BY <4>1, <4>2 DEF UrlsOK
      <4> HIDE DEF u
      <4>4. ASSUME NEW k \in 1..Len(u) PROVE i <= u[k][1]
        <5>1. u[k] \in Nat \X Nat
          BY <4>3
        <5>2. u[k][1] \in Nat /\ i + 1 <= u[k][1]
          BY <4>3, <5>1
        <5> QED BY <3>0, <5>2
      <4> QED BY <4>3, <4>4 DEF UrlsOK, u
    <3>2. CASE UrlAt(body, i)
      <4> DEFINE e == UrlEnd(body, i)
                 h == UrlHere(body, i)
                 v == f[e + 1]
                 u == f[i]
                 one == <<h>>
      <4>1. e \in i..Len(body) /\ e \in Nat /\ e + 1 \in (i + 1)..n
        BY <1>0, <3>0, UrlEndIn
      <4>2. u = one \o v
        BY <1>1, <3>0, <3>2 DEF UrlsAt
      <4>3. UrlsOK(body, e + 1, v)
        BY <1>2, <4>1
      <4>4. h \in Nat \X Nat /\ h[1] = i /\ h[2] = e
        BY <3>0, <4>1 DEF UrlHere
      <4> HIDE DEF e, h, v, u
      <4>5. one \in Seq(Nat \X Nat) /\ Len(one) = 1 /\ one[1] = h
        BY <4>4
      <4>6. /\ v \in Seq(Nat \X Nat)
            /\ \A k \in 1..Len(v) :
                 e + 1 <= v[k][1] /\ v[k][1] <= v[k][2] /\ v[k][2] <= Len(body)
            /\ \A j, k \in 1..Len(v) : j < k => v[j][2] < v[k][1]
        BY <4>3 DEF UrlsOK
      <4> HIDE DEF one
      <4>7. /\ u \in Seq(Nat \X Nat) /\ Len(u) = 1 + Len(v) /\ Len(v) \in Nat
            /\ u[1] = h /\ \A k \in 2..Len(u) : k - 1 \in 1..Len(v) /\ u[k] = v[k - 1]
        <5>1. u \in Seq(Nat \X Nat) /\ Len(u) = 1 + Len(v) /\ Len(v) \in Nat
          <6>1. PICK P : P = Nat \X Nat
            OBVIOUS
          <6>2. one \in Seq(P) /\ v \in Seq(P)
            BY <4>5, <4>6, <6>1
          <6>3. one \o v \in Seq(P) /\ Len(one \o v) = Len(one) + Len(v) /\ Len(v) \in Nat
            BY <6>2, ConcatLength
          <6> QED BY <4>2, <4>5, <6>1, <6>3
        <5>2. ASSUME NEW k \in 1..(1 + Len(v))
              PROVE  u[k] = IF k <= 1 THEN one[k] ELSE v[k - 1]
          <6>1. k \in 1..(Len(one) + Len(v))
            BY <4>5
          <6>2. (one \o v)[k] = IF k <= Len(one) THEN one[k] ELSE v[k - Len(one)]
            BY <4>5, <4>6, <6>1, ConcatAt
          <6> QED BY <4>2, <4>5, <6>2
        <5>3. u[1] = h
          <6>1. 1 \in 1..(1 + Len(v)) /\ 1 <= 1
            BY <5>1
          <6> QED BY <4>5, <5>2, <6>1
        <5>4. ASSUME NEW k \in 2..Len(u)
              PROVE  k - 1 \in 1..Len(v) /\ u[k] = v[k - 1]
          <6>1. k \in 1..(1 + Len(v)) /\ ~(k <= 1) /\ k - 1 \in 1..Len(v)
            BY <5>1
          <6> QED BY <5>2, <6>1
        <5> QED BY <5>1, <5>3, <5>4
      <4>8. ASSUME NEW k \in 1..Len(v)
            PROVE  /\ v[k][1] \in Nat /\ v[k][2] \in Nat /\ e + 1 <= v[k][1]
                   /\ v[k][1] <= v[k][2] /\ v[k][2] <= Len(body)
        <5>1. v[k] \in Nat \X Nat
          BY <4>6
        <5> QED BY <4>6, <5>1
      <4>9. ASSUME NEW k \in 1..Len(u)
            PROVE  i <= u[k][1] /\ u[k][1] <= u[k][2] /\ u[k][2] <= Len(body)
        <5>1. CASE k = 1
          BY <3>0, <4>1, <4>4, <4>7, <5>1
        <5>2. CASE k # 1
          <6>1. k \in 2..Len(u)
            BY <4>7, <5>2
          <6>2. k - 1 \in 1..Len(v) /\ u[k] = v[k - 1]
            BY <4>7, <6>1
          <6> QED BY <3>0, <4>1, <4>8, <6>2
        <5> QED BY <5>1, <5>2
      <4>10. ASSUME NEW j \in 1..Len(u), NEW k \in 1..Len(u), j < k
             PROVE  u[j][2] < u[k][1]
        <5>1. k \in 2..Len(u)
          BY <4>7, <4>10
        <5>2. k - 1 \in 1..Len(v) /\ u[k] = v[k - 1]
          BY <4>7, <5>1
        <5>3. CASE j = 1
          <6>1. u[j][2] = e
            BY <4>4, <4>7, <5>3
          <6>2. e + 1 <= v[k - 1][1] /\ v[k - 1][1] \in Nat
            BY <4>8, <5>2
          <6> QED BY <4>1, <5>2, <6>1, <6>2
        <5>4. CASE j # 1
          <6>1. j \in 2..Len(u) /\ j - 1 < k - 1
            BY <4>7, <4>10, <5>4
          <6>2. j - 1 \in 1..Len(v) /\ u[j] = v[j - 1]
            BY <4>7, <6>1
          <6>3. v[j - 1][2] < v[k - 1][1]
            BY <4>6, <5>2, <6>1, <6>2
          <6> QED BY <5>2, <6>2, <6>3
        <5> QED BY <5>3, <5>4
      <4>11. UrlsOK(body, i, u)
        BY <4>7, <4>9, <4>10 DEF UrlsOK
      <4> QED BY <4>11 DEF u
    <3> QED BY <3>1, <3>2
  <2> QED BY <2>1, <2>2
<1>3. \A i \in 1..n : i \in G
  <2> HIDE DEF G, n
  <2> QED BY <1>0, <1>2, DownwardInduction
<1>4. 1 \in 1..n
  BY <1>0
<1> QED BY <1>1, <1>3, <1>4

\* A token as an insertion after the URL m.
TokenFor(body, expiry, m) == <<"token", SubSeq(body, m[1], m[2]), expiry>>
TokenSpot(body, expiry, m) == [pos |-> m[2], content |-> TokenFor(body, expiry, m)]
TokenMarks(body, expiry) == {TokenFor(body, expiry, m) : m \in Nat \X Nat}

\* The tokens in the order in which they are put in.
TokenOrder(body, expiry) ==
    [k \in 1..Len(Urls(body)) |-> TokenSpot(body, expiry, Reverse(Urls(body))[k])]

\* The URLs backwards: places of the body, each before those that came earlier.
IsBackwards(body, r, n) ==
    /\ n \in Nat /\ Len(r) = n
    /\ \A k \in 1..n : /\ r[k] \in Nat \X Nat /\ r[k][1] \in Nat /\ r[k][2] \in Nat
                       /\ 1 <= r[k][1] /\ r[k][1] <= r[k][2] /\ r[k][2] <= Len(body)
    /\ \A j, k \in 1..n : j < k => r[k][2] < r[j][2]

LEMMA UrlsBackwards ==
    ASSUME NEW body, Len(body) \in Nat
    PROVE  IsBackwards(body, Reverse(Urls(body)), Len(Urls(body)))
<1> DEFINE u == Urls(body)
           n == Len(u)
           r == Reverse(u)
<1>1. UrlsOK(body, 1, u)
  BY UrlsInOrder
<1> HIDE DEF u
<1>2. n \in Nat /\ \A k \in 1..n : u[k] \in Nat \X Nat
  BY <1>1 DEF UrlsOK
<1>3. r = [i \in 1..n |-> u[(n - i) + 1]]
  BY DEF Reverse
<1> HIDE DEF r, n
<1>4. Len(r) = n
  BY <1>2, <1>3
<1>5. \A i \in 1..n : (n - i) + 1 \in 1..n /\ r[i] = u[(n - i) + 1]
  BY <1>2, <1>3
<1>6. ASSUME NEW k \in 1..n
      PROVE  /\ u[k] \in Nat \X Nat /\ u[k][1] \in Nat /\ u[k][2] \in Nat
             /\ 1 <= u[k][1] /\ u[k][1] <= u[k][2] /\ u[k][2] <= Len(body)
  <2>1. u[k] \in Nat \X Nat
    BY <1>2
  <2> QED BY <1>1, <2>1 DEF UrlsOK, n
<1>7. ASSUME NEW k \in 1..n
      PROVE  /\ r[k] \in Nat \X Nat /\ r[k][1] \in Nat /\ r[k][2] \in Nat
             /\ 1 <= r[k][1] /\ r[k][1] <= r[k][2] /\ r[k][2] <= Len(body)
  BY <1>5, <1>6
<1>8. ASSUME NEW j \in 1..n, NEW k \in 1..n, j < k PROVE r[k][2] < r[j][2]
  <2> DEFINE a == (n - k) + 1
             b == (n - j) + 1
  <2>1. a \in 1..n /\ b \in 1..n /\ a < b /\ r[k] = u[a] /\ r[j] = u[b]
    BY <1>2, <1>5, <1>8
  <2> HIDE DEF a, b
  <2>2. u[a][2] < u[b][1]
    BY <1>1, <2>1 DEF UrlsOK, n
  <2>3. u[a][2] \in Nat /\ u[b][1] \in Nat /\ u[b][2] \in Nat /\ u[b][1] <= u[b][2]
    BY <1>6, <2>1
  <2> QED BY <2>1, <2>2, <2>3
<1> QED BY <1>2, <1>4, <1>7, <1>8 DEF IsBackwards, r, n, u

LEMMA TokensOrdered ==
    ASSUME NEW body \in Seq(Symbol), NEW expiry
    PROVE  LET o == TokenOrder(body, expiry)
               r == Reverse(Urls(body))
           IN  /\ IsOrder(Symbol \cup TokenMarks(body, expiry), body, o)
               /\ Len(o) = Len(Urls(body)) /\ Len(r) = Len(o)
               /\ \A k \in 1..Len(o) : o[k] = TokenSpot(body, expiry, r[k])
<1> DEFINE n == Len(Urls(body))
           r == Reverse(Urls(body))
           o == TokenOrder(body, expiry)
           T == Symbol \cup TokenMarks(body, expiry)
           S == Spots(T, Len(body))
<1>1. IsBackwards(body, r, n) /\ Len(body) \in Nat
  BY UrlsBackwards
<1>2. o = [k \in 1..n |-> TokenSpot(body, expiry, r[k])]
  BY DEF TokenOrder
<1>3. Telling(T) /\ \A x \in TokenMarks(body, expiry) : x \in T \ Symbol
  <2>1. \A x \in Symbol : IsOrigin(x)
    BY DEF Symbol, IsOrigin
  <2>2. \A x \in TokenMarks(body, expiry) : ~IsOrigin(x)
    BY DEF TokenMarks, TokenFor, IsOrigin
  <2> QED BY <2>1, <2>2 DEF Telling
<1> HIDE DEF o, r, n, T
<1>4. ASSUME NEW k \in 1..n
      PROVE  /\ TokenSpot(body, expiry, r[k]) \in S
             /\ TokenSpot(body, expiry, r[k]).pos = r[k][2]
  <2>1. /\ r[k] \in Nat \X Nat /\ r[k][2] \in 0..Len(body)
    BY <1>1 DEF IsBackwards
  <2>2. TokenFor(body, expiry, r[k]) \in T \ Symbol
    <3>1. TokenFor(body, expiry, r[k]) \in TokenMarks(body, expiry)
      BY <2>1 DEF TokenMarks
    <3> QED BY <1>3, <3>1
  <2> QED BY <2>1, <2>2 DEF TokenSpot, Spots
<1> HIDE DEF S
<1>5. n \in Nat /\ Len(r) = n
  BY <1>1 DEF IsBackwards
<1>6. o \in [1..n -> S] /\ \A k \in 1..n : o[k] = TokenSpot(body, expiry, r[k])
  BY <1>2, <1>4
<1>7. Len(o) = n /\ o \in Seq(S)
  BY <1>5, <1>6
<1>8. ASSUME NEW i \in 1..n, NEW j \in 1..n, i < j PROVE o[i].pos >= o[j].pos
  <2>1. r[j][2] < r[i][2] /\ r[j][2] \in Nat /\ r[i][2] \in Nat
    BY <1>1, <1>8 DEF IsBackwards
  <2>2. o[i].pos = r[i][2] /\ o[j].pos = r[j][2]
    BY <1>4, <1>6
  <2> QED BY <2>1, <2>2
<1>9. IsOrder(T, body, o)
  BY <1>3, <1>7, <1>8 DEF IsOrder, S
<1> QED BY <1>5, <1>6, <1>7, <1>9 DEF o, r, n, T

\* To replace a URL of the body is to put its token after it.
SameUpTo(T, body, b, a, p, x) ==
    /\ body \in Seq(T) /\ b \in Seq(T) /\ x \in T /\ a \in Nat /\ p \in Nat
    /\ 1 <= a /\ a <= p /\ p <= Len(body) /\ p <= Len(b)
    /\ \A i \in 1..p : b[i] = body[i]

Replacing(body, b, a, p, x) ==
    SubSeq(b, 1, a - 1) \o Append(SubSeq(body, a, p), x) \o SubSeq(b, p + 1, Len(b))

LEMMA ReplacedIsInserted ==
    ASSUME NEW T, NEW body, NEW b, NEW a, NEW p, NEW x, SameUpTo(T, body, b, a, p, x)
    PROVE  Replacing(body, b, a, p, x) = InsertAt(b, p + 1, x)
<1> USE DEF SameUpTo
<1> DEFINE l == SubSeq(b, 1, a - 1)
           m == SubSeq(body, a, p)
           c == SubSeq(b, a, p)
           d == SubSeq(b, 1, p)
           post == SubSeq(b, p + 1, Len(b))
           own == <<x>>
<1>0. Len(b) \in Nat /\ Len(body) \in Nat /\ (p + 1) - 1 = p
  OBVIOUS
<1>1. InsertAt(b, p + 1, x) = (d \o own) \o post
  BY <1>0 DEF InsertAt
<1>2. m \in Seq(T) /\ Len(m) = p - a + 1 /\ \A i \in 1..(p - a + 1) : m[i] = body[a + i - 1]
  BY <1>0
<1>3. c \in Seq(T) /\ Len(c) = p - a + 1 /\ \A i \in 1..(p - a + 1) : c[i] = b[a + i - 1]
  BY <1>0
<1>4. l \in Seq(T) /\ d \in Seq(T)
  <2>1. a - 1 \in 0..Len(b) /\ p \in 0..Len(b)
    BY <1>0
  <2> QED BY <2>1, SplitAt
<1>5. l \o c = d
  <2>1. /\ 1 \in 1..(Len(b) + 1) /\ a - 1 \in (1 - 1)..Len(b)
        /\ p \in (a - 1)..Len(b) /\ (a - 1) + 1 = a
    BY <1>0
  <2>2. SubSeq(b, 1, a - 1) \o SubSeq(b, (a - 1) + 1, p) = SubSeq(b, 1, p)
    BY <2>1, ConcatAdjacentSubSeq
  <2> QED BY <2>1, <2>2
<1> HIDE DEF l, m, c, d, post, own
<1>6. m = c
  <2>1. ASSUME NEW i \in 1..(p - a + 1) PROVE m[i] = c[i]
    <3>1. a + i - 1 \in 1..p
      OBVIOUS
    <3> QED BY <1>2, <1>3, <3>1
  <2> QED BY <1>2, <1>3, <2>1, SameElements
<1>7. l \o Append(c, x) = Append(l \o c, x)
  BY <1>3, <1>4, ConcatAppend
<1>8. Append(d, x) = d \o own
  BY <1>4 DEF own
<1>9. (l \o Append(m, x)) \o post = (d \o own) \o post
  BY <1>5, <1>6, <1>7, <1>8, Zenon
<1> QED BY <1>1, <1>9 DEF l, m, post, Replacing

\* One URL is replaced (the loop of onResponseBody in cdn_token_generator).
Signed(body, expiry, b, m) ==
    SubSeq(b, 1, m[1] - 1) \o generateSignedUrl(SubSeq(body, m[1], m[2]), expiry)
      \o SubSeq(b, m[2] + 1, Len(b))

LEMMA SignedStep ==
    ASSUME NEW body \in Seq(Symbol), NEW expiry, NEW b,
           NEW k \in 1..Len(TokenOrder(body, expiry)),
           InsertedOK(Symbol \cup TokenMarks(body, expiry), body,
                      TokenOrder(body, expiry), k - 1, b)
    PROVE  InsertedOK(Symbol \cup TokenMarks(body, expiry), body,
                      TokenOrder(body, expiry), k,
                      Signed(body, expiry, b, Reverse(Urls(body))[k]))
<1> DEFINE T == Symbol \cup TokenMarks(body, expiry)
           o == TokenOrder(body, expiry)
           n == Len(o)
           r == Reverse(Urls(body))
           m == r[k]
           p == m[2]
           x == TokenFor(body, expiry, m)
<1>1. /\ IsOrder(T, body, o) /\ Len(r) = n /\ Len(Urls(body)) = n
      /\ \A j \in 1..n : o[j] = TokenSpot(body, expiry, r[j])
  BY TokensOrdered
<1>2. IsBackwards(body, r, n) /\ Len(body) \in Nat
  BY <1>1, UrlsBackwards
<1>3. InsertedOK(T, body, o, k - 1, b)
  OBVIOUS
<1>4. Signed(body, expiry, b, m)
        = Replacing(body, b, m[1], p, x)
  BY DEF Signed, generateSignedUrl, TokenFor, Replacing
<1>5. k \in 1..n
  OBVIOUS
<1>5a. n \in Nat
  BY <1>2 DEF IsBackwards
<1> HIDE DEF T, o, r
<1> HIDE DEF n
<1>6. /\ m[1] \in Nat /\ p \in Nat /\ 1 <= m[1] /\ m[1] <= p /\ p <= Len(body)
  BY <1>2, <1>5 DEF IsBackwards
<1>7. o[k].pos = p /\ o[k].content = x
  <2>1. o[k] = TokenSpot(body, expiry, m)
    BY <1>1, <1>5
  <2> QED BY <2>1 DEF TokenSpot
<1>8. body \in Seq(T) /\ x \in T
  <2>0. \A j \in 1..Len(o) : o[j].content \in T \ Symbol
    BY <1>1, OrderTypes
  <2>1. x \in T
    BY <1>5, <1>7, <2>0 DEF n
  <2>2. body \in Seq(T)
    BY <1>1, OrderTypes
  <2> QED BY <2>1, <2>2
<1>9. \A j \in 1..(k - 1) : p <= o[j].pos
  <2>1. ASSUME NEW j \in 1..(k - 1) PROVE p <= o[j].pos
    <3>1. j \in 1..n /\ j < k
      BY <1>5, <1>5a
    <3>2. o[j].pos = r[j][2]
      <4>1. o[j] = TokenSpot(body, expiry, r[j])
        BY <1>1, <3>1
      <4> QED BY <4>1 DEF TokenSpot
    <3>3. p < r[j][2] /\ r[j][2] \in Nat
      BY <1>2, <1>5, <3>1 DEF IsBackwards
    <3> QED BY <1>6, <3>2, <3>3
  <2> QED BY <2>1
<1>10. b \in Seq(T) /\ Len(b) = Len(body) + (k - 1) /\ \A i \in 1..p : b[i] = body[i]
  <2>1. p \in 0..Len(body)
    BY <1>2, <1>6
  <2> QED BY <1>3, <1>9, <2>1 DEF InsertedOK
<1>11. p <= Len(b)
  BY <1>2, <1>5, <1>5a, <1>6, <1>10
<1> DEFINE a == m[1]
<1>12. a \in Nat /\ 1 <= a /\ a <= p
  BY <1>6
<1> HIDE DEF m, p, x, a
<1>13. Replacing(body, b, a, p, x) = InsertAt(b, p + 1, x)
  <2>1. SameUpTo(T, body, b, a, p, x)
    BY <1>6, <1>8, <1>10, <1>11, <1>12 DEF SameUpTo
  <2> QED BY <2>1, ReplacedIsInserted
<1>14. Signed(body, expiry, b, m) = InsertAt(b, o[k].pos + 1, o[k].content)
  BY <1>4, <1>7, <1>13 DEF a
<1>15. InsertedOK(T, body, o, k, InsertAt(b, o[k].pos + 1, o[k].content))
  BY <1>1, <1>3, <1>5, InsertionsGoOn DEF n
<1>16. InsertedOK(T, body, o, k, Signed(body, expiry, b, m))
  BY <1>14, <1>15
<1> QED BY <1>16 DEF T, o, m, r

LEMMA SignLoop ==
    ASSUME NEW body \in Seq(Symbol), NEW expiry
    PROVE  LET o == TokenOrder(body, expiry) IN
           InsertedOK(Symbol \cup TokenMarks(body, expiry), body, o, Len(o),
                      SignUrls(body, expiry))
<1> DEFINE T == Symbol \cup TokenMarks(body, expiry)
           o == TokenOrder(body, expiry)
           r == Reverse(Urls(body))
           n == Len(r)
           OK(k, b) == InsertedOK(T, body, o, k, b)
           Op(b, m) == SubSeq(b, 1, m[1] - 1)
                         \o generateSignedUrl(SubSeq(body, m[1], m[2]), expiry)
                         \o SubSeq(b, m[2] + 1, Len(b))
           D(f) == [i \in 0..n |-> IF i = 0 THEN body ELSE Op(f[i - 1], r[i])]
           after == CHOOSE f : f = D(f)
<1>1. IsOrder(T, body, o) /\ Len(o) = n
  BY TokensOrdered
<1>2. n \in Nat /\ OK(0, body)
  BY <1>1, OrderTypes, InsertionsBegin
<1>3. ASSUME NEW i \in 1..n, NEW b, OK(i - 1, b) PROVE OK(i, Op(b, r[i]))
  BY <1>1, <1>3, SignedStep DEF Signed
<1>4. SignUrls(body, expiry) = after[n]
  BY DEF SignUrls, ForEach
<1> HIDE DEF Op, OK, n
<1> DEFINE Up(f, k) == /\ f = [i \in 0..n |-> f[i]] /\ f[0] = body
                       /\ \A i \in 1..k : f[i] = Op(f[i - 1], r[i])
           G == {k \in 0..n : \E f : Up(f, k)}
<1>5. 0 \in G
  <2> DEFINE f == [i \in 0..n |-> body]
  <2>1. Up(f, 0)
    BY <1>2
  <2> HIDE DEF Up, f
  <2> QED BY <1>2, <2>1
<1>6. ASSUME NEW k \in 1..n, k - 1 \in G PROVE k \in G
  <2>1. PICK f : Up(f, k - 1)
    BY <1>6
  <2> DEFINE g == [j \in 0..n |-> IF j = k THEN Op(f[k - 1], r[k]) ELSE f[j]]
  <2>2. g = [j \in 0..n |-> g[j]] /\ g[0] = body
    BY <1>2, <2>1
  <2>3. ASSUME NEW i \in 1..k PROVE g[i] = Op(g[i - 1], r[i])
    <3>1. i \in 0..n /\ i - 1 \in 0..n /\ i - 1 # k
      BY <1>2
    <3>2. g[i - 1] = f[i - 1]
      BY <3>1
    <3>3. CASE i = k
      BY <3>1, <3>2, <3>3
    <3>4. CASE i # k
      <4>1. i \in 1..(k - 1) /\ g[i] = f[i]
        BY <3>1, <3>4
      <4> QED BY <2>1, <3>2, <4>1
    <3> QED BY <3>3, <3>4
  <2> HIDE DEF g
  <2>4. Up(g, k)
    BY <2>2, <2>3
  <2>5. k \in 0..n
    BY <1>2
  <2> HIDE DEF Up
  <2> QED BY <2>4, <2>5
<1>7. PICK f : Up(f, n)
  <2> HIDE DEF Up
  <2>1. \A i \in 0..n : i \in G
    <3> HIDE DEF G
    <3> QED BY <1>2, <1>5, <1>6, UpwardInduction
  <2>2. n \in 0..n
    BY <1>2
  <2> QED BY <2>1, <2>2
<1>8. f = D(f)
  BY <1>2, <1>7
<1>9. after = D(after)
  <2> HIDE DEF D
  <2> QED BY <1>8
<1> HIDE DEF after
<1>10. after[0] = body /\ \A i \in 1..n : after[i] = Op(after[i - 1], r[i])
  BY <1>2, <1>9
<1>11. OK(n, after[n])
  <2> DEFINE H == {i \in 0..n : OK(i, after[i])}
  <2>1. 0 \in H
    BY <1>2, <1>10
  <2>2. ASSUME NEW i \in 1..n, i - 1 \in H PROVE i \in H
    <3>1. i \in 0..n
      BY <1>2
    <3> QED BY <1>3, <1>10, <2>2, <3>1
  <2> HIDE DEF H
  <2>3. \A i \in 0..n : i \in H
    <3> HIDE DEF G
    <3> QED BY <1>2, <2>1, <2>2, UpwardInduction
  <2>4. n \in 0..n
    BY <1>2
  <2> QED BY <2>3, <2>4 DEF H
<1> QED BY <1>1, <1>4, <1>11 DEF OK

\* The tokens that the URLs of a body are to be followed by.
TokensExpected(body, expiry) == {TokenSpot(body, expiry, m) : m \in Range(Urls(body))}

LEMMA TokensInPlace ==
    ASSUME NEW body \in Seq(Symbol), NEW expiry
    PROVE  Complete(body, TokensExpected(body, expiry), SignUrls(body, expiry))
<1> DEFINE T == Symbol \cup TokenMarks(body, expiry)
           o == TokenOrder(body, expiry)
           u == Urls(body)
           r == Reverse(u)
           n == Len(u)
           new == SignUrls(body, expiry)
           E == TokensExpected(body, expiry)
<1>1. /\ IsOrder(T, body, o) /\ Len(o) = n /\ Len(r) = n
      /\ \A k \in 1..n : o[k] = TokenSpot(body, expiry, r[k])
  BY TokensOrdered
<1>2. IsBackwards(body, r, n) /\ UrlsOK(body, 1, u)
  BY UrlsBackwards, UrlsInOrder
<1>3. InsertedOK(T, body, o, Len(o), new)
  BY SignLoop
<1>4. /\ n \in Nat /\ DOMAIN u = 1..n
      /\ \A i \in 1..n : (n - i) + 1 \in 1..n /\ r[i] = u[(n - i) + 1]
  <2>1. n \in Nat /\ DOMAIN u = 1..n
    BY <1>2 DEF UrlsOK
  <2> HIDE DEF u
  <2> QED BY <2>1 DEF Reverse
<1>5. E = {TokenSpot(body, expiry, u[i]) : i \in 1..n}
  BY <1>4 DEF TokensExpected, Range
<1> HIDE DEF T, o, r, u, n, new, E
<1>6. /\ WithoutInsertions(new) = body /\ Len(new) = Len(body) + n
      /\ Placed(new) = {o[j] : j \in 1..n} /\ new \in Seq(Range(new))
  BY <1>1, <1>3, OrderIsComplete
<1>7. {o[j] : j \in 1..n} = E
  <2>1. ASSUME NEW j \in 1..n PROVE o[j] \in E
    BY <1>1, <1>4, <1>5
  <2>2. ASSUME NEW i \in 1..n
        PROVE  TokenSpot(body, expiry, u[i]) \in {o[j] : j \in 1..n}
    <3> DEFINE j == (n - i) + 1
    <3>1. j \in 1..n /\ (n - j) + 1 = i
      BY <1>4
    <3> HIDE DEF j
    <3>2. o[j] = TokenSpot(body, expiry, u[i])
      BY <1>1, <1>4, <3>1
    <3> QED BY <3>1, <3>2
  <2> QED BY <1>5, <2>1, <2>2
<1>8. Cardinality(E) = n
  <2> DEFINE f == [j \in 1..n |-> o[j]]
  <2>1. \A j \in 1..n : o[j].pos = r[j][2]
    BY <1>1 DEF TokenSpot
  <2>2. ASSUME NEW j \in 1..n, NEW k \in 1..n, j < k PROVE o[j] # o[k]
    <3>1. r[k][2] < r[j][2] /\ r[k][2] \in Nat /\ r[j][2] \in Nat
      BY <1>2, <2>2 DEF IsBackwards
    <3> QED BY <2>1, <3>1
  <2>3. ASSUME NEW j \in 1..n, NEW k \in 1..n, j # k PROVE o[j] # o[k]
    <3>1. j < k \/ k < j
      BY <1>4, <2>3
    <3> QED BY <2>2, <3>1
  <2>4. f \in Bijection(1..n, E)
    <3>1. f \in [1..n -> E] /\ \A y \in E : \E j \in 1..n : f[j] = y
      BY <1>7
    <3>2. \A j, k \in 1..n : f[j] = f[k] => j = k
      BY <2>3
    <3> HIDE DEF f
    <3> QED BY <3>1, <3>2 DEF Bijection, Injection, Surjection, IsInjective
  <2>5. ExistsBijection(1..n, E)
    BY <2>4 DEF ExistsBijection
  <2> QED BY <1>4, <2>5, FS_CountingElements
<1>9. Complete(body, E, new)
  BY <1>6, <1>7, <1>8 DEF Complete
<1> QED BY <1>9 DEF E, new

-----------------------------------------------------------------------------
(* What the client has of the body.                                         *)

BodyPluginNames == {"ad_insertion", "cdn_token_generator", "check_pii", "body_chunking"}

\* ad_insertion and cdn_token_generator hold the body until it is complete.
Held(p, r) == p.name = "cdn_token_generator" \/ (p.name = "ad_insertion" /\ r.active)

Bar == <<"bar", "">>
Chunked == Symbol \cup {Bar}

\* A text and what check_pii leaves of it.
Masks(sent, out) ==
    /\ sent \in Seq(Symbol) /\ out \in Seq(Symbol) /\ Len(out) = Len(sent)
    /\ \A i \in 1..Len(sent) : out[i] \in MaskOf(sent[i])

\* A text and what body_chunking makes of it.
Barred(sent, out) == out \in Seq(Chunked) /\ Filter(out, Symbol) = sent

\* What the plugin has made of the part that the host did not keep.
Became(p, r, sent, out) ==
    /\ p.name = "check_pii" => Masks(sent, out)
    /\ p.name = "body_chunking" => Barred(sent, out)
    /\ p.name = "ad_insertion" /\ ~r.active => out = sent
    /\ Held(p, r) => sent = <<>> /\ out = <<>>

LEMMA ChunkedTells == Telling(Chunked) /\ Telling(Symbol)
<1>1. \A x \in Symbol : IsOrigin(x)
  BY DEF Symbol, IsOrigin
<1>2. Len(Bar) = 2
  BY DEF Bar
<1>3. ~IsOrigin(Bar)
  BY <1>2 DEF IsOrigin
<1>4. Bar \notin Symbol
  BY <1>1, <1>3
<1> QED BY <1>1, <1>3, <1>4 DEF Telling, Chunked

LEMMA MasksConcat ==
    ASSUME NEW sent, NEW out, NEW data, NEW new, Masks(sent, out), Masks(data, new)
    PROVE  Masks(sent \o data, out \o new)
<1>1. /\ sent \in Seq(Symbol) /\ out \in Seq(Symbol) /\ Len(out) = Len(sent)
      /\ data \in Seq(Symbol) /\ new \in Seq(Symbol) /\ Len(new) = Len(data)
      /\ \A i \in 1..Len(sent) : out[i] \in MaskOf(sent[i])
      /\ \A i \in 1..Len(data) : new[i] \in MaskOf(data[i])
  BY DEF Masks
<1> DEFINE s == sent \o data
           t == out \o new
           m == Len(sent)
           k == Len(data)
<1>2. /\ s \in Seq(Symbol) /\ t \in Seq(Symbol) /\ Len(s) = m + k /\ Len(t) = m + k
      /\ m \in Nat /\ k \in Nat
  <2>1. s \in Seq(Symbol) /\ Len(s) = m + k
    BY <1>1, ConcatLength
  <2>2. t \in Seq(Symbol) /\ Len(t) = Len(out) + Len(new)
    BY <1>1, ConcatLength
  <2>3. m \in Nat /\ k \in Nat
    BY <1>1
  <2> HIDE DEF s, t
  <2> QED BY <1>1, <2>1, <2>2, <2>3
<1>3. \A i \in 1..(m + k) : /\ s[i] = IF i <= m THEN sent[i] ELSE data[i - m]
                            /\ t[i] = IF i <= m THEN out[i] ELSE new[i - m]
  BY <1>1, ConcatAt
<1> HIDE DEF s, t, m, k
<1>4. ASSUME NEW i \in 1..(m + k) PROVE t[i] \in MaskOf(s[i])
  <2>1. CASE i <= m
    <3>1. i \in 1..m
      BY <1>2, <2>1
    <3> QED BY <1>1, <1>3, <2>1, <3>1 DEF m
  <2>2. CASE ~(i <= m)
    <3>1. i - m \in 1..k
      BY <1>2, <2>2
    <3> QED BY <1>1, <1>3, <2>2, <3>1 DEF k
  <2> QED BY <2>1, <2>2
<1>5. Masks(s, t)
  BY <1>2, <1>4 DEF Masks
<1> QED BY <1>5 DEF s, t

LEMMA BarredConcat ==
    ASSUME NEW sent, NEW out, NEW data \in Seq(Symbol), NEW new,
           Barred(sent, out), Barred(data, new)
    PROVE  Barred(sent \o data, out \o new)
<1>1. /\ out \in Seq(Chunked) /\ Filter(out, Symbol) = sent
      /\ new \in Seq(Chunked) /\ Filter(new, Symbol) = data
  BY DEF Barred
<1>2. Filter(out \o new, Symbol) = Filter(out, Symbol) \o Filter(new, Symbol)
  <2>1. PICK C : C = Chunked
    OBVIOUS
  <2>2. out \in Seq(C) /\ new \in Seq(C)
    BY <1>1, <2>1
  <2> QED BY <2>2, FilterConcat
<1>3. out \o new \in Seq(Chunked)
  BY <1>1, ConcatLength
<1>4. Filter(out \o new, Symbol) = sent \o data
  BY <1>1, <1>2, Zenon
<1> QED BY <1>3, <1>4 DEF Barred

\* body_chunking puts its mark after a chunk.
LEMMA ChunkBarred ==
    ASSUME NEW data \in Seq(Symbol)
    PROVE  Barred(data, IF data = <<>> THEN data ELSE Append(data, Bar))
<1>1. Symbol \subseteq Chunked /\ Bar \in Chunked /\ Bar \notin Symbol
  <2>1. \A x \in Symbol : IsOrigin(x)
    BY DEF Symbol, IsOrigin
  <2>2. ~IsOrigin(Bar)
    <3>1. Len(Bar) = 2
      BY DEF Bar
    <3> QED BY <3>1 DEF IsOrigin
  <2> HIDE DEF Bar
  <2> QED BY <2>1, <2>2 DEF Chunked
<1> HIDE DEF Bar, Chunked
<1>2. data \in Seq(Chunked)
  BY <1>1
<1>3. Filter(data, Symbol) = data
  BY FilterAll
<1>4. Append(data, Bar) \in Seq(Chunked)
  BY <1>1, <1>2
<1>5. Filter(Append(data, Bar), Symbol) = data
  <2>1. Filter(Append(data, Bar), Symbol)
          = IF Bar \in Symbol THEN Append(Filter(data, Symbol), Bar) ELSE Filter(data, Symbol)
    BY <1>1, <1>2, FilterAppend
  <2> QED BY <1>1, <1>3, <2>1
<1>6. Barred(data, data) /\ Barred(data, Append(data, Bar))
  BY <1>2, <1>3, <1>4, <1>5 DEF Barred
<1> QED BY <1>6

LEMMA NothingInserted ==
    ASSUME NEW body \in Seq(Symbol)
    PROVE  Complete(body, {}, body)
<1>0. \A S : <<>> \in Seq(S) /\ Len(<<>>) = 0
  OBVIOUS
<1>1. PICK o : o = <<>> /\ o \in Seq(Spots(Symbol, Len(body))) /\ Len(o) = 0
  BY <1>0, Zenon
<1>2. IsOrder(Symbol, body, o)
  BY <1>1, ChunkedTells DEF IsOrder
<1>3. InsertedOK(Symbol, body, o, Len(o), body)
  BY <1>1, <1>2, InsertionsBegin
<1>4. /\ WithoutInsertions(body) = body /\ Placed(body) = {o[j] : j \in 1..Len(o)}
      /\ body \in Seq(Range(body))
  BY <1>2, <1>3, OrderIsComplete
<1>5. Placed(body) = {}
  BY <1>1, <1>4
<1>6. Len(body) = Len(body) + Cardinality({})
  <2>1. Cardinality({}) = 0 /\ Len(body) \in Nat
    BY FS_EmptySet
  <2> QED BY <2>1
<1> QED BY <1>4, <1>5, <1>6 DEF Complete

\* What the client may have of the whole body at the end of the response.
AllDelivered(p, r) ==
    /\ r.out \in Seq(Range(r.out))
    /\ p.name = "check_pii" => Masks(r.body, r.out)
    /\ p.name # "check_pii" => WithoutInsertions(r.out) = r.body
    /\ ~r.by_trailers /\ p.name = "ad_insertion" =>
         /\ r.active => Complete(r.body, Insertions(r.body, p.root), r.out)
         /\ ~r.active => Complete(r.body, {}, r.out)
    /\ ~r.by_trailers /\ p.name = "cdn_token_generator" =>
         /\ Len(r.body) <= kMaxBodySize =>
              Complete(r.body, TokensExpected(r.body, p.expiry), r.out)
         /\ ~(Len(r.body) <= kMaxBodySize) => Complete(r.body, {}, r.out)

\* While the body streams: the part that is done, what the host keeps and what the
\* origin has left make it up.
PartSent(p, r) ==
    /\ r.buf \in Seq(Symbol) /\ r.left \in Seq(Symbol)
    /\ ~Held(p, r) => r.buf = <<>>
    /\ \E sent \in Seq(Symbol) :
         r.body = sent \o (r.buf \o r.left) /\ Became(p, r, sent, r.out)

PluginOK(p) ==
    /\ p.name \in {"none", "refused"} \cup BodyPluginNames
    /\ p.name = "ad_insertion" => RootOK(p.root)

\* One chunk of a body that is not held.
LEMMA ChunkPasses ==
    ASSUME NEW data \in Seq(Symbol), NEW end, NEW new \in Processed(data, end),
           NEW sent \in Seq(Symbol), NEW out, Became(bodyPlugin, response, sent, out),
           bodyPlugin.name \in BodyPluginNames, ~Held(bodyPlugin, response)
    PROVE  Became(bodyPlugin, response, sent \o data, out \o new)
<1> DEFINE p == bodyPlugin
<1>1. CASE p.name = "check_pii"
  <2>1. new = maskPII(data)
    BY <1>1 DEF Processed
  <2>2. Masks(data, new)
    BY <2>1, MaskKeepsShape DEF Masks
  <2>3. Masks(sent, out)
    BY <1>1 DEF Became
  <2>4. Masks(sent \o data, out \o new)
    BY <2>2, <2>3, MasksConcat
  <2> QED BY <1>1, <2>4 DEF Became
<1>2. CASE p.name = "body_chunking"
  <2>1. new = IF data = <<>> THEN data ELSE Append(data, Bar)
    BY <1>2 DEF Processed, Bar
  <2>2. Barred(data, new)
    BY <2>1, ChunkBarred
  <2>3. Barred(sent, out)
    BY <1>2 DEF Became
  <2>4. Barred(sent \o data, out \o new)
    BY <2>2, <2>3, BarredConcat
  <2> QED BY <1>2, <2>4 DEF Became
<1>3. CASE p.name = "ad_insertion" /\ ~response.active
  <2>1. new = data
    BY <1>3 DEF Processed
  <2>2. out = sent
    BY <1>3 DEF Became
  <2>3. out \o new = sent \o data
    BY <2>1, <2>2, Zenon
  <2> QED BY <1>3, <2>3 DEF Became
<1> QED BY <1>1, <1>2, <1>3 DEF Held, BodyPluginNames

\* A body that is not held and has gone through is delivered.
LEMMA PassedThrough ==
    ASSUME NEW p, NEW r, p.name \in BodyPluginNames, ~Held(p, r),
           r.body \in Seq(Symbol), Became(p, r, r.body, r.out)
    PROVE  AllDelivered(p, r)
<1>0. r.out \in Seq(Range(r.out))
  <2>1. r.out \in Seq(Chunked) \/ r.out \in Seq(Symbol)
    BY DEF Became, Masks, Barred, Held, BodyPluginNames
  <2> QED BY <2>1, RangeType
<1>1. CASE p.name = "check_pii"
  BY <1>0, <1>1 DEF Became, AllDelivered
<1>2. CASE p.name = "body_chunking"
  <2>1. r.out \in Seq(Chunked) /\ Filter(r.out, Symbol) = r.body
    BY <1>2 DEF Became, Barred
  <2>2. WithoutInsertions(r.out) = r.body
    BY <2>1, ChunkedTells, WithoutIs
  <2> QED BY <1>0, <1>2, <2>2 DEF AllDelivered
<1>3. CASE p.name = "ad_insertion" /\ ~r.active
  <2>1. r.out = r.body
    BY <1>3 DEF Became
  <2>2. Complete(r.body, {}, r.out)
    BY <2>1, NothingInserted
  <2>3. WithoutInsertions(r.out) = r.body
    BY <2>2 DEF Complete
  <2> QED BY <1>0, <1>3, <2>2, <2>3 DEF AllDelivered
<1> QED BY <1>1, <1>2, <1>3 DEF Held, BodyPluginNames

\* So is one that is held and processed when it is complete,
LEMMA HeldProcessed ==
    ASSUME NEW body \in Seq(Symbol), NEW end, NEW new \in Processed(body, end),
           PluginOK(bodyPlugin), Held(bodyPlugin, response), NEW r,
           r.body = body, r.out = new, r.active = response.active
    PROVE  end /\ AllDelivered(bodyPlugin, r) /\ new \in Seq(Range(new))
<1> DEFINE p == bodyPlugin
<1>1. CASE p.name = "ad_insertion" /\ response.active
  <2>1. end /\ new \in processBodyWithGAM(body, p.root)
    BY <1>1 DEF Processed
  <2>2. RootOK(p.root)
    BY <1>1 DEF PluginOK
  <2>3. Complete(body, Insertions(body, p.root), new)
    BY <2>1, <2>2, AdsInPlace
  <2>4. WithoutInsertions(new) = body /\ new \in Seq(Range(new))
    BY <2>3 DEF Complete
  <2> QED BY <1>1, <2>1, <2>3, <2>4 DEF AllDelivered
<1>2. CASE p.name = "cdn_token_generator"
  <2>1. end /\ new = IF Len(body) > kMaxBodySize THEN body ELSE SignUrls(body, p.expiry)
    BY <1>2 DEF Processed
  <2>2. Len(body) \in Nat /\ kMaxBodySize \in Nat
    BY BodySizeAssumption
  <2>3. Len(body) <= kMaxBodySize => Complete(body, TokensExpected(body, p.expiry), new)
    <3>1. ASSUME Len(body) <= kMaxBodySize PROVE new = SignUrls(body, p.expiry)
      BY <2>1, <2>2, <3>1
    <3> QED BY <3>1, TokensInPlace
  <2>4. ~(Len(body) <= kMaxBodySize) => Complete(body, {}, new)
    <3>1. ASSUME ~(Len(body) <= kMaxBodySize) PROVE new = body
      BY <2>1, <2>2, <3>1
    <3> QED BY <3>1, NothingInserted
  <2>5. WithoutInsertions(new) = body /\ new \in Seq(Range(new))
    BY <2>3, <2>4 DEF Complete
  <2> QED BY <1>2, <2>1, <2>3, <2>4, <2>5 DEF AllDelivered
<1> QED BY <1>1, <1>2 DEF Held

\* and one that trailers set free.
LEMMA HeldLetGo ==
    ASSUME NEW p, NEW r, r.body \in Seq(Symbol), r.out = r.body, r.by_trailers = TRUE,
           p.name # "check_pii"
    PROVE  AllDelivered(p, r)
<1>1. WithoutInsertions(r.out) = r.body /\ r.out \in Seq(Range(r.out))
  BY NothingInserted DEF Complete
<1> QED BY <1>1 DEF AllDelivered

\* The inductive invariant: while a body streams nothing of it is missing, and at
\* its end it is delivered.
IntactInv ==
    /\ PluginOK(bodyPlugin)
    /\ \/ response = [pc |-> "none"]
       \/ /\ IsResponse(response) /\ bodyPlugin.name \in BodyPluginNames
          /\ \/ response.pc = "body" /\ PartSent(bodyPlugin, response)
             \/ response.pc = "ended" /\ AllDelivered(bodyPlugin, response)

LEMMA IntactLoad ==
    ASSUME IntactInv, LoadBodyPlugin
    PROVE  IntactInv'
<1>1. bodyPlugin = [name |-> "none"] /\ response' = response
  BY DEF LoadBodyPlugin, NoPlugin
<1>2. response = [pc |-> "none"]
  BY <1>1 DEF IntactInv, BodyPluginNames
<1>3. PluginOK(bodyPlugin')
  <2>1. ASSUME NEW lines \in AdConfigs,
               bodyPlugin' = [name |-> "ad_insertion", root |-> onConfigureAds(lines)]
        PROVE  PluginOK(bodyPlugin')
    <3>1. RootOK(onConfigureAds(lines))
      BY AdsConfigured
    <3> QED BY <2>1, <3>1 DEF PluginOK, BodyPluginNames
  <2>2. ASSUME NEW c \in TokenConfigs,
               bodyPlugin' = IF parseConfig(c)
                             THEN [name |-> "cdn_token_generator",
                                   expiry |-> EffectiveExpiry(c)]
                             ELSE [name |-> "refused"]
        PROVE  PluginOK(bodyPlugin')
    BY <2>2 DEF PluginOK, BodyPluginNames
  <2>3. ASSUME bodyPlugin' \in [name : {"check_pii", "body_chunking"}]
        PROVE  PluginOK(bodyPlugin')
    BY <2>3 DEF PluginOK, BodyPluginNames
  <2> QED BY <2>1, <2>2, <2>3 DEF LoadBodyPlugin
<1> QED BY <1>1, <1>2, <1>3 DEF IntactInv

LEMMA IntactHeaders ==
    ASSUME IntactInv, NEW html \in BOOLEAN, NEW ad_request \in BOOLEAN,
           NEW checked \in BOOLEAN,
           bodyPlugin.name \in DOMAIN Bodies, NEW body \in Bodies[bodyPlugin.name],
           NEW value \in HeaderValues[bodyPlugin.name],
           ResponseHeaders(body, value, html, ad_request, checked)
    PROVE  IntactInv'
<1> DEFINE r == response'
           p == bodyPlugin
           s == Symbols(body)
<1>1. body \in Seq(STRING)
  BY BodiesAssumption
<1>2. s \in Seq(Symbol)
  BY <1>1, SymbolsType
<1>3. r = [pc |-> "body", body |-> s, left |-> s,
           active |-> html /\ ~ad_request, checked |-> checked,
           buf |-> <<>>, out |-> <<>>,
           chunk |-> [in |-> <<>>, out |-> <<>>], by_trailers |-> FALSE,
           header |-> [in |-> Symbols(value), out |-> HeaderText(Symbols(value))],
           content_length |-> ContentLength(body, html)]
  BY DEF ResponseHeaders
<1>4. p.name \in BodyPluginNames /\ PluginOK(p) /\ bodyPlugin' = p
  BY DEF ResponseHeaders, IntactInv, PluginOK
<1> HIDE DEF r, s, p
<1>5. IsResponse(r)
  BY <1>3 DEF IsResponse, ResponseFields
<1>6. r.pc = "body" /\ r.body = s /\ r.left = s /\ r.buf = <<>> /\ r.out = <<>>
  BY <1>3
<1>7. PICK e : /\ e = <<>> /\ e \in Seq(Symbol) /\ e \in Seq(Chunked) /\ Len(e) = 0
               /\ e \o (e \o s) = s /\ Filter(e, Symbol) = e
  <2>1. <<>> \in Seq(Symbol) /\ <<>> \in Seq(Chunked) /\ Len(<<>>) = 0
    OBVIOUS
  <2>2. <<>> \o s = s
    BY <1>2
  <2>3. <<>> \o (<<>> \o s) = s
    BY <2>2, Zenon
  <2>4. Filter(<<>>, Symbol) = <<>>
    BY <2>1, FilterAll
  <2> QED BY <2>1, <2>3, <2>4, Zenon
<1>8. Masks(e, e) /\ Barred(e, e)
  BY <1>7 DEF Masks, Barred
<1>9. Became(p, r, e, e)
  BY <1>7, <1>8 DEF Became
<1>10. r.body = e \o (r.buf \o r.left)
  BY <1>6, <1>7, Zenon
<1>11. PartSent(p, r)
  BY <1>2, <1>6, <1>7, <1>9, <1>10 DEF PartSent
<1>12. IsResponse(r) /\ r.pc = "body"
  BY <1>5, <1>6
<1> QED BY <1>4, <1>11, <1>12 DEF IntactInv, r

LEMMA NoMore ==
    ASSUME NEW T, NEW s \in Seq(T)
    PROVE  s \o <<>> = s /\ <<>> \o s = s
OBVIOUS

LEMMA ConcatOrder ==
    \A a, b, c \in Seq(Symbol) : (a \o b) \o c = a \o (b \o c)
<1> TAKE a, b, c \in Seq(Symbol)
<1> QED BY ConcatAssociative

LEMMA IntactTrailers ==
    ASSUME IntactInv, ResponseTrailers
    PROVE  IntactInv'
<1> DEFINE r == response'
           w == response
           p == bodyPlugin
<1>1. /\ bodyPlugin' = p /\ w.pc = "body" /\ w.left = <<>>
      /\ r = [w EXCEPT !.out = w.out \o w.buf, !.buf = <<>>,
                       !.by_trailers = TRUE, !.pc = "ended"]
  BY DEF ResponseTrailers
<1>2. /\ PluginOK(p) /\ IsResponse(w) /\ p.name \in BodyPluginNames /\ PartSent(p, w)
  BY <1>1 DEF IntactInv
<1> HIDE DEF r, w, p
<1>3. /\ IsResponse(r) /\ r.pc = "ended" /\ r.out = w.out \o w.buf
      /\ r.body = w.body /\ r.active = w.active /\ r.by_trailers = TRUE
  BY <1>1, <1>2 DEF IsResponse, ResponseFields
<1>4. PICK sent \in Seq(Symbol) :
        w.body = sent \o (w.buf \o w.left) /\ Became(p, w, sent, w.out)
  BY <1>2 DEF PartSent
<1>5. w.buf \in Seq(Symbol) /\ (~Held(p, w) => w.buf = <<>>)
  BY <1>2 DEF PartSent
<1>6. w.buf \o w.left = w.buf
  BY <1>1, <1>5, NoMore
<1>7. w.body = sent \o w.buf
  BY <1>4, <1>6, Zenon
<1>8. ASSUME Held(p, w) PROVE AllDelivered(p, r)
  <2>1. sent = <<>> /\ w.out = <<>>
    BY <1>4, <1>8 DEF Became
  <2>2. <<>> \o w.buf = w.buf
    BY <1>5, NoMore
  <2>3. r.out = r.body /\ r.body = w.buf
    BY <1>3, <1>7, <2>1, <2>2, Zenon
  <2>4. p.name # "check_pii"
    BY <1>8 DEF Held
  <2> QED BY <1>3, <1>5, <2>3, <2>4, HeldLetGo
<1>9. ASSUME ~Held(p, w) PROVE AllDelivered(p, r)
  <2>1. w.body = sent
    <3>1. sent \o <<>> = sent
      BY NoMore
    <3> QED BY <1>5, <1>7, <1>9, <3>1, Zenon
  <2>2. r.out = w.out
    <3>1. w.out \in Seq(Chunked) \/ w.out \in Seq(Symbol)
      BY <1>2, <1>4, <1>9 DEF Became, Masks, Barred, Held, BodyPluginNames
    <3>2. w.out \o <<>> = w.out
      BY <3>1, NoMore
    <3> QED BY <1>3, <1>5, <1>9, <3>2, Zenon
  <2>3. ~Held(p, r) /\ Became(p, r, r.body, r.out)
    BY <1>3, <1>4, <1>9, <2>1, <2>2 DEF Held, Became
  <2>4. r.body \in Seq(Symbol)
    BY <1>3, <2>1
  <2> QED BY <1>2, <2>3, <2>4, PassedThrough
<1>10. AllDelivered(p, r)
  BY <1>8, <1>9
<1> QED BY <1>1, <1>2, <1>3, <1>10 DEF IntactInv, r, p

\* A chunk moves from what is left to what the plugin sees.
Seen(w, n) == w.buf \o SubSeq(w.left, 1, n)
Rest(w, n) == SubSeq(w.left, n + 1, Len(w.left))

LEMMA ChunkMoves ==
    ASSUME NEW w, w.buf \in Seq(Symbol), w.left \in Seq(Symbol), NEW n \in 0..Len(w.left)
    PROVE  /\ Seen(w, n) \in Seq(Symbol) /\ Rest(w, n) \in Seq(Symbol)
           /\ Seen(w, n) \o Rest(w, n) = w.buf \o w.left
           /\ n = Len(w.left) => Rest(w, n) = <<>>
<1> DEFINE pre == SubSeq(w.left, 1, n)
           post == SubSeq(w.left, n + 1, Len(w.left))
<1>1. /\ pre \in Seq(Symbol) /\ Len(pre) = n /\ post \in Seq(Symbol)
      /\ Len(post) = Len(w.left) - n /\ w.left = pre \o post
  BY SplitAt
<1>2. Len(w.left) \in Nat
  OBVIOUS
<1>3. Seen(w, n) = w.buf \o pre /\ Rest(w, n) = post
  BY DEF Seen, Rest
<1> HIDE DEF pre, post
<1>4. (w.buf \o pre) \o post = w.buf \o (pre \o post)
  <2>1. pre \in Seq(Symbol) /\ post \in Seq(Symbol) /\ w.buf \in Seq(Symbol)
    BY <1>1
  <2> QED BY <2>1, ConcatOrder, Zenon
<1>5. w.buf \o pre \in Seq(Symbol)
  BY <1>1, ConcatLength
<1>6. Seen(w, n) \o Rest(w, n) = w.buf \o w.left
  BY <1>1, <1>3, <1>4, Zenon
<1>7. n = Len(w.left) => Rest(w, n) = <<>>
  <2>1. n = Len(w.left) => Len(post) = 0
    BY <1>1, <1>2
  <2> QED BY <1>1, <1>3, <2>1, EmptySequence
<1> QED BY <1>1, <1>3, <1>5, <1>6, <1>7

\* A plugin that holds the body processes nothing before its end; one that does not
\* hold it always does.
LEMMA HeldUntilEnd ==
    ASSUME NEW data, NEW end \in BOOLEAN, bodyPlugin.name \in BodyPluginNames
    PROVE  /\ Held(bodyPlugin, response) /\ Processed(data, end) # {} => end
           /\ Processed(data, end) = {} => Held(bodyPlugin, response)
BY DEF Held, Processed, BodyPluginNames

LEMMA IntactBody ==
    ASSUME IntactInv, response.pc = "body", NEW n \in 0..Len(response.left),
           NEW end \in BOOLEAN, ResponseBody(n, end)
    PROVE  IntactInv'
<1> DEFINE w == response
           r == response'
           p == bodyPlugin
           data == Seen(w, n)
           rest == Rest(w, n)
<1>1. bodyPlugin' = p /\ w.pc = "body" /\ (end => n = Len(w.left))
  BY DEF ResponseBody
<1>2. PluginOK(p) /\ IsResponse(w) /\ p.name \in BodyPluginNames /\ PartSent(p, w)
  BY <1>1 DEF IntactInv
<1>3. w.buf \in Seq(Symbol) /\ w.left \in Seq(Symbol) /\ (~Held(p, w) => w.buf = <<>>)
  BY <1>2 DEF PartSent
<1>4. /\ data \in Seq(Symbol) /\ rest \in Seq(Symbol) /\ data \o rest = w.buf \o w.left
      /\ end => rest = <<>>
  BY <1>1, <1>3, ChunkMoves
<1>5. PICK sent \in Seq(Symbol) :
        w.body = sent \o (w.buf \o w.left) /\ Became(p, w, sent, w.out)
  BY <1>2 DEF PartSent
<1>6. w.body = sent \o (data \o rest)
  <2> HIDE DEF data, rest, w
  <2> QED BY <1>4, <1>5, Zenon
<1>7. CASE Processed(data, end) = {}
  <2>1. r = [w EXCEPT !.buf = data, !.left = rest]
    BY <1>7 DEF ResponseBody, Seen, Rest
  <2>2. Held(p, w)
    BY <1>2, <1>7, HeldUntilEnd
  <2> HIDE DEF w, r, p, data, rest
  <2>3. /\ IsResponse(r) /\ r.pc = w.pc /\ r.active = w.active /\ r.body = w.body
        /\ r.out = w.out /\ r.buf = data /\ r.left = rest
    BY <1>2, <2>1 DEF IsResponse, ResponseFields
  <2>4. Held(p, r) /\ Became(p, r, sent, r.out)
    BY <1>5, <2>2, <2>3 DEF Held, Became
  <2>5. r.body = sent \o (r.buf \o r.left)
    BY <1>6, <2>3, Zenon
  <2>6. PartSent(p, r)
    BY <1>4, <2>3, <2>4, <2>5 DEF PartSent
  <2> QED BY <1>1, <1>2, <2>3, <2>6 DEF IntactInv, r, p
<1>8. ASSUME NEW new \in Processed(data, end),
             r = [w EXCEPT !.buf = <<>>, !.left = rest, !.out = w.out \o new,
                           !.chunk = [in |-> data, out |-> new],
                           !.pc = IF end THEN "ended" ELSE "body"]
      PROVE  IntactInv'
  <2>1. Held(p, w) => end
    BY <1>2, <1>8, HeldUntilEnd
  <2>2. ASSUME ~Held(p, w) PROVE Became(p, w, sent \o data, w.out \o new)
    <3>1. data \in Seq(Symbol) /\ Became(p, w, sent, w.out) /\ p.name \in BodyPluginNames
      BY <1>2, <1>4, <1>5
    <3> HIDE DEF data
    <3> QED BY <2>2, <3>1, ChunkPasses
  <2>3. ASSUME Held(p, w), NEW q, q.body = data, q.out = new, q.active = w.active
        PROVE  AllDelivered(p, q) /\ new \in Seq(Range(new))
    <3>1. data \in Seq(Symbol) /\ PluginOK(p)
      BY <1>2, <1>4
    <3> HIDE DEF data
    <3> QED BY <2>3, <3>1, HeldProcessed
  <2> HIDE DEF w, r, p, data, rest
  <2>4. /\ IsResponse(r) /\ r.pc = IF end THEN "ended" ELSE "body"
        /\ r.out = w.out \o new /\ r.buf = <<>> /\ r.left = rest
        /\ r.body = w.body /\ r.active = w.active
    BY <1>2, <1>8 DEF IsResponse, ResponseFields
  <2>5. ASSUME Held(p, w) PROVE IntactInv'
    <3>1. end /\ rest = <<>>
      BY <1>4, <2>1, <2>5
    <3>2. sent = <<>> /\ w.out = <<>>
      BY <1>5, <2>5 DEF Became
    <3>3. data \o <<>> = data /\ <<>> \o data = data
      BY <1>4, NoMore
    <3>4. r.body = data
      BY <1>6, <2>4, <3>1, <3>2, <3>3, Zenon
    <3>5. r.out = <<>> \o new
      BY <2>4, <3>2, Zenon
    <3>6. new \in Seq(Range(new))
      <4>1. PICK q : q = [body |-> data, out |-> new, active |-> w.active]
        OBVIOUS
      <4> QED BY <2>3, <2>5, <4>1
    <3>7. r.out = new
      BY <3>5, <3>6, NoMore
    <3>8. AllDelivered(p, r)
      BY <2>3, <2>4, <2>5, <3>4, <3>7
    <3> QED BY <1>1, <1>2, <2>4, <3>1, <3>8 DEF IntactInv, r, p
  <2>6. ASSUME ~Held(p, w) PROVE IntactInv'
    <3> DEFINE now == sent \o data
    <3>1. now \in Seq(Symbol)
      BY <1>4, ConcatLength
    <3>2. now \o rest = w.body
      <4>1. (sent \o data) \o rest = sent \o (data \o rest)
        BY <1>4, ConcatOrder, Zenon
      <4> QED BY <1>6, <4>1, Zenon
    <3>3. Became(p, r, now, r.out) /\ ~Held(p, r)
      <4>1. Became(p, w, now, r.out)
        BY <2>2, <2>4, <2>6, Zenon
      <4> HIDE DEF now
      <4> QED BY <2>4, <2>6, <4>1 DEF Became, Held
    <3> HIDE DEF now
    <3>4. CASE end
      <4>1. now \o <<>> = now
        BY <3>1, NoMore
      <4>2. r.body = now
        BY <1>4, <2>4, <3>2, <3>4, <4>1, Zenon
      <4>3. r.body \in Seq(Symbol) /\ Became(p, r, r.body, r.out)
        BY <3>1, <3>3, <4>2
      <4>4. AllDelivered(p, r)
        BY <1>2, <3>3, <4>3, PassedThrough
      <4> QED BY <1>1, <1>2, <2>4, <3>4, <4>4 DEF IntactInv, r, p
    <3>5. CASE ~end
      <4>1. <<>> \o rest = rest
        BY <1>4, NoMore
      <4>2. r.body = now \o (r.buf \o r.left)
        BY <2>4, <3>2, <4>1, Zenon
      <4>3. r.buf \in Seq(Symbol)
        BY <2>4
      <4>4. PartSent(p, r)
        BY <1>4, <2>4, <3>1, <3>3, <4>2, <4>3 DEF PartSent
      <4> QED BY <1>1, <1>2, <2>4, <3>5, <4>4 DEF IntactInv, r, p
    <3> QED BY <3>4, <3>5
  <2> QED BY <2>5, <2>6
<1>9. CASE Processed(data, end) # {}
  <2>1. \E new \in Processed(data, end) :
          r = [w EXCEPT !.buf = <<>>, !.left = rest, !.out = w.out \o new,
                        !.chunk = [in |-> data, out |-> new],
                        !.pc = IF end THEN "ended" ELSE "body"]
    BY <1>9 DEF ResponseBody, Seen, Rest
  <2> HIDE DEF w, r, data, rest
  <2> QED BY <1>8, <2>1
<1> QED BY <1>7, <1>9

\* At every step of a response nothing of its body is missing, and at the end it
\* is there with what the plugin puts in, both for the plugins whose onResponseBody
\* waits for the end and for those that let each chunk pass.
THEOREM IntactInvariant == BodySpec => []IntactInv
<1>1. BodyInit => IntactInv
  BY DEF BodyInit, IntactInv, NoPlugin, PluginOK
<1>2. IntactInv /\ [BodyNext]_bodyVars => IntactInv'
  <2> SUFFICES ASSUME IntactInv, [BodyNext]_bodyVars PROVE IntactInv'
    OBVIOUS
  <2>1. CASE LoadBodyPlugin
    BY <2>1, IntactLoad
  <2>2. CASE \E html, ad_request, checked \in BOOLEAN :
               /\ bodyPlugin.name \in DOMAIN Bodies
               /\ \E body \in Bodies[bodyPlugin.name],
                     value \in HeaderValues[bodyPlugin.name] :
                    ResponseHeaders(body, value, html, ad_request, checked)
    BY <2>2, IntactHeaders
  <2>3. CASE \E end \in BOOLEAN :
               response.pc = "body" /\ \E n \in 0..Len(response.left) :
                 ResponseBody(n, end)
    BY <2>3, IntactBody
  <2>4. CASE ResponseTrailers
    BY <2>4, IntactTrailers
  <2>5. CASE UNCHANGED bodyVars
    BY <2>5 DEF bodyVars, IntactInv
  <2> QED BY <2>1, <2>2, <2>3, <2>4, <2>5 DEF BodyNext
<1> QED BY <1>1, <1>2, PTL DEF BodySpec

\* Nothing of the origin's body is lost, doubled or moved by any of the plugins,
\* for every body, wherever it is cut into chunks and whether its last chunk or
\* trailers end it (onResponseBody of the four plugins).
THEOREM BodyIntactTheorem == BodySpec => []BodyIntact
<1>1. IntactInv => BodyIntact
  <2> SUFFICES ASSUME IntactInv, response.pc = "ended" PROVE BodyIntact
    BY DEF BodyIntact, Ended
  <2>1. AllDelivered(bodyPlugin, response)
    BY DEF IntactInv
  <2>2. CASE bodyPlugin.name = "check_pii"
    <3>1. Masks(response.body, response.out)
      BY <2>1, <2>2 DEF AllDelivered
    <3>2. /\ response.out \in Seq(Symbol) /\ Len(response.out) = Len(response.body)
          /\ \A i \in 1..Len(response.body) :
               response.out[i] \in MaskOf(response.body[i])
      BY <3>1 DEF Masks
    <3>3. DOMAIN response.out = 1..Len(response.body)
      BY <3>2
    <3> QED BY <2>2, <3>2, <3>3 DEF BodyIntact, MaskOf
  <2>3. CASE bodyPlugin.name # "check_pii"
    BY <2>1, <2>3 DEF AllDelivered, BodyIntact
  <2> QED BY <2>2, <2>3
<1> QED BY <1>1, IntactInvariant, PTL

\* Each ad stands at its marker once and each URL is followed by its own token, for
\* every body, configuration and cut into chunks: processBodyWithGAM and the loop
\* of cdn_token_generator insert from the last place to the first, and only into a
\* body that is complete.
THEOREM InsertionsInPlaceTheorem == BodySpec => []InsertionsInPlace
<1>1. IntactInv => InsertionsInPlace
  <2> DEFINE b == response.body
             E == Expected(response.body)
  <2> SUFFICES ASSUME IntactInv, response.pc = "ended", ~response.by_trailers,
                      bodyPlugin.name \in {"ad_insertion", "cdn_token_generator"}
               PROVE  Placed(response.out) = E
                        /\ Len(response.out) = Len(b) + Cardinality(E)
    BY DEF InsertionsInPlace, Ended
  <2>1. AllDelivered(bodyPlugin, response)
    BY DEF IntactInv
  <2>2. ASSUME bodyPlugin.name = "ad_insertion", response.active
        PROVE  Complete(b, E, response.out)
    <3>1. E = Insertions(b, bodyPlugin.root)
      BY <2>2 DEF Expected
    <3> QED BY <2>1, <2>2, <3>1 DEF AllDelivered
  <2>3. ASSUME bodyPlugin.name = "ad_insertion", ~response.active
        PROVE  Complete(b, E, response.out)
    <3>1. E = {}
      BY <2>3 DEF Expected
    <3> QED BY <2>1, <2>3, <3>1 DEF AllDelivered
  <2>4. ASSUME bodyPlugin.name = "cdn_token_generator", Len(b) <= kMaxBodySize
        PROVE  Complete(b, E, response.out)
    <3>1. E = TokensExpected(b, bodyPlugin.expiry)
      BY <2>4 DEF Expected, TokensExpected, TokenSpot, TokenFor
    <3> QED BY <2>1, <2>4, <3>1 DEF AllDelivered
  <2>5. ASSUME bodyPlugin.name = "cdn_token_generator", ~(Len(b) <= kMaxBodySize)
        PROVE  Complete(b, E, response.out)
    <3>1. E = {}
      BY <2>5 DEF Expected
    <3> QED BY <2>1, <2>5, <3>1 DEF AllDelivered
  <2>6. Complete(b, E, response.out)
    BY <2>2, <2>3, <2>4, <2>5
  <2> QED BY <2>6 DEF Complete
<1> QED BY <1>1, IntactInvariant, PTL

\* A text that is too short for a match stays as it is.
LEMMA ShortIsKept ==
    ASSUME NEW text \in Seq(Symbol), Len(text) = 1
    PROVE  maskPII(text) = text
<1>1. ASSUME NEW pattern, Len(pattern) \in Nat, Len(pattern) > 1, NEW kept
      PROVE  GlobalReplace(text, pattern, kept) = text
  <2>1. PICK f : /\ GlobalReplace(text, pattern, kept) = f[1]
                 /\ IsReplaceLoop(text, pattern, kept, f)
    BY <1>1, ReplaceLoop
  <2>2. f[1] = ReplacedAt(text, pattern, kept, f, 1)
    BY <2>1 DEF IsReplaceLoop
  <2>3. f[1] = SubSeq(text, 1, Len(text))
    BY <1>1, <2>2 DEF ReplacedAt
  <2>4. SubSeq(text, 1, Len(text)) = text
    OBVIOUS
  <2> QED BY <2>1, <2>3, <2>4
<1>2. Len(Card) = 7 /\ Len(Code) = 3
  BY DEF Card, Code, CodeLength
<1>3. GlobalReplace(text, Card, 1) = text /\ GlobalReplace(text, Code, CodeKept) = text
  <2>1. Len(Card) \in Nat /\ Len(Card) > 1 /\ Len(Code) \in Nat /\ Len(Code) > 1
    BY <1>2
  <2> QED BY <1>1, <2>1
<1> QED BY <1>3 DEF maskPII

\* A Content-Length that is forwarded is true and legible, wherever the origin cuts
\* the body into chunks and whatever is masked in them, except for the two cases of
\* Stale: ad_insertion removes the header of every page it may change before it has
\* seen the page, the masks of check_pii are as long as what they hide, and the
\* other two may leave the body as it is.
THEOREM ContentLengthTrueTheorem == BodySpec => []ContentLengthTrue
<1>1. BodyInv /\ IntactInv => ContentLengthTrue
  <2> DEFINE body == response.body
             out == response.out
             name == bodyPlugin.name
  <2> SUFFICES ASSUME BodyInv, IntactInv, response.pc = "ended",
                      NEW length \in response.content_length, ~Stale(length)
               PROVE  length.number = Len(out) /\ length.text = Numeral(length.number)
    BY DEF ContentLengthTrue, Ended
  <2>1. ResponseOK(name, response) /\ AllDelivered(bodyPlugin, response)
    BY DEF BodyInv, IntactInv
  <2>2. name \in BodyPluginNames
    BY DEF IntactInv
  <2>3. length = LengthSent(name, body)
    BY <2>1 DEF ResponseOK
  <2>4. length.number = Len(body)
    BY <2>3 DEF LengthSent
  <2>5. CASE PassedOn(name, response)
    <3>1. /\ response.left = <<>> /\ out \in Seq(Symbol)
          /\ Len(out) + Len(response.left) = Len(body)
      BY <2>1, <2>5 DEF ResponseOK, Streamed
    <3>2. Len(body) = Len(out)
      BY <3>1
    <3>3. ASSUME name = "check_pii" PROVE maskPII(Numeral(Len(body))) = Numeral(Len(body))
      <4>1. Len(body) < LeastCode
        BY <2>4, <3>1, <3>2, <3>3 DEF Stale, LeastCode
      <4>2. PICK d : d = <<"d">> /\ DOMAIN d = 1..1 /\ d[1] = "d"
        <5>1. DOMAIN <<"d">> = 1..1 /\ <<"d">>[1] = "d"
          OBVIOUS
        <5> QED BY <5>1, Zenon
      <4>3. Numeral(Len(body)) = Symbols(d)
        BY <4>1, <4>2 DEF Numeral
      <4>4. Symbols(d) \in [1..1 -> Symbol]
        BY <4>2 DEF Symbols, Symbol
      <4>5. Symbols(d) \in Seq(Symbol) /\ Len(Symbols(d)) = 1
        <5>1. \A n \in Nat : \A t \in [1..n -> Symbol] : t \in Seq(Symbol) /\ Len(t) = n
          OBVIOUS
        <5>2. 1 \in Nat
          OBVIOUS
        <5> QED BY <4>4, <5>1, <5>2, Zenon
      <4> QED BY <4>3, <4>5, ShortIsKept
    <3>4. length.text = Numeral(Len(body))
      BY <2>3, <3>3 DEF LengthSent
    <3> QED BY <2>4, <3>2, <3>4
  <2>6. CASE name \in {"cdn_token_generator", "body_chunking"}
    <3>1. \A i \in DOMAIN out : IsOrigin(out[i])
      BY <2>6 DEF Stale
    <3>2. out \in Seq(Range(out)) /\ WithoutInsertions(out) = body
      BY <2>1, <2>6 DEF AllDelivered
    <3>3. {x \in Range(out) : IsOrigin(x)} = Range(out)
      BY <3>1 DEF Range
    <3>4. WithoutInsertions(out) = Filter(out, Range(out))
      BY <3>3 DEF WithoutInsertions
    <3>5. out = body
      BY <3>2, <3>4, FilterAll
    <3>6. length.text = Numeral(Len(body))
      BY <2>3, <2>6 DEF LengthSent
    <3> QED BY <2>4, <3>5, <3>6
  <2>7. CASE name = "ad_insertion" /\ response.active
    BY <2>1, <2>7 DEF ResponseOK
  <2> QED BY <2>1, <2>2, <2>5, <2>6, <2>7 DEF PassedOn, BodyPluginNames, ResponseOK
<1> QED BY <1>1, BodyInvariant, IntactInvariant, PTL
=============================================================================
