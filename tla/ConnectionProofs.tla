---------------------------- MODULE ConnectionProofs ----------------------------
(***************************************************************************)
(* Proofs about module Connection, for any finite number of connections,   *)
(* any number of messages, and as many streams as `new' is asked for.      *)
(*                                                                         *)
(* First what ToSet, IsInjective and FlattenSeq make of a sequence that    *)
(* grows or shrinks at an end; then that a stream has one owner, which     *)
(* holds however the threads meet; then, as long as they do not meet, that *)
(* what is written is sent once and in order.                              *)
(***************************************************************************)
EXTENDS Connection, FiniteSetTheorems, SequenceTheorems, WellFoundedInduction, TLAPS

------------------------------------------------------------------------------
(* Sequences *)

\* A set of natural numbers that is not empty has a least element.
LEMMA LeastNumber ==
  ASSUME NEW I \in SUBSET Nat, I # {}
  PROVE  \E x \in I : \A y \in I : x <= y
<1> DEFINE T == {1 .. i : i \in I}
<1>1. T \subseteq FiniteSubsetsOf(Nat) /\ T # {}
  <2>1. ASSUME NEW i \in I PROVE 1 .. i \in SUBSET Nat /\ IsFiniteSet(1 .. i)
    BY FS_Interval
  <2>2. QED
    BY <2>1 DEF FiniteSubsetsOf
<1>2. PICK X \in T : \A Y \in T : ~(<<Y, X>> \in StrictSubsetOrdering(Nat))
  <2> HIDE DEF T
  <2>1. QED
    BY <1>1, FS_StrictSubsetOrderingWellFounded, WFMin
<1>3. PICK x \in I : X = 1 .. x
  OBVIOUS
<1>4. ASSUME NEW y \in I PROVE x <= y
  <2>1. ~(<<1 .. y, 1 .. x>> \in StrictSubsetOrdering(Nat))
    BY <1>2, <1>3
  <2>2. ~(1 .. y \subseteq 1 .. x /\ 1 .. y # 1 .. x)
    BY <2>1 DEF StrictSubsetOrdering
  <2>3. CASE y < x
    <3>1. 1 .. y \subseteq 1 .. x
      BY <2>3
    <3>2. x \in 1 .. x /\ x \notin 1 .. y
      BY <2>3
    <3>3. QED
      BY <2>2, <3>1, <3>2
  <2>4. QED
    BY <2>3
<1>5. QED
  BY <1>4

\* What a sequence holds, and that it holds nothing twice, when one is put behind it.
LEMMA AppendedSet ==
  ASSUME NEW S, NEW s \in Seq(S), NEW x \in S
  PROVE  /\ ToSet(Append(s, x)) = ToSet(s) \cup {x}
         /\ IsInjective(s) /\ x \notin ToSet(s) => IsInjective(Append(s, x))
<1>1. /\ Append(s, x) \in Seq(S)
      /\ DOMAIN Append(s, x) = 1 .. Len(s) + 1
      /\ Len(s) \in Nat /\ DOMAIN s = 1 .. Len(s)
      /\ \A k \in 1 .. Len(s) : Append(s, x)[k] = s[k]
      /\ Append(s, x)[Len(s) + 1] = x
  BY AppendProperties, LenProperties
<1> DEFINE t == Append(s, x)
<1> HIDE DEF t
<1>2. ToSet(t) = ToSet(s) \cup {x}
  BY <1>1 DEF ToSet, t
<1>3. ASSUME IsInjective(s), x \notin ToSet(s),
             NEW a \in DOMAIN t, NEW b \in DOMAIN t, t[a] = t[b]
      PROVE  a = b
  <2>1. \A k \in 1 .. Len(s) : t[k] = s[k] /\ t[k] # x
    BY <1>1, <1>3 DEF ToSet, t
  <2>2. /\ a \in 1 .. Len(s) \/ a = Len(s) + 1
        /\ b \in 1 .. Len(s) \/ b = Len(s) + 1
        /\ t[Len(s) + 1] = x
    BY <1>1 DEF t
  <2>3. QED
    BY <1>1, <1>3, <2>1, <2>2 DEF IsInjective
<1>4. QED
  BY <1>2, <1>3 DEF IsInjective, t

\* And when the first one is taken away.
LEMMA TailSet ==
  ASSUME NEW S, NEW s \in Seq(S), s # <<>>
  PROVE  /\ Head(s) \in ToSet(s)
         /\ ToSet(s) = ToSet(Tail(s)) \cup {Head(s)}
         /\ IsInjective(s) => IsInjective(Tail(s)) /\ Head(s) \notin ToSet(Tail(s))
<1>1. /\ Len(s) \in Nat /\ Len(s) # 0 /\ DOMAIN s = 1 .. Len(s)
      /\ Head(s) = s[1]
  BY LenProperties, EmptySeq
<1>2. /\ DOMAIN Tail(s) = 1 .. Len(s) - 1
      /\ \A k \in 1 .. Len(s) - 1 : Tail(s)[k] = s[k + 1]
  BY HeadTailProperties, LenProperties
<1> DEFINE t == Tail(s)
           h == Head(s)
<1>3. /\ DOMAIN t = 1 .. Len(s) - 1 /\ h = s[1]
      /\ \A k \in 1 .. Len(s) - 1 : t[k] = s[k + 1]
  BY <1>1, <1>2
<1> HIDE DEF t, h
<1>4. h \in ToSet(s)
  BY <1>1, <1>3 DEF ToSet
<1>5. ToSet(s) = ToSet(t) \cup {h}
  <2>1. ASSUME NEW k \in 1 .. Len(s) PROVE s[k] = h \/ s[k] \in ToSet(t)
    <3>1. k = 1 \/ (k - 1 \in 1 .. Len(s) - 1 /\ (k - 1) + 1 = k)
      BY <1>1
    <3>2. QED
      BY <1>3, <3>1 DEF ToSet
  <2>2. ASSUME NEW k \in 1 .. Len(s) - 1 PROVE t[k] \in ToSet(s)
    <3>1. k + 1 \in 1 .. Len(s)
      BY <1>1
    <3>2. QED
      BY <1>1, <1>3, <3>1 DEF ToSet
  <2>3. ToSet(s) \subseteq ToSet(t) \cup {h}
    BY <1>1, <2>1 DEF ToSet
  <2>4. ToSet(t) \subseteq ToSet(s)
    BY <1>3, <2>2 DEF ToSet
  <2>5. QED
    BY <1>4, <2>3, <2>4
<1>6. ASSUME IsInjective(s) PROVE IsInjective(t) /\ h \notin ToSet(t)
  <2>1. ASSUME NEW a \in DOMAIN t, NEW b \in DOMAIN t, t[a] = t[b] PROVE a = b
    <3>1. a + 1 \in DOMAIN s /\ b + 1 \in DOMAIN s /\ s[a + 1] = s[b + 1]
      BY <1>1, <1>3, <2>1
    <3>2. a + 1 = b + 1
      BY <1>6, <3>1 DEF IsInjective
    <3>3. QED
      BY <1>3, <3>2
  <2>2. ASSUME NEW a \in DOMAIN t, t[a] = h PROVE FALSE
    <3>1. a + 1 \in DOMAIN s /\ 1 \in DOMAIN s /\ s[a + 1] = s[1]
      BY <1>1, <1>3, <2>2
    <3>2. a + 1 = 1
      BY <1>6, <3>1 DEF IsInjective
    <3>3. QED
      BY <1>3, <3>2
  <2>3. QED
    BY <2>1, <2>2 DEF IsInjective, ToSet
<1>7. QED
  BY <1>4, <1>5, <1>6 DEF t, h

(***************************************************************************)
(* FlattenSeq is a recursive function; what it computes for a list that    *)
(* grows or shrinks at an end is found by looking for the first place      *)
(* where it would be wrong.                                                *)
(***************************************************************************)
Flattens(f, q, n) ==
    f = [i \in 1 .. n |-> IF i = 1 THEN q[i] ELSE f[i - 1] \o q[i]]

\* The recursive equation has one solution.
LEMMA FlattenIsUnique ==
  ASSUME NEW q, NEW n \in Nat, NEW f, NEW g, Flattens(f, q, n), Flattens(g, q, n)
  PROVE  f = g
<1> DEFINE Bad == {i \in 1 .. n : f[i] # g[i]}
<1>1. CASE Bad # {}
  <2>1. PICK i \in Bad : \A j \in Bad : i <= j
    <3>1. Bad \subseteq Nat
      OBVIOUS
    <3> HIDE DEF Bad
    <3>2. QED
      BY <1>1, <3>1, LeastNumber
  <2>2. i \in 1 .. n /\ i \in Nat
    OBVIOUS
  <2>3. i # 1 => f[i - 1] = g[i - 1]
    <3>1. i # 1 => i - 1 \in 1 .. n /\ ~(i <= i - 1)
      BY <2>2
    <3>2. QED
      BY <2>1, <3>1
  <2>4. f[i] = IF i = 1 THEN q[i] ELSE f[i - 1] \o q[i]
    BY <2>2 DEF Flattens
  <2>5. g[i] = IF i = 1 THEN q[i] ELSE g[i - 1] \o q[i]
    BY <2>2 DEF Flattens
  <2>6. QED
    BY <2>3, <2>4, <2>5
<1>2. CASE Bad = {}
  <2>1. \A i \in 1 .. n : f[i] = g[i]
    BY <1>2
  <2>2. f = [i \in 1 .. n |-> f[i]] /\ g = [i \in 1 .. n |-> g[i]]
    BY DEF Flattens
  <2>3. QED
    BY <2>1, <2>2
<1>3. QED
  BY <1>1, <1>2

\* Any function with the recursive equation is the one FlattenSeq uses.
LEMMA FlattenIs ==
  ASSUME NEW q, NEW f, Len(q) \in Nat, Len(q) # 0, Flattens(f, q, Len(q))
  PROVE  FlattenSeq(q) = f[Len(q)]
<1> DEFINE c == CHOOSE g : Flattens(g, q, Len(q))
<1>1. Flattens(c, q, Len(q))
  OBVIOUS
<1>2. c = f
  <2> HIDE DEF c
  <2>1. QED
    BY <1>1, FlattenIsUnique
<1>3. FlattenSeq(q) = c[Len(q)]
  BY DEF FlattenSeq, Flattens
<1>4. QED
  BY <1>2, <1>3

\* And it has one, whose values are sequences.
LEMMA FlattenExists ==
  ASSUME NEW M, NEW q \in Seq(Seq(M)), NEW n \in 0 .. Len(q)
  PROVE  \E f \in [1 .. n -> Seq(M)] : Flattens(f, q, n)
<1> DEFINE Good(k) == \E f \in [1 .. k -> Seq(M)] : Flattens(f, q, k)
           Bad == {k \in 0 .. Len(q) : ~Good(k)}
<1>0. Len(q) \in Nat
  BY LenProperties
<1> SUFFICES ASSUME Bad # {} PROVE FALSE
  OBVIOUS
<1>1. PICK k \in Bad : \A j \in Bad : k <= j
  <2>1. Bad \subseteq Nat
    OBVIOUS
  <2> HIDE DEF Bad
  <2>2. QED
    BY <2>1, LeastNumber
<1>2. k \in Nat /\ k \in 0 .. Len(q)
  OBVIOUS
<1>3. k # 0
  <2>1. Good(0)
    <3> DEFINE f == [i \in 1 .. 0 |-> <<>>]
    <3>1. f \in [1 .. 0 -> Seq(M)] /\ Flattens(f, q, 0)
      BY DEF Flattens
    <3>2. QED
      BY <3>1
  <2>2. QED
    BY <2>1
<1>4. PICK f \in [1 .. k - 1 -> Seq(M)] : Flattens(f, q, k - 1)
  <2>1. k - 1 \in 0 .. Len(q) /\ ~(k <= k - 1)
    BY <1>0, <1>2, <1>3
  <2>2. QED
    BY <1>1, <2>1
<1> DEFINE g == [i \in 1 .. k |-> IF i = k THEN IF k = 1 THEN q[k] ELSE f[k - 1] \o q[k]
                                  ELSE f[i]]
<1>5. \A i \in 1 .. k : i \in 1 .. Len(q) /\ q[i] \in Seq(M)
  BY <1>0, <1>2, ElementOfSeq
<1>6. g \in [1 .. k -> Seq(M)]
  <2>1. k # 1 => k - 1 \in 1 .. k - 1
    BY <1>2, <1>3
  <2>2. q[k] \in Seq(M) /\ (k # 1 => f[k - 1] \o q[k] \in Seq(M))
    BY <1>2, <1>3, <1>5, <2>1, ConcatProperties
  <2>3. \A i \in 1 .. k : i # k => f[i] \in Seq(M)
    BY <1>2
  <2>4. QED
    BY <2>2, <2>3
<1>7. ASSUME NEW i \in 1 .. k PROVE g[i] = IF i = 1 THEN q[i] ELSE g[i - 1] \o q[i]
  <2>1. CASE i = k
    <3>1. k # 1 => k - 1 \in 1 .. k /\ k - 1 # k
      BY <1>2, <1>3
    <3>2. k # 1 => g[k - 1] = f[k - 1]
      BY <3>1
    <3>3. QED
      BY <2>1, <3>2
  <2>2. CASE i # k
    <3>1. i \in 1 .. k - 1
      BY <1>2, <2>2
    <3>2. f[i] = IF i = 1 THEN q[i] ELSE f[i - 1] \o q[i]
      BY <1>4, <3>1 DEF Flattens
    <3>3. i # 1 => i - 1 \in 1 .. k /\ i - 1 # k
      BY <1>2, <3>1
    <3>4. QED
      BY <2>2, <3>2, <3>3
  <2>3. QED
    BY <2>1, <2>2
<1>8. Flattens(g, q, k)
  <2>1. g = [i \in 1 .. k |-> g[i]]
    OBVIOUS
  <2> HIDE DEF g
  <2>2. QED
    BY <1>7, <2>1 DEF Flattens
<1>9. QED
  BY <1>1, <1>6, <1>8

\* What a list of sequences flattens to when one is put behind it.
LEMMA FlattenAppend ==
  ASSUME NEW M, NEW q \in Seq(Seq(M)), NEW x \in Seq(M)
  PROVE  FlattenSeq(Append(q, x)) = FlattenSeq(q) \o x /\ FlattenSeq(q) \in Seq(M)
<1>0. /\ Append(q, x) \in Seq(Seq(M)) /\ Len(q) \in Nat
      /\ Len(Append(q, x)) = Len(q) + 1 /\ Append(q, x)[Len(q) + 1] = x
      /\ \A k \in 1 .. Len(q) : Append(q, x)[k] = q[k]
  BY AppendProperties, LenProperties
<1>1. PICK f \in [1 .. Len(q) -> Seq(M)] : Flattens(f, q, Len(q))
  <2>1. Len(q) \in 0 .. Len(q)
    BY <1>0
  <2>2. QED
    BY <2>1, FlattenExists
<1> DEFINE n == Len(q) + 1
           y == IF n = 1 THEN x ELSE f[n - 1] \o x
           g == [i \in 1 .. n |-> IF i = n THEN y ELSE f[i]]
           r == Append(q, x)
<1>2. ASSUME NEW i \in 1 .. n PROVE g[i] = IF i = 1 THEN r[i] ELSE g[i - 1] \o r[i]
  <2>1. CASE i = n
    <3>1. n # 1 => n - 1 \in 1 .. n /\ n - 1 # n
      BY <1>0
    <3>2. n # 1 => g[n - 1] = f[n - 1]
      BY <3>1
    <3>3. QED
      BY <1>0, <2>1, <3>2
  <2>2. CASE i # n
    <3>1. i \in 1 .. Len(q)
      BY <1>0, <2>2
    <3>2. f[i] = IF i = 1 THEN q[i] ELSE f[i - 1] \o q[i]
      BY <1>1, <3>1 DEF Flattens
    <3>3. i # 1 => i - 1 \in 1 .. n /\ i - 1 # n
      BY <1>0, <3>1
    <3>4. QED
      BY <1>0, <2>2, <3>1, <3>2, <3>3
  <2>3. QED
    BY <2>1, <2>2
<1>3. Flattens(g, r, n)
  <2>1. g = [i \in 1 .. n |-> g[i]]
    OBVIOUS
  <2> HIDE DEF g, r, n
  <2>2. QED
    BY <1>2, <2>1 DEF Flattens
<1>4. n = Len(r) /\ n \in Nat /\ n # 0 /\ n \in 1 .. n
  BY <1>0
<1>5. FlattenSeq(r) = g[n] /\ g[n] = y
  <2>1. g[n] = y
    BY <1>4
  <2> HIDE DEF g, r, n, y
  <2>2. QED
    BY <1>3, <1>4, <2>1, FlattenIs
<1>6. CASE Len(q) = 0
  <2>1. q = <<>> /\ FlattenSeq(q) = q
    BY <1>6, EmptySeq DEF FlattenSeq
  <2>2. FlattenSeq(r) = x
    BY <1>5, <1>6
  <2>3. QED
    BY <2>1, <2>2, ConcatEmptySeq, EmptySeq
<1>7. CASE Len(q) # 0
  <2>1. FlattenSeq(q) = f[Len(q)]
    BY <1>0, <1>1, <1>7, FlattenIs
  <2>2. y = f[Len(q)] \o x
    BY <1>0, <1>7
  <2>3. f[Len(q)] \in Seq(M)
    <3>1. Len(q) \in 1 .. Len(q)
      BY <1>0, <1>7
    <3>2. QED
      BY <1>1, <3>1
  <2>4. QED
    BY <1>5, <2>1, <2>2, <2>3
<1>8. QED
  BY <1>6, <1>7

\* And when the first one is taken away.
LEMMA FlattenTail ==
  ASSUME NEW M, NEW q \in Seq(Seq(M)), q # <<>>
  PROVE  FlattenSeq(q) = Head(q) \o FlattenSeq(Tail(q))
<1>0. /\ Len(q) \in Nat /\ Len(q) # 0 /\ Head(q) = q[1]
      /\ Tail(q) \in Seq(Seq(M)) /\ Len(Tail(q)) = Len(q) - 1
      /\ \A k \in 1 .. Len(q) - 1 : Tail(q)[k] = q[k + 1]
      /\ \A k \in 1 .. Len(q) : q[k] \in Seq(M)
  BY LenProperties, EmptySeq, HeadTailProperties, ElementOfSeq
<1> DEFINE n == Len(q)
           r == Tail(q)
<1>1. PICK f \in [1 .. n - 1 -> Seq(M)] : Flattens(f, r, n - 1)
  <2>1. n - 1 \in 0 .. Len(r)
    BY <1>0
  <2>2. QED
    BY <1>0, <2>1, FlattenExists
<1> DEFINE g == [i \in 1 .. n |-> IF i = 1 THEN q[1] ELSE q[1] \o f[i - 1]]
<1>2. ASSUME NEW i \in 1 .. n PROVE g[i] = IF i = 1 THEN q[i] ELSE g[i - 1] \o q[i]
  <2>1. CASE i = 1
    BY <2>1
  <2>2. CASE i # 1
    <3>1. i - 1 \in 1 .. n - 1 /\ i - 1 \in 1 .. n /\ (i - 1) + 1 = i
      BY <1>0, <2>2
    <3>2. f[i - 1] = IF i - 1 = 1 THEN r[i - 1] ELSE f[i - 1 - 1] \o r[i - 1]
      BY <1>1, <3>1 DEF Flattens
    <3>3. r[i - 1] = q[i]
      BY <1>0, <3>1
    <3>4. g[i - 1] = IF i - 1 = 1 THEN q[1] ELSE q[1] \o f[i - 1 - 1]
      BY <3>1
    <3>5. g[i] = q[1] \o f[i - 1]
      BY <2>2
    <3>6. CASE i - 1 = 1
      BY <2>2, <3>2, <3>3, <3>4, <3>5, <3>6
    <3>7. CASE i - 1 # 1
      <4>1. i - 1 - 1 \in 1 .. n - 1
        BY <3>1, <3>7
      <4>2. f[i - 1 - 1] \in Seq(M) /\ q[1] \in Seq(M) /\ q[i] \in Seq(M)
        <5>1. f[i - 1 - 1] \in Seq(M)
          BY <1>1, <4>1
        <5>2. 1 \in 1 .. Len(q) /\ i \in 1 .. Len(q)
          BY <1>0
        <5>3. QED
          BY <1>0, <5>1, <5>2
      <4>3. q[1] \o (f[i - 1 - 1] \o q[i]) = (q[1] \o f[i - 1 - 1]) \o q[i]
        <5>1. ASSUME NEW a \in Seq(M), NEW b \in Seq(M), NEW c \in Seq(M)
              PROVE  (a \o b) \o c = a \o (b \o c)
          BY SMTT(30)
        <5>2. QED
          BY <4>2, <5>1
      <4>4. g[i] = (q[1] \o f[i - 1 - 1]) \o q[i]
        BY <3>2, <3>3, <3>5, <3>7, <4>3
      <4>5. QED
        BY <2>2, <3>4, <3>7, <4>4
    <3>8. QED
      BY <3>6, <3>7
  <2>3. QED
    BY <2>1, <2>2
<1>3. Flattens(g, q, n)
  <2>1. g = [i \in 1 .. n |-> g[i]]
    OBVIOUS
  <2> HIDE DEF g, n
  <2>2. QED
    BY <1>2, <2>1 DEF Flattens
<1>4. FlattenSeq(q) = g[n]
  <2> HIDE DEF g
  <2>1. QED
    BY <1>0, <1>3, FlattenIs
<1>5. CASE n = 1
  <2>1. r = <<>> /\ FlattenSeq(r) = r
    <3>1. Len(r) = 0
      BY <1>0, <1>5
    <3>2. r = <<>>
      <4> HIDE DEF r
      <4>1. QED
        BY <1>0, <3>1, EmptySeq
    <3>3. QED
      BY <3>1, <3>2 DEF FlattenSeq
  <2>2. g[n] = q[1]
    BY <1>5
  <2>3. q[1] \in Seq(M)
    BY <1>0
  <2>4. QED
    BY <1>0, <1>4, <2>1, <2>2, <2>3, ConcatEmptySeq
<1>6. CASE n # 1
  <2>1. FlattenSeq(r) = f[n - 1]
    <3>1. Len(r) = n - 1 /\ n - 1 \in Nat /\ n - 1 # 0
      BY <1>0, <1>6
    <3> HIDE DEF n, r
    <3>2. QED
      BY <1>1, <3>1, FlattenIs
  <2>2. g[n] = q[1] \o f[n - 1]
    <3>1. n \in 1 .. n
      BY <1>0
    <3>2. QED
      BY <1>6, <3>1
  <2>3. QED
    BY <1>0, <1>4, <2>1, <2>2
<1>7. QED
  BY <1>5, <1>6

------------------------------------------------------------------------------
(* The streams and the bytes of the operations under way *)

Sendable == [to : Conn, n : Nat]
AnyOperation == [stream : Stream, rest : Seq(Sendable)]

StreamsOf(ops) == [i \in DOMAIN ops |-> ops[i].stream]
RestsOf(ops) == [i \in DOMAIN ops |-> ops[i].rest]

\* Both are sequences.
LEMMA PartsAreSeqs ==
  ASSUME NEW q \in Seq(AnyOperation)
  PROVE  StreamsOf(q) \in Seq(Stream) /\ RestsOf(q) \in Seq(Seq(Sendable))
<1>1. Len(q) \in Nat /\ DOMAIN q = 1 .. Len(q) /\ \A i \in 1 .. Len(q) : q[i] \in AnyOperation
  BY LenProperties, ElementOfSeq
<1>2. \A i \in 1 .. Len(q) : q[i].stream \in Stream /\ q[i].rest \in Seq(Sendable)
  BY <1>1 DEF AnyOperation
<1>3. QED
  BY <1>1, <1>2, IsASeq DEF StreamsOf, RestsOf

\* An async_write is started.
LEMMA PartsOfAppend ==
  ASSUME NEW q \in Seq(AnyOperation), NEW o \in AnyOperation
  PROVE  /\ StreamsOf(Append(q, o)) = Append(StreamsOf(q), o.stream)
         /\ RestsOf(Append(q, o)) = Append(RestsOf(q), o.rest)
<1>1. /\ Append(q, o) \in Seq(AnyOperation) /\ Len(q) \in Nat
      /\ DOMAIN q = 1 .. Len(q) /\ DOMAIN Append(q, o) = 1 .. Len(q) + 1
      /\ \A k \in 1 .. Len(q) : Append(q, o)[k] = q[k]
      /\ Append(q, o)[Len(q) + 1] = o
  BY AppendProperties, LenProperties
<1>2. /\ StreamsOf(q) \in Seq(Stream) /\ RestsOf(q) \in Seq(Seq(Sendable))
      /\ o.stream \in Stream /\ o.rest \in Seq(Sendable)
      /\ Len(StreamsOf(q)) = Len(q) /\ Len(RestsOf(q)) = Len(q)
  <2>1. StreamsOf(q) \in Seq(Stream) /\ RestsOf(q) \in Seq(Seq(Sendable))
    BY PartsAreSeqs
  <2>2. DOMAIN StreamsOf(q) = 1 .. Len(q) /\ DOMAIN RestsOf(q) = 1 .. Len(q)
    BY <1>1 DEF StreamsOf, RestsOf
  <2>3. QED
    BY <1>1, <2>1, <2>2, LenProperties DEF AnyOperation
<1> DEFINE r == Append(q, o)
           n == Len(q) + 1
<1>3. ASSUME NEW i \in 1 .. n
      PROVE  /\ StreamsOf(r)[i] = Append(StreamsOf(q), o.stream)[i]
             /\ RestsOf(r)[i] = Append(RestsOf(q), o.rest)[i]
  <2>1. StreamsOf(r)[i] = r[i].stream /\ RestsOf(r)[i] = r[i].rest
    BY <1>1 DEF StreamsOf, RestsOf
  <2>2. CASE i = n
    <3>1. /\ Append(StreamsOf(q), o.stream)[n] = o.stream
          /\ Append(RestsOf(q), o.rest)[n] = o.rest
      BY <1>2, AppendProperties
    <3>2. QED
      BY <1>1, <2>1, <2>2, <3>1
  <2>3. CASE i # n
    <3>1. i \in 1 .. Len(q)
      BY <1>1, <2>3
    <3>2. /\ Append(StreamsOf(q), o.stream)[i] = StreamsOf(q)[i]
          /\ Append(RestsOf(q), o.rest)[i] = RestsOf(q)[i]
      BY <1>2, <3>1, AppendProperties
    <3>3. StreamsOf(q)[i] = q[i].stream /\ RestsOf(q)[i] = q[i].rest /\ r[i] = q[i]
      BY <1>1, <3>1 DEF StreamsOf, RestsOf
    <3>4. QED
      BY <2>1, <3>2, <3>3
  <2>4. QED
    BY <2>2, <2>3
<1>4. /\ StreamsOf(r) \in Seq(Stream) /\ RestsOf(r) \in Seq(Seq(Sendable))
      /\ Append(StreamsOf(q), o.stream) \in Seq(Stream)
      /\ Append(RestsOf(q), o.rest) \in Seq(Seq(Sendable))
  BY <1>1, <1>2, PartsAreSeqs, AppendProperties
<1>5. /\ Len(StreamsOf(r)) = n /\ Len(RestsOf(r)) = n
      /\ Len(Append(StreamsOf(q), o.stream)) = n /\ Len(Append(RestsOf(q), o.rest)) = n
  <2>1. DOMAIN StreamsOf(r) = 1 .. n /\ DOMAIN RestsOf(r) = 1 .. n
    BY <1>1 DEF StreamsOf, RestsOf
  <2>2. QED
    BY <1>1, <1>2, <1>4, <2>1, AppendProperties, LenProperties
<1>6. QED
  <2> HIDE DEF r, n
  <2>1. StreamsOf(r) = Append(StreamsOf(q), o.stream)
    BY <1>3, <1>4, <1>5, SeqEqual
  <2>2. RestsOf(r) = Append(RestsOf(q), o.rest)
    BY <1>3, <1>4, <1>5, SeqEqual
  <2>3. QED
    BY <2>1, <2>2 DEF r

\* The first async_write is done.
LEMMA PartsOfTail ==
  ASSUME NEW q \in Seq(AnyOperation), q # <<>>
  PROVE  /\ StreamsOf(q) # <<>> /\ RestsOf(q) # <<>>
         /\ StreamsOf(Tail(q)) = Tail(StreamsOf(q)) /\ Head(q).stream = Head(StreamsOf(q))
         /\ RestsOf(Tail(q)) = Tail(RestsOf(q)) /\ Head(q).rest = Head(RestsOf(q))
<1>1. /\ Tail(q) \in Seq(AnyOperation) /\ Len(q) \in Nat /\ Len(q) # 0 /\ Head(q) = q[1]
      /\ DOMAIN q = 1 .. Len(q) /\ DOMAIN Tail(q) = 1 .. Len(q) - 1
      /\ \A k \in 1 .. Len(q) - 1 : Tail(q)[k] = q[k + 1]
  BY HeadTailProperties, LenProperties, EmptySeq
<1>2. /\ StreamsOf(q) \in Seq(Stream) /\ RestsOf(q) \in Seq(Seq(Sendable))
      /\ Len(StreamsOf(q)) = Len(q) /\ Len(RestsOf(q)) = Len(q)
  <2>1. StreamsOf(q) \in Seq(Stream) /\ RestsOf(q) \in Seq(Seq(Sendable))
    BY PartsAreSeqs
  <2>2. DOMAIN StreamsOf(q) = 1 .. Len(q) /\ DOMAIN RestsOf(q) = 1 .. Len(q)
    BY <1>1 DEF StreamsOf, RestsOf
  <2>3. QED
    BY <1>1, <2>1, <2>2, LenProperties
<1>3. StreamsOf(q) # <<>> /\ RestsOf(q) # <<>>
  BY <1>1, <1>2, EmptySeq
<1>4. Head(StreamsOf(q)) = q[1].stream /\ Head(RestsOf(q)) = q[1].rest
  <2>1. StreamsOf(q)[1] = q[1].stream /\ RestsOf(q)[1] = q[1].rest
    BY <1>1 DEF StreamsOf, RestsOf
  <2>2. Head(StreamsOf(q)) = StreamsOf(q)[1] /\ Head(RestsOf(q)) = RestsOf(q)[1]
    BY <1>2, <1>3
  <2>3. QED
    BY <2>1, <2>2
<1> DEFINE r == Tail(q)
           n == Len(q) - 1
<1>5. /\ Tail(StreamsOf(q)) \in Seq(Stream) /\ Len(Tail(StreamsOf(q))) = n
      /\ \A k \in 1 .. n : Tail(StreamsOf(q))[k] = StreamsOf(q)[k + 1]
  BY <1>2, <1>3, HeadTailProperties
<1>6. /\ Tail(RestsOf(q)) \in Seq(Seq(Sendable)) /\ Len(Tail(RestsOf(q))) = n
      /\ \A k \in 1 .. n : Tail(RestsOf(q))[k] = RestsOf(q)[k + 1]
  BY <1>2, <1>3, HeadTailProperties
<1>7. ASSUME NEW i \in 1 .. n
      PROVE  /\ StreamsOf(r)[i] = Tail(StreamsOf(q))[i]
             /\ RestsOf(r)[i] = Tail(RestsOf(q))[i]
  <2>1. StreamsOf(r)[i] = r[i].stream /\ RestsOf(r)[i] = r[i].rest
    BY <1>1 DEF StreamsOf, RestsOf
  <2>2. i + 1 \in 1 .. Len(q)
    BY <1>1
  <2>3. StreamsOf(q)[i + 1] = q[i + 1].stream /\ RestsOf(q)[i + 1] = q[i + 1].rest
    BY <1>1, <2>2 DEF StreamsOf, RestsOf
  <2>4. QED
    BY <1>1, <1>5, <1>6, <2>1, <2>3
<1>8. /\ StreamsOf(r) \in Seq(Stream) /\ RestsOf(r) \in Seq(Seq(Sendable))
      /\ Len(StreamsOf(r)) = n /\ Len(RestsOf(r)) = n
  <2>1. DOMAIN StreamsOf(r) = 1 .. n /\ DOMAIN RestsOf(r) = 1 .. n
    BY <1>1 DEF StreamsOf, RestsOf
  <2>2. StreamsOf(r) \in Seq(Stream) /\ RestsOf(r) \in Seq(Seq(Sendable))
    BY <1>1, PartsAreSeqs
  <2>3. n \in Nat
    BY <1>1
  <2> HIDE DEF n, r
  <2>4. Len(StreamsOf(r)) = n
    BY <2>1, <2>2, <2>3, LenProperties
  <2>5. Len(RestsOf(r)) = n
    BY <2>1, <2>2, <2>3, LenProperties
  <2>6. QED
    BY <2>2, <2>4, <2>5
<1>9. QED
  <2> HIDE DEF r, n
  <2>1. StreamsOf(r) = Tail(StreamsOf(q))
    BY <1>5, <1>7, <1>8, SeqEqual
  <2>2. RestsOf(r) = Tail(RestsOf(q))
    BY <1>6, <1>7, <1>8, SeqEqual
  <2>3. QED
    BY <1>1, <1>3, <1>4, <2>1, <2>2 DEF r

------------------------------------------------------------------------------
(* Streams have one owner *)

\* The types the proofs need.  (ConnectionTypeOK also bounds the messages'
\* numbers, by a sum over all connections.)
StreamTypeOK ==
    /\ open \subseteq Conn
    /\ stream \in [Conn -> Stream \cup {NoStream}]
    /\ content \in [Stream -> Seq(Sendable)]
    /\ pool \in Seq(Stream)
    /\ sending \in [Conn -> Seq(AnyOperation)]
    /\ sent \in [Conn -> Seq(Stream)]
    /\ wire \in [Conn -> Seq(Sendable)]
    /\ step \in [Thread -> {"idle", "take", "read", "fill"}]
    /\ msg \in [Thread -> Sendable \cup {NoMessage}]
    /\ \A t \in Thread : step[t] # "idle" => msg[t] \in Sendable
    /\ into \in [Thread -> Stream \cup {NoStream}]
    /\ written \in [Conn -> Seq(Sendable)]
    /\ raced \subseteq Conn
    /\ cut \in BOOLEAN

\* A stream is in one write of its connection, which is under way or finished.
OnceEach ==
    \A c \in Conn : /\ IsInjective(StreamsOf(sending[c]))
                    /\ IsInjective(sent[c])
                    /\ Queued(c) \cap ToSet(sent[c]) = {}

OwnInv == StreamTypeOK /\ StreamsApart /\ OnceEach

\* There are finitely many connections, and `new asio::streambuf' always finds
\* memory for one more stream.
MemoryIsUnbounded == IsFiniteSet(Conn) /\ ~IsFiniteSet(Stream)

\* Queued as the set of a sequence.
LEMMA QueuedAreStreams ==
  ASSUME StreamTypeOK, NEW c \in Conn
  PROVE  Queued(c) = ToSet(StreamsOf(sending[c])) /\ Queued(c) \subseteq Stream
<1>1. sending[c] \in Seq(AnyOperation)
  BY DEF StreamTypeOK
<1>2. Queued(c) = ToSet(StreamsOf(sending[c]))
  BY DEF Queued, ToSet, StreamsOf
<1>3. StreamsOf(sending[c]) \in Seq(Stream)
  BY <1>1, PartsAreSeqs
<1>4. ToSet(StreamsOf(sending[c])) \subseteq Stream
  BY <1>3, LenProperties, ElementOfSeq DEF ToSet
<1>5. QED
  BY <1>2, <1>4

\* A sequence holds finitely many things.
LEMMA SeqSetIsFinite ==
  ASSUME NEW S, NEW s \in Seq(S)
  PROVE  IsFiniteSet(ToSet(s))
<1>1. Len(s) \in Nat /\ DOMAIN s = 1 .. Len(s) /\ s \in [1 .. Len(s) -> S]
  BY LenProperties
<1>2. IsFiniteSet(1 .. Len(s))
  BY <1>1, FS_Interval
<1>3. s \in Surjection(1 .. Len(s), ToSet(s))
  BY <1>1 DEF Surjection, ToSet
<1>4. QED
  BY <1>2, <1>3, FS_Surjection

\* `new' finds a stream that nothing refers to.
LEMMA NewStreamIsUnused ==
  ASSUME StreamTypeOK, MemoryIsUnbounded
  PROVE  NewStream \in Stream /\ NewStream \notin InUse
<1>1. IsFiniteSet({stream[c] : c \in Conn})
  <2> DEFINE T == {stream[c] : c \in Conn}
  <2>1. stream \in Surjection(Conn, T)
    BY DEF Surjection, StreamTypeOK
  <2> HIDE DEF T
  <2>2. IsFiniteSet(T)
    BY <2>1, FS_Surjection DEF MemoryIsUnbounded
  <2>3. QED
    BY <2>2 DEF T
<1>2. IsFiniteSet(ToSet(pool))
  BY SeqSetIsFinite DEF StreamTypeOK
<1>3. ASSUME NEW c \in Conn PROVE IsFiniteSet(Queued(c) \cup ToSet(sent[c]))
  <2>1. StreamsOf(sending[c]) \in Seq(Stream) /\ sent[c] \in Seq(Stream)
    BY PartsAreSeqs DEF StreamTypeOK
  <2>2. IsFiniteSet(Queued(c)) /\ IsFiniteSet(ToSet(sent[c]))
    BY <2>1, QueuedAreStreams, SeqSetIsFinite
  <2>3. QED
    BY <2>2, FS_Union
<1>4. IsFiniteSet(UNION {Queued(c) \cup ToSet(sent[c]) : c \in Conn})
  <2> DEFINE f == [c \in Conn |-> Queued(c) \cup ToSet(sent[c])]
             T == {Queued(c) \cup ToSet(sent[c]) : c \in Conn}
  <2>1. f \in Surjection(Conn, T)
    BY DEF Surjection
  <2>2. \A X \in T : IsFiniteSet(X)
    BY <1>3
  <2> HIDE DEF f, T
  <2>3. IsFiniteSet(T)
    BY <2>1, FS_Surjection DEF MemoryIsUnbounded
  <2>4. IsFiniteSet(UNION T)
    BY <2>2, <2>3, FS_UNION
  <2>5. QED
    BY <2>4 DEF T
<1>5. IsFiniteSet(InUse)
  BY <1>1, <1>2, <1>4, FS_Union DEF InUse
<1>6. \E s \in Stream : s \notin InUse
  <2>1. CASE Stream \subseteq InUse
    BY <1>5, <2>1, FS_Subset DEF MemoryIsUnbounded
  <2>2. QED
    BY <2>1
<1>7. QED
  BY <1>6 DEF NewStream

\* The types hold at the start.
LEMMA TypeInit == ConnectionInit => StreamTypeOK
BY EmptySeq, ZenonT(60) DEF ConnectionInit, StreamTypeOK

\* And every step keeps them.
LEMMA TypeStep ==
  ASSUME StreamTypeOK, [ConnectionNext]_coVars, MemoryIsUnbounded
  PROVE  StreamTypeOK'
<1> USE DEF StreamTypeOK
<1>1. ASSUME NEW t \in Thread, NEW c \in Conn, BeginWrite(t, c)
      PROVE  StreamTypeOK'
  <2> DEFINE m == [to |-> c, n |-> Len(written[c]) + 1]
  <2>1. written[c] \in Seq(Sendable) /\ m \in Sendable
    <3>1. written[c] \in Seq(Sendable)
      OBVIOUS
    <3>2. Len(written[c]) \in Nat
      BY <3>1, LenProperties
    <3>3. QED
      BY <3>1, <3>2 DEF Sendable
  <2>2. msg' = [msg EXCEPT ![t] = m] /\ msg'[t] = m
    BY <1>1 DEF BeginWrite
  <2> HIDE DEF m
  <2>3. Append(written[c], m) \in Seq(Sendable)
    BY <2>1, AppendProperties
  <2>4. written' \in [Conn -> Seq(Sendable)]
    BY <1>1, <2>2, <2>3 DEF BeginWrite
  <2>5. /\ step' \in [Thread -> {"idle", "take", "read", "fill"}]
        /\ \A u \in Thread : step'[u] # "idle" => u = t \/ step[u] # "idle"
    BY <1>1 DEF BeginWrite
  <2>6. /\ msg' \in [Thread -> Sendable \cup {NoMessage}]
        /\ \A u \in Thread : u # t => msg'[u] = msg[u]
    BY <2>1, <2>2
  <2>7. \A u \in Thread : step'[u] # "idle" => msg'[u] \in Sendable
    BY <2>1, <2>2, <2>5, <2>6
  <2>8. raced' \subseteq Conn
    BY <1>1 DEF BeginWrite
  <2>9. QED
    BY <1>1, <2>4, <2>5, <2>6, <2>7, <2>8 DEF BeginWrite, opVars
<1>2. ASSUME NEW t \in Thread, TakeStream(t)
      PROVE  StreamTypeOK'
  <2> DEFINE c == msg[t].to
  <2>1. step[t] = "take" /\ c \in Conn
    BY <1>2 DEF TakeStream, Sendable
  <2>2. step' \in [Thread -> {"idle", "take", "read", "fill"}]
        /\ \A u \in Thread : step'[u] # "idle" => step[u] # "idle"
    BY <1>2, <2>1 DEF TakeStream
  <2> HIDE DEF c
  <2>3. CASE pool # <<>>
    <3>1. stream' = [stream EXCEPT ![c] = Head(pool)] /\ pool' = Tail(pool) /\ content' = content
      BY <1>2, <2>3 DEF TakeStream, c
    <3>2. Head(pool) \in Stream /\ Tail(pool) \in Seq(Stream)
      BY <2>3, HeadTailProperties
    <3>3. QED
      BY <1>2, <2>2, <3>1, <3>2 DEF TakeStream, histVars, opVars
  <2>4. CASE pool = <<>>
    <3>1. /\ stream' = [stream EXCEPT ![c] = NewStream] /\ pool' = pool
          /\ content' = [content EXCEPT ![NewStream] = <<>>]
      BY <1>2, <2>4 DEF TakeStream, c
    <3>2. NewStream \in Stream /\ <<>> \in Seq(Sendable)
      BY NewStreamIsUnused, EmptySeq
    <3>3. QED
      BY <1>2, <2>2, <3>1, <3>2 DEF TakeStream, histVars, opVars
  <2>5. QED
    BY <2>3, <2>4
<1>3. ASSUME NEW t \in Thread, ReadPointer(t)
      PROVE  StreamTypeOK'
  <2>1. step[t] = "read" /\ msg[t].to \in Conn
    BY <1>3 DEF ReadPointer, Sendable
  <2>2. QED
    BY <1>3, <2>1 DEF ReadPointer, opVars, histVars
<1>4. ASSUME NEW t \in Thread, Fill(t)
      PROVE  StreamTypeOK'
  <2>1. step[t] = "fill" /\ msg[t] \in Sendable
    BY <1>4 DEF Fill
  <2>2. content' \in [Stream -> Seq(Sendable)]
    <3>1. CASE into[t] = NoStream
      BY <1>4, <3>1 DEF Fill
    <3>2. CASE into[t] # NoStream
      <4>1. into[t] \in Stream
        BY <3>2
      <4>2. Append(content[into[t]], msg[t]) \in Seq(Sendable)
        BY <2>1, <4>1, AppendProperties
      <4>3. QED
        BY <1>4, <3>2, <4>1, <4>2 DEF Fill
    <3>3. QED
      BY <3>1, <3>2
  <2>3. /\ step' \in [Thread -> {"idle", "take", "read", "fill"}]
        /\ msg' \in [Thread -> Sendable \cup {NoMessage}]
        /\ into' \in [Thread -> Stream \cup {NoStream}]
    BY <1>4 DEF Fill
  <2>4. \A u \in Thread : step'[u] # "idle" => msg'[u] \in Sendable
    BY <1>4 DEF Fill
  <2>5. QED
    BY <1>4, <2>2, <2>3, <2>4 DEF Fill, opVars, histVars
<1>5. ASSUME NEW c \in Conn, TimerExpires(c) \/ InternalWriteAborted(c)
      PROVE  StreamTypeOK'
  BY <1>5 DEF TimerExpires, InternalWriteAborted, opVars, callVars, histVars
<1>6. ASSUME NEW c \in Conn, InternalWrite(c)
      PROVE  StreamTypeOK'
  <2>1. CASE c \in open /\ stream[c] # NoStream
    <3> DEFINE o == [stream |-> stream[c], rest |-> content[stream[c]]]
    <3>1. sending' = [sending EXCEPT ![c] = Append(@, o)] /\ stream' = [stream EXCEPT ![c] = NoStream]
      BY <1>6, <2>1 DEF InternalWrite
    <3>2. o \in AnyOperation
      BY <2>1 DEF AnyOperation
    <3> HIDE DEF o
    <3>3. Append(sending[c], o) \in Seq(AnyOperation)
      BY <3>2, AppendProperties
    <3>4. QED
      BY <1>6, <3>1, <3>3 DEF InternalWrite, MeetsWorker, callVars
  <2>2. CASE ~(c \in open /\ stream[c] # NoStream)
    <3>1. UNCHANGED <<sending, stream>>
      BY <1>6, <2>2 DEF InternalWrite
    <3>2. QED
      BY <1>6, <3>1 DEF InternalWrite, MeetsWorker, callVars
  <2>3. QED
    BY <2>1, <2>2
<1>7. ASSUME NEW c \in Conn, NEW n \in Nat, SocketTakes(c, n)
      PROVE  StreamTypeOK'
  <2> DEFINE op == Head(sending[c])
             left == SubSeq(op.rest, n + 1, Len(op.rest))
             took == SubSeq(op.rest, 1, n)
  <2>1. /\ sending[c] # <<>> /\ sending[c] \in Seq(AnyOperation)
        /\ op \in AnyOperation /\ Tail(sending[c]) \in Seq(AnyOperation)
        /\ n \in 0 .. Len(op.rest)
    BY <1>7, HeadTailProperties DEF SocketTakes
  <2>2. op.stream \in Stream /\ op.rest \in Seq(Sendable) /\ Len(op.rest) \in Nat
    <3>1. op.stream \in Stream /\ op.rest \in Seq(Sendable)
      BY <2>1 DEF AnyOperation
    <3>2. QED
      BY <3>1, LenProperties
  <2>3. left \in Seq(Sendable) /\ took \in Seq(Sendable)
    <3>1. \A i \in 1 .. Len(op.rest) : op.rest[i] \in Sendable
      BY <2>2, ElementOfSeq
    <3>2. QED
      BY <2>1, <2>2, <3>1, SubSeqProperties
  <2>4. wire' = [wire EXCEPT ![c] = @ \o took]
    BY <1>7 DEF SocketTakes
  <2>5. /\ left = <<>> => /\ sending' = [sending EXCEPT ![c] = Tail(@)]
                          /\ sent' = [sent EXCEPT ![c] = Append(@, op.stream)]
                          /\ cut' = cut
        /\ left # <<>> => /\ sending' = [sending EXCEPT ![c] =
                                 Append(Tail(@), [op EXCEPT !.rest = left])]
                          /\ sent' = sent /\ cut' \in BOOLEAN
    BY <1>7 DEF SocketTakes
  <2>6. [op EXCEPT !.rest = left] \in AnyOperation
    BY <2>1, <2>3 DEF AnyOperation
  <2> HIDE DEF op, left, took
  <2>7. wire' \in [Conn -> Seq(Sendable)]
    <3>1. wire[c] \o took \in Seq(Sendable)
      BY <2>3, ConcatProperties
    <3>2. QED
      BY <2>4, <3>1
  <2>8. sending' \in [Conn -> Seq(AnyOperation)] /\ sent' \in [Conn -> Seq(Stream)] /\ cut' \in BOOLEAN
    <3>1. /\ Append(Tail(sending[c]), [op EXCEPT !.rest = left]) \in Seq(AnyOperation)
          /\ Append(sent[c], op.stream) \in Seq(Stream)
      BY <2>1, <2>2, <2>6, AppendProperties
    <3>2. QED
      BY <2>1, <2>5, <3>1, ZenonT(60)
  <2>9. QED
    BY <1>7, <2>7, <2>8 DEF SocketTakes, callVars
<1>8. ASSUME NEW c \in Conn, HandleWrite(c)
      PROVE  StreamTypeOK'
  <2>1. Head(sent[c]) \in Stream /\ Tail(sent[c]) \in Seq(Stream)
    BY <1>8, HeadTailProperties DEF HandleWrite
  <2>2. Append(pool, Head(sent[c])) \in Seq(Stream) /\ <<>> \in Seq(Sendable)
    BY <2>1, AppendProperties, EmptySeq
  <2>3. QED
    BY <1>8, <2>1, <2>2 DEF HandleWrite, callVars, histVars
<1>9. ASSUME NEW c \in Conn, Close(c)
      PROVE  StreamTypeOK'
  <2>1. <<>> \in Seq(AnyOperation)
    BY EmptySeq
  <2>2. QED
    BY <1>9, <2>1 DEF Close, CloseSocket, MeetsWorker, callVars
<1>10. ASSUME NEW c \in Conn, WriteFails(c)
       PROVE  StreamTypeOK'
  <2> DEFINE s == Head(sending[c]).stream
  <2>1. s \in Stream
    <3>1. sending[c] # <<>> /\ sending[c] \in Seq(AnyOperation)
      BY <1>10 DEF WriteFails
    <3>2. Head(sending[c]) \in AnyOperation
      BY <3>1, HeadTailProperties
    <3>3. QED
      BY <3>2 DEF AnyOperation
  <2>2. /\ content' = [content EXCEPT ![s] = <<>>] /\ pool' = Append(pool, s)
        /\ open' = open \ {c} /\ sending' = [sending EXCEPT ![c] = <<>>]
    BY <1>10 DEF WriteFails, CloseSocket
  <2> HIDE DEF s
  <2>3. Append(pool, s) \in Seq(Stream) /\ <<>> \in Seq(Sendable) /\ <<>> \in Seq(AnyOperation)
    BY <2>1, AppendProperties, EmptySeq
  <2>4. QED
    BY <1>10, <2>2, <2>3 DEF WriteFails, MeetsWorker, callVars
<1>11. CASE UNCHANGED coVars
  BY <1>11 DEF coVars, opVars, callVars, histVars
<1>12. 0 .. MaxWrites \subseteq Nat
  BY ConnectionAssumption
<1>13. QED
  BY <1>1, <1>2, <1>3, <1>4, <1>5, <1>6, <1>7, <1>8, <1>9, <1>10, <1>11, <1>12
     DEF ConnectionNext, Write

(***************************************************************************)
(* The places a stream can be in, as sets: the output stream of each       *)
(* connection, its writes under way, its finished ones, and the pool.      *)
(***************************************************************************)
Apart(st, Q, T, P) ==
    /\ \A c, d \in Conn : c # d =>
         /\ st[c] = st[d] => st[c] = NoStream
         /\ (Q[c] \cup T[c]) \cap (Q[d] \cup T[d]) = {}
    /\ \A c, d \in Conn : st[c] \notin Q[d] \cup T[d] \cup P
    /\ \A c \in Conn : (Q[c] \cup T[c]) \cap P = {} /\ Q[c] \cap T[c] = {}

Places(st, Q, T, P) ==
    /\ st \in [Conn -> Stream \cup {NoStream}]
    /\ Q \in [Conn -> SUBSET Stream]
    /\ T \in [Conn -> SUBSET Stream]
    /\ P \subseteq Stream

\* From the pool to a connection (TakeStream), or newly made.
LEMMA TakenStaysApart ==
  ASSUME NEW st, NEW Q, NEW T, NEW P, Places(st, Q, T, P), Apart(st, Q, T, P),
         NEW c \in Conn, NEW x \in Stream, NEW R,
         \A d \in Conn : x # st[d] /\ x \notin Q[d] \cup T[d],
         R \subseteq P, x \notin R
  PROVE  Apart([st EXCEPT ![c] = x], Q, T, R)
BY DEF Places, Apart

\* From a connection to its writes (InternalWrite).
LEMMA HandedStaysApart ==
  ASSUME NEW st, NEW Q, NEW T, NEW P, Places(st, Q, T, P), Apart(st, Q, T, P),
         NEW c \in Conn, st[c] # NoStream
  PROVE  Apart([st EXCEPT ![c] = NoStream], [Q EXCEPT ![c] = @ \cup {st[c]}], T, P)
<1> DEFINE st2 == [st EXCEPT ![c] = NoStream]
           Q2 == [Q EXCEPT ![c] = @ \cup {st[c]}]
<1>1. /\ st2[c] = NoStream /\ Q2[c] = Q[c] \cup {st[c]} /\ st[c] \in Stream
      /\ \A d \in Conn : d # c => st2[d] = st[d] /\ Q2[d] = Q[d]
  BY DEF Places
<1>2. \A d \in Conn : Q[d] \subseteq Stream /\ T[d] \subseteq Stream
  BY DEF Places
<1>3. P \subseteq Stream /\ NoStream \notin Stream
  BY ConnectionAssumption DEF Places
<1> HIDE DEF st2, Q2
<1>4. QED
  BY <1>1, <1>2, <1>3 DEF Apart, st2, Q2

\* From the writes under way to the finished ones (SocketTakes).
LEMMA FinishedStaysApart ==
  ASSUME NEW st, NEW Q, NEW T, NEW P, Places(st, Q, T, P), Apart(st, Q, T, P),
         NEW c \in Conn, NEW x \in Q[c]
  PROVE  Apart(st, [Q EXCEPT ![c] = @ \ {x}], [T EXCEPT ![c] = @ \cup {x}], P)
<1> DEFINE Q2 == [Q EXCEPT ![c] = @ \ {x}]
           T2 == [T EXCEPT ![c] = @ \cup {x}]
<1>1. /\ Q2[c] = Q[c] \ {x} /\ T2[c] = T[c] \cup {x}
      /\ \A d \in Conn : d # c => Q2[d] = Q[d] /\ T2[d] = T[d]
  BY DEF Places
<1> HIDE DEF Q2, T2
<1>2. QED
  BY <1>1 DEF Apart, Q2, T2

\* From the finished writes to the pool (HandleWrite).
LEMMA ReturnedStaysApart ==
  ASSUME NEW st, NEW Q, NEW T, NEW P, Places(st, Q, T, P), Apart(st, Q, T, P),
         NEW c \in Conn, NEW x \in T[c]
  PROVE  Apart(st, Q, [T EXCEPT ![c] = @ \ {x}], P \cup {x})
<1> DEFINE T2 == [T EXCEPT ![c] = @ \ {x}]
<1>1. /\ T2[c] = T[c] \ {x} /\ \A d \in Conn : d # c => T2[d] = T[d]
  BY DEF Places
<1> HIDE DEF T2
<1>2. QED
  BY <1>1 DEF Apart, T2

\* The writes under way end, and at most one of their streams goes to the pool
\* (Close, WriteFails).
LEMMA AbortedStaysApart ==
  ASSUME NEW st, NEW Q, NEW T, NEW P, Places(st, Q, T, P), Apart(st, Q, T, P),
         NEW c \in Conn, NEW X \in SUBSET Q[c]
  PROVE  Apart(st, [Q EXCEPT ![c] = {}], T, P \cup X)
<1> DEFINE Q2 == [Q EXCEPT ![c] = {}]
<1>1. /\ Q2[c] = {} /\ \A d \in Conn : d # c => Q2[d] = Q[d]
  BY DEF Places
<1> HIDE DEF Q2
<1>2. QED
  BY <1>1 DEF Apart, Q2

Under == [c \in Conn |-> Queued(c)]
Done == [c \in Conn |-> ToSet(sent[c])]

\* StreamsApart in terms of the places.
LEMMA OwnInvIsApart ==
  ASSUME StreamTypeOK
  PROVE  /\ Places(stream, Under, Done, ToSet(pool))
         /\ StreamsApart /\ OnceEach
              <=> /\ Apart(stream, Under, Done, ToSet(pool))
                  /\ IsInjective(pool)
                  /\ \A c \in Conn : /\ IsInjective(StreamsOf(sending[c]))
                                     /\ IsInjective(sent[c])
<1>1. \A c \in Conn : Queued(c) \subseteq Stream /\ ToSet(sent[c]) \subseteq Stream
  <2>1. ASSUME NEW c \in Conn PROVE ToSet(sent[c]) \subseteq Stream
    <3>1. sent[c] \in Seq(Stream)
      BY DEF StreamTypeOK
    <3>2. QED
      BY <3>1, LenProperties, ElementOfSeq DEF ToSet
  <2>2. QED
    BY <2>1, QueuedAreStreams
<1>2. ToSet(pool) \subseteq Stream
  BY LenProperties, ElementOfSeq DEF ToSet, StreamTypeOK
<1>3. Places(stream, Under, Done, ToSet(pool))
  BY <1>1, <1>2 DEF Places, Under, Done, StreamTypeOK
<1>4. \A c \in Conn : Under[c] = Queued(c) /\ Done[c] = ToSet(sent[c])
  BY DEF Under, Done
<1>5. QED
  BY <1>3, <1>4 DEF StreamsApart, OnceEach, Apart

\* At the start no stream is anywhere.
LEMMA OwnInit == ConnectionInit => OwnInv
<1> SUFFICES ASSUME ConnectionInit PROVE OwnInv
  OBVIOUS
<1>1. StreamTypeOK
  BY TypeInit
<1>2. \A c \in Conn : Queued(c) = {} /\ sent[c] = <<>> /\ stream[c] = NoStream
  BY DEF ConnectionInit, Queued
<1>3. \A c \in Conn : IsInjective(StreamsOf(sending[c])) /\ IsInjective(sent[c])
  BY DEF ConnectionInit, StreamsOf, IsInjective
<1>4. pool = <<>> /\ ToSet(pool) = {} /\ \A c \in Conn : ToSet(sent[c]) = {}
  BY <1>2 DEF ConnectionInit, ToSet
<1>5. QED
  BY <1>1, <1>2, <1>3, <1>4 DEF OwnInv, StreamsApart, OnceEach, IsInjective

\* Every step moves at most one stream, from one place to another.
LEMMA OwnStep ==
  ASSUME OwnInv, [ConnectionNext]_coVars, MemoryIsUnbounded
  PROVE  OwnInv'
<1>1. StreamTypeOK /\ StreamTypeOK'
  BY TypeStep DEF OwnInv
<1>2. /\ Places(stream, Under, Done, ToSet(pool)) /\ Apart(stream, Under, Done, ToSet(pool))
      /\ IsInjective(pool)
      /\ \A c \in Conn : IsInjective(StreamsOf(sending[c])) /\ IsInjective(sent[c])
  BY <1>1, OwnInvIsApart DEF OwnInv
<1> DEFINE Once == /\ IsInjective(pool')
                   /\ \A c \in Conn : /\ IsInjective(StreamsOf(sending'[c]))
                                      /\ IsInjective(sent'[c])
<1> SUFFICES Apart(stream', Under', Done', ToSet(pool')) /\ Once
  <2>1. \A c \in Conn : Under'[c] = Queued(c)' /\ Done'[c] = ToSet(sent'[c])
    BY DEF Under, Done
  <2>2. ASSUME Apart(stream', Under', Done', ToSet(pool')), Once
        PROVE  StreamsApart' /\ OnceEach'
    BY <2>1, <2>2 DEF StreamsApart, OnceEach, Apart
  <2>3. QED
    BY <1>1, <2>2 DEF OwnInv
<1>3. /\ \A c \in Conn : /\ sending[c] \in Seq(AnyOperation)
                         /\ StreamsOf(sending[c]) \in Seq(Stream)
                         /\ sent[c] \in Seq(Stream)
                         /\ Under[c] = ToSet(StreamsOf(sending[c])) /\ Done[c] = ToSet(sent[c])
      /\ sending \in [Conn -> Seq(AnyOperation)] /\ sent \in [Conn -> Seq(Stream)]
      /\ stream \in [Conn -> Stream \cup {NoStream}] /\ pool \in Seq(Stream)
  BY <1>1, PartsAreSeqs, QueuedAreStreams DEF Under, Done, StreamTypeOK
<1>4. /\ Under' = [c \in Conn |-> ToSet(StreamsOf(sending'[c]))]
      /\ Done' = [c \in Conn |-> ToSet(sent'[c])]
      /\ Under = [c \in Conn |-> Under[c]] /\ Done = [c \in Conn |-> Done[c]]
  <2>1. \A c \in Conn : Queued(c)' = ToSet(StreamsOf(sending'[c]))
    BY DEF Queued, ToSet, StreamsOf
  <2>2. QED
    BY <2>1 DEF Under, Done
\* A step that moves no stream.
<1>5. ASSUME UNCHANGED <<stream, pool, sending, sent>>
      PROVE  Apart(stream', Under', Done', ToSet(pool')) /\ Once
  <2>1. Under' = Under /\ Done' = Done
    BY <1>3, <1>4, <1>5
  <2>2. QED
    BY <1>2, <1>5, <2>1
\* One that moves no operation.
<1>6. ASSUME UNCHANGED <<sending, sent>>
      PROVE  /\ Under' = Under /\ Done' = Done
             /\ \A c \in Conn : IsInjective(StreamsOf(sending'[c])) /\ IsInjective(sent'[c])
  BY <1>2, <1>3, <1>4, <1>6
<1> HIDE DEF Once
<1>7. ASSUME NEW t \in Thread, TakeStream(t)
      PROVE  Apart(stream', Under', Done', ToSet(pool')) /\ Once
  <2> DEFINE c == msg[t].to
  <2>1. step[t] = "take" /\ c \in Conn
    BY <1>1, <1>7 DEF TakeStream, StreamTypeOK, Sendable
  <2>2. UNCHANGED <<sending, sent>>
    BY <1>7 DEF TakeStream, opVars
  <2> HIDE DEF c
  <2>3. CASE pool # <<>>
    <3> DEFINE h == Head(pool)
    <3>1. stream' = [stream EXCEPT ![c] = h] /\ pool' = Tail(pool)
      BY <1>7, <2>3 DEF TakeStream, c
    <3>2. /\ h \in Stream /\ h \in ToSet(pool)
          /\ ToSet(pool') \subseteq ToSet(pool) /\ h \notin ToSet(pool') /\ IsInjective(pool')
      BY <1>2, <1>3, <2>3, <3>1, TailSet, HeadTailProperties
    <3> HIDE DEF h
    <3>3. \A d \in Conn : h # stream[d] /\ h \notin Under[d] \cup Done[d]
      BY <1>2, <3>2 DEF Apart
    <3>4. Apart([stream EXCEPT ![c] = h], Under, Done, ToSet(pool'))
      BY <1>2, <2>1, <3>2, <3>3, TakenStaysApart
    <3>5. QED
      BY <1>6, <2>2, <3>1, <3>2, <3>4 DEF Once
  <2>4. CASE pool = <<>>
    <3> DEFINE x == NewStream
    <3>1. stream' = [stream EXCEPT ![c] = x] /\ pool' = pool
      BY <1>7, <2>4 DEF TakeStream, c
    <3>2. x \in Stream /\ x \notin InUse
      BY <1>1, NewStreamIsUnused
    <3> HIDE DEF x
    <3>3. \A d \in Conn : x # stream[d] /\ x \notin Under[d] \cup Done[d]
      BY <3>2 DEF InUse, Under, Done
    <3>4. x \notin ToSet(pool)
      BY <3>2 DEF InUse
    <3>5. Apart([stream EXCEPT ![c] = x], Under, Done, ToSet(pool))
      BY <1>2, <2>1, <3>2, <3>3, <3>4, TakenStaysApart
    <3>6. QED
      BY <1>2, <1>6, <2>2, <3>1, <3>5 DEF Once
  <2>5. QED
    BY <2>3, <2>4
<1>8. ASSUME NEW c \in Conn, InternalWrite(c)
      PROVE  Apart(stream', Under', Done', ToSet(pool')) /\ Once
  <2>1. CASE c \in open /\ stream[c] # NoStream
    <3> DEFINE o == [stream |-> stream[c], rest |-> content[stream[c]]]
               x == stream[c]
    <3>1. /\ sending' = [sending EXCEPT ![c] = Append(@, o)]
          /\ stream' = [stream EXCEPT ![c] = NoStream]
          /\ UNCHANGED <<pool, sent>>
      BY <1>8, <2>1 DEF InternalWrite
    <3>2. o \in AnyOperation /\ o.stream = x /\ x \in Stream /\ x # NoStream
      BY <1>1, <2>1 DEF AnyOperation, StreamTypeOK
    <3> HIDE DEF o, x
    <3>3. StreamsOf(sending'[c]) = Append(StreamsOf(sending[c]), x)
      <4>1. sending'[c] = Append(sending[c], o)
        BY <1>3, <3>1
      <4>2. QED
        BY <1>3, <3>2, <4>1, PartsOfAppend
    <3>4. x \notin ToSet(StreamsOf(sending[c]))
      BY <1>2, <1>3 DEF Apart, x
    <3>5. /\ ToSet(StreamsOf(sending'[c])) = Under[c] \cup {x}
          /\ IsInjective(StreamsOf(sending'[c]))
      BY <1>2, <1>3, <3>2, <3>3, <3>4, AppendedSet
    <3>6. \A d \in Conn : d # c => sending'[d] = sending[d]
      BY <1>3, <3>1
    <3>7. Under' = [Under EXCEPT ![c] = @ \cup {stream[c]}] /\ Done' = Done
      BY <1>3, <1>4, <3>1, <3>5, <3>6 DEF x
    <3>8. Apart(stream', Under', Done', ToSet(pool'))
      BY <1>2, <2>1, <3>1, <3>7, HandedStaysApart
    <3>9. Once
      BY <1>2, <3>1, <3>5, <3>6 DEF Once
    <3>10. QED
      BY <3>8, <3>9
  <2>2. CASE ~(c \in open /\ stream[c] # NoStream)
    BY <1>5, <1>8, <2>2 DEF InternalWrite
  <2>3. QED
    BY <2>1, <2>2
<1>9. ASSUME NEW c \in Conn, NEW n \in Nat, SocketTakes(c, n)
      PROVE  Apart(stream', Under', Done', ToSet(pool')) /\ Once
  <2> DEFINE op == Head(sending[c])
             left == SubSeq(op.rest, n + 1, Len(op.rest))
             x == op.stream
             S == StreamsOf(sending[c])
  <2>1. /\ sending[c] # <<>> /\ UNCHANGED <<stream, pool>>
        /\ op \in AnyOperation /\ Tail(sending[c]) \in Seq(AnyOperation)
    BY <1>3, <1>9, HeadTailProperties DEF SocketTakes
  <2>2. /\ left = <<>> => /\ sending' = [sending EXCEPT ![c] = Tail(@)]
                          /\ sent' = [sent EXCEPT ![c] = Append(@, x)]
        /\ left # <<>> => /\ sending' = [sending EXCEPT ![c] =
                                 Append(Tail(@), [op EXCEPT !.rest = left])]
                          /\ sent' = sent
    BY <1>9 DEF SocketTakes
  <2>3. S # <<>> /\ StreamsOf(Tail(sending[c])) = Tail(S) /\ x = Head(S)
    BY <1>3, <2>1, PartsOfTail
  <2>4. S \in Seq(Stream) /\ x \in Stream /\ Tail(S) \in Seq(Stream) /\ IsInjective(S)
    <3>1. S \in Seq(Stream) /\ IsInjective(S)
      BY <1>2, <1>3
    <3>2. QED
      BY <2>3, <3>1, HeadTailProperties
  <2>5. /\ x \in Under[c] /\ Under[c] = ToSet(Tail(S)) \cup {x}
        /\ x \notin ToSet(Tail(S)) /\ IsInjective(Tail(S))
    BY <1>3, <2>3, <2>4, TailSet
  <2>6. CASE left = <<>>
    <3>1. /\ sending'[c] = Tail(sending[c]) /\ sent'[c] = Append(sent[c], x)
          /\ \A d \in Conn : d # c => sending'[d] = sending[d] /\ sent'[d] = sent[d]
      <4> HIDE DEF x
      <4>1. QED
        BY <1>3, <2>2, <2>6
    <3>2. x \notin ToSet(sent[c])
      <4>1. Done[c] = ToSet(sent[c]) /\ x \in Under[c]
        BY <1>3, <2>5
      <4> HIDE DEF x
      <4>2. QED
        BY <1>2, <4>1 DEF Apart
    <3>3. ToSet(sent'[c]) = Done[c] \cup {x} /\ IsInjective(sent'[c])
      BY <1>2, <1>3, <2>4, <3>1, <3>2, AppendedSet
    <3>4. ToSet(StreamsOf(sending'[c])) = Under[c] \ {x} /\ IsInjective(StreamsOf(sending'[c]))
      BY <2>3, <2>5, <3>1
    <3> HIDE DEF op, left, x, S
    <3>5. /\ Under' = [Under EXCEPT ![c] = @ \ {x}]
          /\ Done' = [Done EXCEPT ![c] = @ \cup {x}]
      BY <1>3, <1>4, <3>1, <3>3, <3>4, ZenonT(60)
    <3>6. Apart(stream, Under', Done', ToSet(pool))
      BY <1>2, <2>5, <3>5, FinishedStaysApart
    <3>7. Once
      BY <1>2, <2>1, <3>1, <3>3, <3>4 DEF Once
    <3>8. QED
      BY <2>1, <3>6, <3>7
  <2>7. CASE left # <<>>
    <3> DEFINE o == [op EXCEPT !.rest = left]
    <3>1. o \in AnyOperation /\ o.stream = x
      <4>1. left \in Seq(Sendable)
        <5>1. op.rest \in Seq(Sendable)
          BY <2>1 DEF AnyOperation
        <5>2. Len(op.rest) \in Nat /\ \A i \in 1 .. Len(op.rest) : op.rest[i] \in Sendable
          BY <5>1, LenProperties, ElementOfSeq
        <5>3. \A i \in n + 1 .. Len(op.rest) : op.rest[i] \in Sendable
          BY <5>2
        <5> HIDE DEF op
        <5>4. QED
          BY <5>2, <5>3, SubSeqProperties
      <4>2. QED
        BY <2>1, <4>1 DEF AnyOperation
    <3> HIDE DEF o, left
    <3>2. /\ sending'[c] = Append(Tail(sending[c]), o)
          /\ \A d \in Conn : d # c => sending'[d] = sending[d]
          /\ sent' = sent
      BY <1>3, <2>2, <2>7 DEF o
    <3>3. StreamsOf(sending'[c]) = Append(Tail(S), x)
      BY <2>1, <2>3, <3>1, <3>2, PartsOfAppend
    <3> HIDE DEF op, x, S
    <3>4. ToSet(StreamsOf(sending'[c])) = Under[c] /\ IsInjective(StreamsOf(sending'[c]))
      <4>1. /\ ToSet(Append(Tail(S), x)) = ToSet(Tail(S)) \cup {x}
            /\ IsInjective(Append(Tail(S), x))
        <5> DEFINE r == Tail(S)
        <5>1. r \in Seq(Stream) /\ x \in Stream /\ IsInjective(r) /\ x \notin ToSet(r)
          BY <2>4, <2>5
        <5> HIDE DEF r
        <5>2. QED
          BY <5>1, AppendedSet DEF r
      <4>2. QED
        BY <2>5, <3>3, <4>1
    <3>5. Under' = Under /\ Done' = Done
      BY <1>3, <1>4, <3>2, <3>4
    <3>6. Once
      BY <1>2, <2>1, <3>2, <3>4 DEF Once
    <3>7. QED
      BY <1>2, <2>1, <3>5, <3>6
  <2>8. QED
    BY <2>6, <2>7
<1>10. ASSUME NEW c \in Conn, HandleWrite(c)
       PROVE  Apart(stream', Under', Done', ToSet(pool')) /\ Once
  <2> DEFINE x == Head(sent[c])
  <2>1. /\ sent[c] # <<>> /\ pool' = Append(pool, x) /\ UNCHANGED <<stream, sending>>
        /\ sent' = [sent EXCEPT ![c] = Tail(@)]
    BY <1>10 DEF HandleWrite
  <2>2. /\ x \in Stream /\ x \in Done[c] /\ Done[c] = ToSet(Tail(sent[c])) \cup {x}
        /\ x \notin ToSet(Tail(sent[c])) /\ IsInjective(Tail(sent[c]))
    BY <1>2, <1>3, <2>1, TailSet, HeadTailProperties
  <2> HIDE DEF x
  <2>3. sent'[c] = Tail(sent[c]) /\ \A d \in Conn : d # c => sent'[d] = sent[d]
    BY <1>3, <2>1
  <2>4. x \notin ToSet(pool)
    BY <1>2, <2>2 DEF Apart
  <2>5. ToSet(pool') = ToSet(pool) \cup {x} /\ IsInjective(pool')
    BY <1>2, <1>3, <2>1, <2>2, <2>4, AppendedSet
  <2>6. Under' = Under /\ Done' = [Done EXCEPT ![c] = @ \ {x}]
    <3>1. ToSet(sent'[c]) = Done[c] \ {x}
      BY <2>2, <2>3
    <3>2. Under' = Under
      BY <1>3, <1>4, <2>1
    <3>3. \A d \in Conn : d # c => ToSet(sent'[d]) = Done[d]
      BY <1>3, <2>3
    <3>4. QED
      BY <1>4, <3>1, <3>2, <3>3
  <2>7. Apart(stream, Under', Done', ToSet(pool'))
    <3>1. Apart(stream, Under, [Done EXCEPT ![c] = @ \ {x}], ToSet(pool) \cup {x})
      BY <1>2, <2>2, ReturnedStaysApart
    <3>2. QED
      BY <2>5, <2>6, <3>1
  <2>8. Once
    BY <1>2, <2>1, <2>2, <2>3, <2>5 DEF Once
  <2>9. QED
    BY <2>1, <2>7, <2>8
<1>11. ASSUME NEW c \in Conn, sending' = [sending EXCEPT ![c] = <<>>]
       PROVE  /\ Under' = [Under EXCEPT ![c] = {}]
              /\ \A d \in Conn : IsInjective(StreamsOf(sending'[d]))
  <2>1. sending'[c] = <<>> /\ \A d \in Conn : d # c => sending'[d] = sending[d]
    BY <1>3, <1>11
  <2>2. ToSet(StreamsOf(<<>>)) = {} /\ IsInjective(StreamsOf(<<>>))
    BY DEF ToSet, StreamsOf, IsInjective
  <2>3. QED
    BY <1>2, <1>3, <1>4, <2>1, <2>2
<1>12. ASSUME NEW c \in Conn, Close(c)
       PROVE  Apart(stream', Under', Done', ToSet(pool')) /\ Once
  <2>1. sending' = [sending EXCEPT ![c] = <<>>] /\ UNCHANGED <<stream, pool, sent>>
    BY <1>12 DEF Close, CloseSocket
  <2>2. Done' = Done
    BY <1>3, <1>4, <2>1
  <2>3. Apart(stream, Under', Done', ToSet(pool) \cup {})
    <3>1. {} \in SUBSET Under[c]
      OBVIOUS
    <3>2. Apart(stream, [Under EXCEPT ![c] = {}], Done, ToSet(pool) \cup {})
      BY <1>2, <3>1, AbortedStaysApart
    <3>3. QED
      BY <1>11, <2>1, <2>2, <3>2
  <2>4. Once
    BY <1>2, <1>11, <2>1 DEF Once
  <2>5. ToSet(pool) \cup {} = ToSet(pool)
    OBVIOUS
  <2>6. QED
    BY <2>1, <2>3, <2>4, <2>5
<1>13. ASSUME NEW c \in Conn, WriteFails(c)
       PROVE  Apart(stream', Under', Done', ToSet(pool')) /\ Once
  <2> DEFINE x == Head(sending[c]).stream
  <2>1. /\ sending' = [sending EXCEPT ![c] = <<>>] /\ UNCHANGED <<stream, sent>>
        /\ sending[c] # <<>> /\ pool' = Append(pool, x)
    BY <1>13 DEF WriteFails, CloseSocket
  <2>2. x \in Stream /\ x \in Under[c]
    <3>1. StreamsOf(sending[c]) # <<>> /\ x = Head(StreamsOf(sending[c]))
      BY <1>3, <2>1, PartsOfTail
    <3>2. QED
      BY <1>3, <3>1, TailSet, HeadTailProperties
  <2> HIDE DEF x
  <2>3. x \notin ToSet(pool)
    BY <1>2, <2>2 DEF Apart
  <2>4. ToSet(pool') = ToSet(pool) \cup {x} /\ IsInjective(pool')
    BY <1>2, <1>3, <2>1, <2>2, <2>3, AppendedSet
  <2>5. Done' = Done
    BY <1>3, <1>4, <2>1
  <2>6. Apart(stream, Under', Done', ToSet(pool) \cup {x})
    <3>1. {x} \in SUBSET Under[c]
      BY <2>2
    <3>2. Apart(stream, [Under EXCEPT ![c] = {}], Done, ToSet(pool) \cup {x})
      BY <1>2, <3>1, AbortedStaysApart
    <3>3. QED
      BY <1>11, <2>1, <2>5, <3>2
  <2>7. Once
    BY <1>2, <1>11, <2>1, <2>4 DEF Once
  <2>8. QED
    BY <2>1, <2>4, <2>6, <2>7
<1>14. ASSUME NEW t \in Thread, NEW c \in Conn,
              BeginWrite(t, c) \/ ReadPointer(t) \/ Fill(t) \/ TimerExpires(c) \/ InternalWriteAborted(c)
       PROVE  UNCHANGED <<stream, pool, sending, sent>>
  BY <1>14 DEF BeginWrite, ReadPointer, Fill, TimerExpires, InternalWriteAborted, opVars
<1>15. ASSUME NEW t \in Thread, ReadPointer(t) \/ Fill(t)
       PROVE  UNCHANGED <<stream, pool, sending, sent>>
  BY <1>15 DEF ReadPointer, Fill, opVars
<1>16. CASE UNCHANGED coVars
  BY <1>5, <1>16 DEF coVars, opVars
<1>17. 0 .. MaxWrites \subseteq Nat /\ Thread # {}
  BY ConnectionAssumption DEF Thread
<1>18. QED
  BY <1>5, <1>7, <1>8, <1>9, <1>10, <1>12, <1>13, <1>14, <1>15, <1>16, <1>17
     DEF ConnectionNext, Write

\* Even when the threads meet, a stream is in one place at a time, for any
\* number of connections and with memory for new streams
\* (the pool, m_outputStream and handleWrite's bound stream).
THEOREM StreamsHaveOneOwner == MemoryIsUnbounded /\ ConnectionSpec => []StreamsApart
<1>1. ASSUME MemoryIsUnbounded PROVE OwnInv /\ [ConnectionNext]_coVars => OwnInv'
  BY <1>1, OwnStep
<1>2. OwnInv => StreamsApart
  BY DEF OwnInv
<1>3. ASSUME MemoryIsUnbounded PROVE ConnectionSpec => []StreamsApart
  BY <1>1, <1>2, <1>3, OwnInit, PTL DEF ConnectionSpec
<1>4. QED
  BY <1>3

------------------------------------------------------------------------------
(* What is written is sent *)

(***************************************************************************)
(* As long as the threads never meet on a connection, it has at most one   *)
(* writer, which works on the connection's own stream, and that stream     *)
(* stays where it is until it is filled.  Streams in the pool are empty.   *)
(***************************************************************************)
OneWriter ==
    raced = {} =>
        /\ \A c \in Conn : \A t, u \in Thread : Writing(t, c) /\ Writing(u, c) => t = u
        /\ \A t \in Thread :
             /\ step[t] = "take" => stream[msg[t].to] = NoStream
             /\ step[t] \in {"read", "fill"} => stream[msg[t].to] # NoStream
             /\ step[t] = "fill" => into[t] = stream[msg[t].to]

PoolIsEmpty == raced = {} => \A s \in ToSet(pool) : content[s] = <<>>

FlowInv == OwnInv /\ OneWriter /\ PoolIsEmpty /\ NothingLost

\* A step that a write in progress does not notice.
LEMMA WritersUntouched ==
  ASSUME OneWriter, UNCHANGED <<stream, step, msg, into>>, raced \subseteq raced'
  PROVE  OneWriter'
BY DEF OneWriter, Writing

\* Every step keeps writers apart, or records that they met.
LEMMA OneWriterStep ==
  ASSUME OwnInv, OneWriter, [ConnectionNext]_coVars, MemoryIsUnbounded
  PROVE  OneWriter'
<1>1. StreamTypeOK
  BY DEF OwnInv
<1>2. ASSUME NEW t \in Thread, NEW c \in Conn, BeginWrite(t, c)
      PROVE  OneWriter'
  <2> SUFFICES ASSUME raced' = {} PROVE OneWriter'
    BY DEF OneWriter
  <2>1. raced = {} /\ ~Meets(t, c) /\ UNCHANGED <<stream, into>>
    BY <1>2 DEF BeginWrite
  <2>2. /\ msg'[t].to = c
        /\ step'[t] = IF stream[c] = NoStream THEN "take" ELSE "read"
        /\ \A u \in Thread \ {t} : msg'[u] = msg[u] /\ step'[u] = step[u]
    <3> DEFINE m == [to |-> c, n |-> Len(written[c]) + 1]
    <3>1. msg' = [msg EXCEPT ![t] = m] /\ m.to = c
      BY <1>2 DEF BeginWrite
    <3> HIDE DEF m
    <3>2. QED
      BY <1>1, <1>2, <3>1 DEF BeginWrite, StreamTypeOK
  <2>3. \A u \in Thread \ {t} : ~Writing(u, c) /\ ~Writing(u, c)'
    BY <2>1, <2>2 DEF Meets, Writing
  <2>4. \A d \in Conn : d # c => ~Writing(t, d)'
    BY <2>2 DEF Writing
  <2>5. \A d \in Conn : \A u \in Thread \ {t} : Writing(u, d)' = Writing(u, d)
    BY <2>2 DEF Writing
  <2>6. \A d \in Conn : \A u, v \in Thread : Writing(u, d)' /\ Writing(v, d)' => u = v
    BY <2>1, <2>3, <2>4, <2>5 DEF OneWriter
  <2>7. QED
    BY <2>1, <2>2, <2>6 DEF OneWriter
<1>3. ASSUME NEW t \in Thread, TakeStream(t)
      PROVE  OneWriter'
  <2> SUFFICES ASSUME raced' = {} PROVE OneWriter'
    BY DEF OneWriter
  <2> DEFINE c == msg[t].to
  <2>1. /\ raced = {} /\ step[t] = "take" /\ c \in Conn
        /\ UNCHANGED <<msg, into>>
        /\ step'[t] = "read" /\ \A u \in Thread \ {t} : step'[u] = step[u]
    BY <1>1, <1>3 DEF TakeStream, histVars, StreamTypeOK, Sendable
  <2>2. PICK x \in Stream : stream' = [stream EXCEPT ![c] = x]
    <3>1. CASE pool # <<>>
      BY <1>1, <1>3, <3>1, HeadTailProperties DEF TakeStream, StreamTypeOK
    <3>2. CASE pool = <<>>
      BY <1>1, <1>3, <3>2, NewStreamIsUnused DEF TakeStream
    <3>3. QED
      BY <3>1, <3>2
  <2>3. stream'[c] # NoStream /\ \A d \in Conn : d # c => stream'[d] = stream[d]
    BY <1>1, <2>1, <2>2, ConnectionAssumption DEF StreamTypeOK
  <2>4. \A u \in Thread : \A d \in Conn : Writing(u, d)' = Writing(u, d)
    BY <2>1 DEF Writing
  <2>5. \A u \in Thread \ {t} : step[u] # "idle" => msg[u].to \in Conn /\ msg[u].to # c
    BY <1>1, <2>1 DEF OneWriter, Writing, StreamTypeOK, Sendable
  <2> HIDE DEF c
  <2>6. ASSUME NEW u \in Thread
        PROVE  /\ step'[u] = "take" => stream'[msg'[u].to] = NoStream
               /\ step'[u] \in {"read", "fill"} => stream'[msg'[u].to] # NoStream
               /\ step'[u] = "fill" => into'[u] = stream'[msg'[u].to]
    <3>1. CASE u = t
      BY <2>1, <2>3, <3>1 DEF c
    <3>2. CASE u # t
      <4>1. step'[u] = step[u] /\ msg'[u] = msg[u] /\ into'[u] = into[u]
        BY <2>1, <3>2
      <4>2. step[u] # "idle" => stream'[msg[u].to] = stream[msg[u].to]
        BY <2>3, <2>5, <3>2
      <4>3. QED
        BY <2>1, <4>1, <4>2 DEF OneWriter
    <3>3. QED
      BY <3>1, <3>2
  <2>7. QED
    BY <2>1, <2>4, <2>6 DEF OneWriter
<1>4. ASSUME NEW t \in Thread, ReadPointer(t)
      PROVE  OneWriter'
  <2> SUFFICES ASSUME raced' = {} PROVE OneWriter'
    BY DEF OneWriter
  <2>1. /\ raced = {} /\ step[t] = "read" /\ UNCHANGED <<msg, stream>>
        /\ step'[t] = "fill" /\ into'[t] = stream[msg[t].to]
        /\ \A u \in Thread \ {t} : step'[u] = step[u] /\ into'[u] = into[u]
    BY <1>1, <1>4 DEF ReadPointer, histVars, StreamTypeOK
  <2>2. \A u \in Thread : \A d \in Conn : Writing(u, d)' = Writing(u, d)
    BY <2>1 DEF Writing
  <2>3. QED
    BY <2>1, <2>2 DEF OneWriter
<1>5. ASSUME NEW t \in Thread, Fill(t)
      PROVE  OneWriter'
  <2> SUFFICES ASSUME raced' = {} PROVE OneWriter'
    BY DEF OneWriter
  <2>1. /\ raced = {} /\ UNCHANGED stream /\ step'[t] = "idle"
        /\ \A u \in Thread \ {t} : step'[u] = step[u] /\ into'[u] = into[u] /\ msg'[u] = msg[u]
    BY <1>1, <1>5 DEF Fill, histVars, StreamTypeOK
  <2>2. \A u \in Thread : \A d \in Conn : Writing(u, d)' => u # t /\ Writing(u, d)
    BY <2>1 DEF Writing
  <2>3. QED
    BY <2>1, <2>2 DEF OneWriter
<1>6. ASSUME NEW c \in Conn, InternalWrite(c)
      PROVE  OneWriter'
  <2> SUFFICES ASSUME raced' = {} PROVE OneWriter'
    BY DEF OneWriter
  <2>1. raced = {} /\ UNCHANGED <<step, msg, into>> /\ \A u \in Thread : ~Writing(u, c)
    BY <1>6 DEF InternalWrite, MainFree, MeetsWorker, callVars, Writing, Thread
  <2>2. \A d \in Conn : d # c => stream'[d] = stream[d]
    BY <1>1, <1>6 DEF InternalWrite, StreamTypeOK
  <2>3. \A u \in Thread : step[u] # "idle" => msg[u].to \in Conn /\ msg[u].to # c
    BY <1>1, <2>1 DEF Writing, StreamTypeOK, Sendable
  <2>4. \A u \in Thread : step[u] # "idle" => stream'[msg[u].to] = stream[msg[u].to]
    BY <2>2, <2>3
  <2>5. QED
    BY <2>1, <2>4 DEF OneWriter, Writing
<1>7. ASSUME NEW c \in Conn, NEW n \in 0 .. MaxWrites, SocketTakes(c, n)
      PROVE  OneWriter'
  <2>1. UNCHANGED <<stream, callVars, raced>>
    BY <1>7 DEF SocketTakes
  <2>2. QED
    BY <2>1, WritersUntouched DEF callVars
<1>8. ASSUME NEW c \in Conn, TimerExpires(c) \/ InternalWriteAborted(c) \/ HandleWrite(c) \/ Close(c) \/ WriteFails(c)
      PROVE  OneWriter'
  <2>1. UNCHANGED <<stream, callVars>>
    BY <1>8 DEF TimerExpires, InternalWriteAborted, HandleWrite, Close, WriteFails
  <2>2. raced \subseteq raced'
    BY <1>8 DEF TimerExpires, InternalWriteAborted, HandleWrite, Close, WriteFails, MeetsWorker, histVars
  <2>3. QED
    BY <2>1, <2>2, WritersUntouched DEF callVars
<1>9. CASE UNCHANGED coVars
  BY <1>9, WritersUntouched DEF coVars, callVars, histVars
<1>10. QED
  BY <1>2, <1>3, <1>4, <1>5, <1>6, <1>7, <1>8, <1>9 DEF ConnectionNext, Write

\* What goes to the pool was emptied, and nobody fills what is there.
LEMMA PoolStep ==
  ASSUME OwnInv, OneWriter, PoolIsEmpty, [ConnectionNext]_coVars, MemoryIsUnbounded
  PROVE  PoolIsEmpty'
<1>1. StreamTypeOK /\ StreamsApart
  BY DEF OwnInv
<1>2. ASSUME UNCHANGED <<pool, content>>, raced \subseteq raced'
      PROVE  PoolIsEmpty'
  BY <1>2 DEF PoolIsEmpty
\* A stream is emptied and put into the pool.
<1>3. ASSUME NEW x \in Stream, content' = [content EXCEPT ![x] = <<>>],
             pool' = Append(pool, x), raced \subseteq raced'
      PROVE  PoolIsEmpty'
  <2>1. ToSet(pool') = ToSet(pool) \cup {x}
    BY <1>1, <1>3, AppendedSet DEF StreamTypeOK
  <2>2. \A s \in Stream : s # x => content'[s] = content[s]
    BY <1>1, <1>3 DEF StreamTypeOK
  <2>3. content'[x] = <<>> /\ ToSet(pool) \subseteq Stream
    BY <1>1, <1>3, LenProperties, ElementOfSeq DEF StreamTypeOK, ToSet
  <2>4. QED
    BY <1>3, <2>1, <2>2, <2>3 DEF PoolIsEmpty
<1>4. ASSUME NEW t \in Thread, TakeStream(t)
      PROVE  PoolIsEmpty'
  <2>1. CASE pool # <<>>
    <3>1. pool' = Tail(pool) /\ UNCHANGED <<content, raced>>
      BY <1>4, <2>1 DEF TakeStream, histVars
    <3>2. ToSet(pool') \subseteq ToSet(pool)
      BY <1>1, <2>1, <3>1, TailSet DEF StreamTypeOK
    <3>3. QED
      BY <3>1, <3>2 DEF PoolIsEmpty
  <2>2. CASE pool = <<>>
    <3>1. pool' = <<>>
      BY <1>4, <2>2 DEF TakeStream
    <3>2. QED
      BY <3>1 DEF PoolIsEmpty, ToSet
  <2>3. QED
    BY <2>1, <2>2
<1>5. ASSUME NEW t \in Thread, Fill(t)
      PROVE  PoolIsEmpty'
  <2> SUFFICES ASSUME raced = {} PROVE PoolIsEmpty'
    BY <1>5 DEF Fill, histVars, PoolIsEmpty
  <2>1. step[t] = "fill" /\ pool' = pool
    BY <1>5 DEF Fill
  <2>2. msg[t].to \in Conn /\ into[t] = stream[msg[t].to] /\ into[t] # NoStream
    BY <1>1, <2>1 DEF OneWriter, StreamTypeOK, Sendable
  <2>3. into[t] \notin ToSet(pool)
    BY <1>1, <2>2 DEF StreamsApart
  <2>4. \A s \in Stream : s # into[t] => content'[s] = content[s]
    BY <1>1, <1>5 DEF Fill, StreamTypeOK
  <2>5. ToSet(pool) \subseteq Stream
    BY <1>1, LenProperties, ElementOfSeq DEF StreamTypeOK, ToSet
  <2>6. QED
    BY <2>1, <2>3, <2>4, <2>5 DEF PoolIsEmpty
<1>6. ASSUME NEW c \in Conn, HandleWrite(c)
      PROVE  PoolIsEmpty'
  <2>1. Head(sent[c]) \in Stream
    BY <1>1, <1>6, HeadTailProperties DEF HandleWrite, StreamTypeOK
  <2>2. QED
    BY <1>3, <1>6, <2>1 DEF HandleWrite, histVars
<1>7. ASSUME NEW c \in Conn, WriteFails(c)
      PROVE  PoolIsEmpty'
  <2>1. Head(sending[c]).stream \in Stream
    <3>1. sending[c] \in Seq(AnyOperation) /\ sending[c] # <<>>
      BY <1>1, <1>7 DEF WriteFails, StreamTypeOK
    <3>2. Head(sending[c]) \in AnyOperation
      BY <3>1, HeadTailProperties
    <3>3. QED
      BY <3>2 DEF AnyOperation
  <2>2. QED
    BY <1>3, <1>7, <2>1 DEF WriteFails, MeetsWorker
<1>8. ASSUME NEW t \in Thread, NEW c \in Conn, BeginWrite(t, c)
      PROVE  PoolIsEmpty'
  BY <1>2, <1>8 DEF BeginWrite
<1>9. ASSUME NEW t \in Thread, ReadPointer(t)
      PROVE  PoolIsEmpty'
  BY <1>2, <1>9 DEF ReadPointer, histVars
<1>10. ASSUME NEW c \in Conn, TimerExpires(c) \/ InternalWriteAborted(c) \/ InternalWrite(c) \/ Close(c)
       PROVE  PoolIsEmpty'
  BY <1>2, <1>10 DEF TimerExpires, InternalWriteAborted, InternalWrite, Close, MeetsWorker, histVars
<1>11. ASSUME NEW c \in Conn, NEW n \in 0 .. MaxWrites, SocketTakes(c, n)
       PROVE  PoolIsEmpty'
  BY <1>2, <1>11 DEF SocketTakes
<1>12. CASE UNCHANGED coVars
  BY <1>2, <1>12 DEF coVars, histVars
<1>13. QED
  BY <1>4, <1>5, <1>6, <1>7, <1>8, <1>9, <1>10, <1>11, <1>12 DEF ConnectionNext, Write

\* What the parts of Accounted(c) are.
Flat(c) == FlattenSeq(RestsOf(sending[c]))

\* Accounted(c) as the sum of its parts.
LEMMA PartsOfAccounted ==
  ASSUME StreamTypeOK, NEW c \in Conn
  PROVE  /\ Accounted(c) = wire[c] \o Flat(c) \o Held(stream[c]) \o InHand(c)
         /\ wire[c] \in Seq(Sendable) /\ Flat(c) \in Seq(Sendable)
         /\ Held(stream[c]) \in Seq(Sendable) /\ InHand(c) \in Seq(Sendable)
         /\ RestsOf(sending[c]) \in Seq(Seq(Sendable))
<1>1. Accounted(c) = wire[c] \o Flat(c) \o Held(stream[c]) \o InHand(c)
  BY DEF Accounted, Flat, RestsOf
<1>2. RestsOf(sending[c]) \in Seq(Seq(Sendable)) /\ <<>> \in Seq(Sendable)
  BY PartsAreSeqs, EmptySeq DEF StreamTypeOK
<1>3. Flat(c) \in Seq(Sendable)
  BY <1>2, FlattenAppend DEF Flat
<1>4. Held(stream[c]) \in Seq(Sendable)
  BY <1>2 DEF Held, StreamTypeOK
<1>5. InHand(c) \in Seq(Sendable)
  <2> DEFINE W == {t \in Thread : Writing(t, c)}
             u == CHOOSE t \in W : TRUE
  <2>1. CASE W = {}
    BY <1>2, <2>1 DEF InHand
  <2>2. CASE W # {}
    <3>1. u \in W
      BY <2>2
    <3>2. msg[u] \in Sendable
      BY <3>1 DEF Writing, StreamTypeOK
    <3>3. InHand(c) = <<msg[u]>>
      BY <2>2 DEF InHand
    <3> HIDE DEF u
    <3>4. QED
      BY <3>2, <3>3
  <2>3. QED
    BY <2>1, <2>2
<1>6. QED
  BY <1>1, <1>2, <1>3, <1>4, <1>5 DEF StreamTypeOK

\* Nobody's message, or the only writer's, is in hand.
LEMMA NobodyWrites ==
  ASSUME NEW c, \A t \in Thread : ~Writing(t, c)
  PROVE  InHand(c) = <<>>
BY DEF InHand

\* The message in hand is the only writer's.
LEMMA OnlyWriter ==
  ASSUME NEW c, NEW t \in Thread, Writing(t, c), \A u \in Thread : Writing(u, c) => u = t
  PROVE  InHand(c) = <<msg[t]>>
<1> DEFINE W == {u \in Thread : Writing(u, c)}
<1>1. W = {t}
  OBVIOUS
<1>2. (CHOOSE u \in W : TRUE) = t
  BY <1>1
<1>3. QED
  BY <1>1, <1>2 DEF InHand

\* A connection nobody begins or ends to write to keeps its message in hand.
LEMMA SameInHand ==
  ASSUME NEW c, \A t \in Thread : /\ Writing(t, c)' <=> Writing(t, c)
                                  /\ Writing(t, c) => msg'[t] = msg[t]
  PROVE  InHand(c)' = InHand(c)
<1> DEFINE W == {t \in Thread : Writing(t, c)}
           V == {t \in Thread : Writing(t, c)'}
<1>1. W = V
  OBVIOUS
<1>2. InHand(c)' = IF V = {} THEN <<>> ELSE <<msg'[CHOOSE t \in V : TRUE]>>
  BY DEF InHand
<1>3. InHand(c) = IF W = {} THEN <<>> ELSE <<msg[CHOOSE t \in W : TRUE]>>
  BY DEF InHand
<1>4. W # {} => (CHOOSE t \in W : TRUE) \in W
  OBVIOUS
<1>5. \A t \in W : msg'[t] = msg[t]
  OBVIOUS
<1> HIDE DEF W, V
<1>6. QED
  BY <1>1, <1>2, <1>3, <1>4, <1>5

\* Moving the bytes between two neighbouring parts changes nothing.
LEMMA Regroup ==
  ASSUME NEW S, NEW a \in Seq(S), NEW b \in Seq(S), NEW c \in Seq(S)
  PROVE  /\ a \o (b \o c) = (a \o b) \o c
         /\ a \o b \in Seq(S) /\ b \o c \in Seq(S)
         /\ a \o <<>> = a /\ <<>> \o a = a
<1>1. (a \o b) \o c = a \o (b \o c)
  BY ConcatAssociative
<1>2. a \o b \in Seq(S) /\ b \o c \in Seq(S)
  BY ConcatProperties
<1>3. a \o <<>> = a /\ <<>> \o a = a
  BY ConcatEmptySeq
<1>4. QED
  BY <1>1, <1>2, <1>3

\* What the socket takes and what it leaves make up the message sequence.
LEMMA HalvesOfSeq ==
  ASSUME NEW S, NEW s \in Seq(S), NEW n \in 0 .. Len(s)
  PROVE  /\ SubSeq(s, 1, n) \o SubSeq(s, n + 1, Len(s)) = s
         /\ SubSeq(s, 1, n) \in Seq(S) /\ SubSeq(s, n + 1, Len(s)) \in Seq(S)
<1>1. Len(s) \in Nat /\ n \in Nat /\ n <= Len(s)
  BY LenProperties
<1>2. \A i \in 1 .. Len(s) : s[i] \in S
  BY ElementOfSeq
<1> DEFINE a == SubSeq(s, 1, n)
           b == SubSeq(s, n + 1, Len(s))
<1>3. a \in Seq(S) /\ Len(a) = n /\ \A i \in 1 .. n : a[i] = s[i]
  <2>1. \A i \in 1 .. n : s[i] \in S
    BY <1>1, <1>2
  <2>2. QED
    BY <1>1, <2>1, SubSeqProperties
<1>4. b \in Seq(S) /\ Len(b) = Len(s) - n /\ \A i \in 1 .. Len(s) - n : b[i] = s[n + i]
  <2>1. \A i \in n + 1 .. Len(s) : s[i] \in S
    BY <1>1, <1>2
  <2>2. QED
    BY <1>1, <2>1, SubSeqProperties
<1> HIDE DEF a, b
<1>5. a \o b \in Seq(S) /\ Len(a \o b) = Len(s)
  <2>1. a \o b \in Seq(S) /\ Len(a \o b) = Len(a) + Len(b)
    BY <1>3, <1>4, ConcatProperties
  <2>2. Len(a) + Len(b) = Len(s)
    BY <1>1, <1>3, <1>4
  <2>3. QED
    BY <2>1, <2>2
<1>6. ASSUME NEW i \in 1 .. Len(s) PROVE (a \o b)[i] = s[i]
  <2>1. (a \o b)[i] = IF i <= n THEN a[i] ELSE b[i - n]
    BY <1>1, <1>3, <1>4, ConcatProperties
  <2>2. CASE i <= n
    BY <1>1, <1>3, <2>1, <2>2
  <2>3. CASE ~(i <= n)
    <3>1. i - n \in 1 .. Len(s) - n /\ n + (i - n) = i
      BY <1>1, <2>3
    <3>2. b[i - n] = s[n + (i - n)]
      BY <1>4, <3>1
    <3>3. QED
      BY <2>1, <2>3, <3>1, <3>2
  <2>4. QED
    BY <2>2, <2>3
<1>7. a \o b = s
  BY <1>5, <1>6, SeqEqual
<1>8. QED
  BY <1>3, <1>4, <1>7 DEF a, b

\* No step loses, repeats or reorders a message.
LEMMA LostStep ==
  ASSUME OwnInv, OwnInv', OneWriter, OneWriter', PoolIsEmpty, NothingLost,
         [ConnectionNext]_coVars, MemoryIsUnbounded
  PROVE  NothingLost'
<1>1. StreamTypeOK /\ StreamTypeOK' /\ StreamsApart
  BY DEF OwnInv
<1> SUFFICES ASSUME raced' = {}, ~cut', NEW d \in Conn, d \in open'
             PROVE  Accounted(d)' = written'[d]
  BY <1>1 DEF NothingLost, StreamTypeOK
<1> DEFINE W == wire[d]
           F == Flat(d)
           H == Held(stream[d])
           I == InHand(d)
<1>2. /\ Accounted(d) = W \o F \o H \o I
      /\ W \in Seq(Sendable) /\ F \in Seq(Sendable) /\ H \in Seq(Sendable)
      /\ I \in Seq(Sendable) /\ RestsOf(sending[d]) \in Seq(Seq(Sendable))
  BY <1>1, PartsOfAccounted
<1>3. Accounted(d)' = wire'[d] \o Flat(d)' \o Held(stream[d])' \o InHand(d)'
  BY DEF Accounted, Flat, RestsOf
<1>4. /\ stream \in [Conn -> Stream \cup {NoStream}] /\ content \in [Stream -> Seq(Sendable)]
      /\ sending \in [Conn -> Seq(AnyOperation)] /\ wire \in [Conn -> Seq(Sendable)]
      /\ written \in [Conn -> Seq(Sendable)]
      /\ \A t \in Thread : step[t] # "idle" => msg[t] \in Sendable /\ msg[t].to \in Conn
  BY <1>1 DEF StreamTypeOK, Sendable
\* What has to be shown of every step.
<1>5. ASSUME raced = {}, ~cut, d \in open,
             wire'[d] = W, Flat(d)' = F, Held(stream[d])' = H, InHand(d)' = I,
             written'[d] = written[d]
      PROVE  Accounted(d)' = written'[d]
  BY <1>2, <1>3, <1>5 DEF NothingLost
<1>6. ASSUME sending'[d] = sending[d] PROVE Flat(d)' = F
  BY <1>6 DEF Flat
<1>7. ASSUME stream'[d] = stream[d],
             stream[d] # NoStream => content'[stream[d]] = content[stream[d]]
      PROVE  Held(stream[d])' = H
  BY <1>7 DEF Held
<1>8. ASSUME UNCHANGED <<step, msg>> PROVE InHand(d)' = I
  BY <1>8, SameInHand DEF Writing
<1> HIDE DEF W, F, H, I
<1>9. ASSUME NEW t \in Thread, NEW c \in Conn, BeginWrite(t, c)
      PROVE  Accounted(d)' = written'[d]
  <2> DEFINE m == [to |-> c, n |-> Len(written[c]) + 1]
  <2>1. /\ raced = {} /\ ~cut /\ d \in open /\ step[t] = "idle" /\ ~Meets(t, c)
        /\ UNCHANGED <<stream, content, wire, sending>>
        /\ step' = [step EXCEPT ![t] = IF stream[c] = NoStream THEN "take" ELSE "read"]
    BY <1>9 DEF BeginWrite, opVars
  <2>2. msg' = [msg EXCEPT ![t] = m] /\ written' = [written EXCEPT ![c] = Append(@, m)]
    <3>1. msg' = [msg EXCEPT ![t] = m] /\ written' = [written EXCEPT ![c] = Append(@, msg'[t])]
      BY <1>9 DEF BeginWrite
    <3> HIDE DEF m
    <3>2. msg'[t] = m
      BY <1>1, <3>1 DEF StreamTypeOK
    <3>3. QED
      BY <3>1, <3>2
  <2>3. m \in Sendable /\ m.to = c
    <3>1. Len(written[c]) \in Nat
      BY <1>4, LenProperties
    <3>2. QED
      BY <3>1 DEF Sendable
  <2> HIDE DEF m
  <2>4. /\ msg'[t] = m /\ step'[t] # "idle"
        /\ \A u \in Thread \ {t} : msg'[u] = msg[u] /\ step'[u] = step[u]
    BY <1>1, <2>1, <2>2 DEF StreamTypeOK
  <2>5. wire'[d] = W /\ Flat(d)' = F /\ Held(stream[d])' = H
    BY <1>6, <1>7, <2>1 DEF W
  <2>6. CASE d # c
    <3>1. ~Writing(t, d) /\ ~Writing(t, d)'
      BY <2>1, <2>3, <2>4, <2>6 DEF Writing
    <3>2. InHand(d)' = I
      BY <2>4, <3>1, SameInHand DEF Writing, I
    <3>3. written'[d] = written[d]
      BY <1>4, <2>2, <2>6
    <3>4. QED
      BY <1>5, <2>1, <2>5, <3>2, <3>3
  <2>7. CASE d = c
    <3>1. \A u \in Thread : ~Writing(u, d)
      BY <2>1, <2>7 DEF Meets, Writing
    <3>2. I = <<>>
      BY <3>1, NobodyWrites DEF I
    <3>3. InHand(d)' = <<m>>
      <4> DEFINE V == {u \in Thread : Writing(u, d)'}
      <4>1. V = {t}
        BY <2>3, <2>4, <2>7, <3>1 DEF Writing
      <4>2. InHand(d)' = IF V = {} THEN <<>> ELSE <<msg'[CHOOSE u \in V : TRUE]>>
        BY DEF InHand
      <4> HIDE DEF V
      <4>3. (CHOOSE u \in V : TRUE) = t
        BY <4>1
      <4>4. QED
        BY <2>4, <4>1, <4>2, <4>3
    <3>4. written[d] = W \o F \o H
      <4>1. W \o F \o H \in Seq(Sendable)
        BY <1>2, ConcatProperties
      <4>2. W \o F \o H \o I = W \o F \o H
        BY <3>2, <4>1, ConcatEmptySeq
      <4>3. QED
        BY <1>2, <2>1, <4>2 DEF NothingLost
    <3>5. written'[d] = written[d] \o <<m>>
      <4>1. written'[d] = Append(written[d], m)
        BY <1>4, <2>2, <2>7
      <4>2. QED
        BY <1>4, <2>3, <4>1, AppendIsConcat
    <3>6. QED
      BY <1>3, <2>5, <3>3, <3>4, <3>5
  <2>8. QED
    BY <2>6, <2>7
<1>10. ASSUME NEW t \in Thread, TakeStream(t)
       PROVE  Accounted(d)' = written'[d]
  <2> DEFINE c == msg[t].to
  <2>1. /\ raced = {} /\ ~cut /\ d \in open /\ step[t] = "take" /\ c \in Conn
        /\ UNCHANGED <<msg, wire, sending, written>>
        /\ step' = [step EXCEPT ![t] = "read"]
    BY <1>4, <1>10 DEF TakeStream, opVars, histVars
  <2>2. InHand(d)' = I
    <3>1. \A u \in Thread : Writing(u, d)' <=> Writing(u, d)
      BY <1>1, <2>1 DEF Writing, StreamTypeOK
    <3>2. QED
      BY <2>1, <3>1, SameInHand DEF I
  <2>3. stream[c] = NoStream
    BY <2>1 DEF OneWriter
  <2>4. PICK x \in Stream :
            /\ stream' = [stream EXCEPT ![c] = x]
            /\ content'[x] = <<>>
            /\ \A e \in Conn : stream[e] # x
            /\ \A s \in Stream : s # x => content'[s] = content[s]
    <3>1. CASE pool # <<>>
      <4>1. Head(pool) \in Stream /\ Head(pool) \in ToSet(pool)
        BY <1>1, <3>1, TailSet, HeadTailProperties DEF StreamTypeOK
      <4>2. stream' = [stream EXCEPT ![c] = Head(pool)] /\ content' = content
        BY <1>10, <3>1 DEF TakeStream
      <4>3. content[Head(pool)] = <<>> /\ \A e \in Conn : stream[e] # Head(pool)
        BY <1>1, <2>1, <4>1 DEF PoolIsEmpty, StreamsApart
      <4>4. QED
        BY <4>1, <4>2, <4>3
    <3>2. CASE pool = <<>>
      <4>1. NewStream \in Stream /\ \A e \in Conn : stream[e] # NewStream
        BY <1>1, NewStreamIsUnused DEF InUse
      <4>2. stream' = [stream EXCEPT ![c] = NewStream] /\ content' = [content EXCEPT ![NewStream] = <<>>]
        BY <1>10, <3>2 DEF TakeStream
      <4>3. QED
        BY <1>4, <4>1, <4>2
    <3>3. QED
      BY <3>1, <3>2
  <2> HIDE DEF c
  <2>5. Held(stream[d])' = H
    <3>1. CASE d = c
      <4>1. stream'[d] = x /\ stream[d] = NoStream
        BY <1>4, <2>3, <2>4, <3>1
      <4>2. QED
        BY <2>4, <4>1, ConnectionAssumption DEF Held, H
    <3>2. CASE d # c
      <4>1. stream'[d] = stream[d]
        BY <1>4, <2>4, <3>2
      <4>2. stream[d] # NoStream => content'[stream[d]] = content[stream[d]]
        BY <1>4, <2>4
      <4>3. QED
        BY <1>7, <4>1, <4>2
    <3>3. QED
      BY <3>1, <3>2
  <2>6. wire'[d] = W /\ Flat(d)' = F /\ written'[d] = written[d]
    BY <1>6, <2>1 DEF W
  <2>7. QED
    BY <1>5, <2>1, <2>2, <2>5, <2>6
<1>11. ASSUME NEW t \in Thread, ReadPointer(t)
       PROVE  Accounted(d)' = written'[d]
  <2>1. /\ raced = {} /\ ~cut /\ d \in open /\ step[t] = "read"
        /\ UNCHANGED <<msg, wire, sending, written, stream, content>>
        /\ step' = [step EXCEPT ![t] = "fill"]
    BY <1>11 DEF ReadPointer, opVars, histVars
  <2>2. InHand(d)' = I
    <3>1. \A u \in Thread : Writing(u, d)' <=> Writing(u, d)
      BY <1>1, <2>1 DEF Writing, StreamTypeOK
    <3>2. QED
      BY <2>1, <3>1, SameInHand DEF I
  <2>3. wire'[d] = W /\ Flat(d)' = F /\ Held(stream[d])' = H /\ written'[d] = written[d]
    BY <1>6, <1>7, <2>1 DEF W
  <2>4. QED
    BY <1>5, <2>1, <2>2, <2>3
<1>12. ASSUME NEW t \in Thread, Fill(t)
       PROVE  Accounted(d)' = written'[d]
  <2> DEFINE c == msg[t].to
             x == into[t]
             m == msg[t]
  <2>1. /\ raced = {} /\ ~cut /\ d \in open /\ step[t] = "fill" /\ c \in Conn /\ m \in Sendable
        /\ UNCHANGED <<wire, sending, written, stream>>
        /\ step' = [step EXCEPT ![t] = "idle"] /\ msg' = [msg EXCEPT ![t] = NoMessage]
    BY <1>4, <1>12 DEF Fill, opVars, histVars
  <2>2. x = stream[c] /\ x # NoStream /\ x \in Stream
    BY <1>4, <2>1 DEF OneWriter
  <2>3. content' = [content EXCEPT ![x] = Append(@, m)]
    BY <1>12, <2>2 DEF Fill
  <2>4. \A u \in Thread : Writing(u, c) => u = t
    BY <2>1 DEF OneWriter, Writing
  <2>5. /\ ~Writing(t, d)'
        /\ \A u \in Thread : u # t => msg'[u] = msg[u] /\ (Writing(u, d)' <=> Writing(u, d))
    BY <1>1, <2>1 DEF Writing, StreamTypeOK
  <2>6. Writing(t, c) /\ \A e \in Conn : e # c => ~Writing(t, e)
    BY <2>1 DEF Writing
  <2>7. wire'[d] = W /\ Flat(d)' = F /\ written'[d] = written[d]
    BY <1>6, <2>1 DEF W
  <2>8. CASE d # c
    <3>1. InHand(d)' = I
      <4>1. ~Writing(t, d)
        BY <2>6, <2>8
      <4>2. QED
        BY <2>5, <4>1, SameInHand DEF I
    <3>2. stream[d] # x
      BY <1>1, <2>1, <2>2, <2>8 DEF StreamsApart
    <3>3. Held(stream[d])' = H
      BY <1>4, <1>7, <2>1, <2>3, <3>2
    <3>4. QED
      BY <1>5, <2>1, <2>7, <3>1, <3>3
  <2>9. CASE d = c
    <3>1. I = <<m>>
      BY <2>4, <2>6, <2>9, OnlyWriter DEF I
    <3>2. InHand(d)' = <<>>
      <4>1. \A u \in Thread : ~Writing(u, d)'
        BY <2>4, <2>5, <2>9
      <4>2. QED
        BY <4>1 DEF InHand
    <3>3. H = content[x]
      BY <2>2, <2>9 DEF Held, H
    <3>4. Held(stream[d])' = Append(content[x], m)
      <4>1. stream'[d] = x /\ content'[x] = Append(content[x], m)
        BY <1>4, <2>1, <2>2, <2>3, <2>9
      <4>2. QED
        BY <2>2, <4>1 DEF Held
    <3> HIDE DEF c, x, m
    <3>5. Held(stream[d])' = H \o <<m>>
      BY <1>2, <2>1, <3>3, <3>4, AppendIsConcat
    <3>6. W \o F \in Seq(Sendable) /\ <<m>> \in Seq(Sendable) /\ H \o <<m>> \in Seq(Sendable)
      BY <1>2, <2>1, ConcatProperties
    <3>7. (W \o F) \o (H \o <<m>>) = W \o F \o H \o <<m>>
      BY <1>2, <3>6, Regroup
    <3>8. W \o F \o (H \o <<m>>) \o <<>> = W \o F \o (H \o <<m>>)
      <4>1. (W \o F) \o (H \o <<m>>) \in Seq(Sendable)
        BY <3>6, ConcatProperties
      <4>2. QED
        BY <4>1, ConcatEmptySeq
    <3>9. written[d] = W \o F \o H \o <<m>>
      BY <1>2, <2>1, <3>1 DEF NothingLost
    <3>10. QED
      BY <1>3, <2>7, <3>2, <3>5, <3>7, <3>8, <3>9
  <2>10. QED
    BY <2>8, <2>9
<1>13. ASSUME NEW c \in Conn, TimerExpires(c) \/ InternalWriteAborted(c)
       PROVE  Accounted(d)' = written'[d]
  <2>1. raced = {} /\ ~cut /\ d \in open
        /\ UNCHANGED <<step, msg, wire, sending, written, stream, content>>
    BY <1>13 DEF TimerExpires, InternalWriteAborted, opVars, histVars, callVars
  <2>2. wire'[d] = W /\ Flat(d)' = F /\ Held(stream[d])' = H /\ written'[d] = written[d]
        /\ InHand(d)' = I
    BY <1>6, <1>7, <1>8, <2>1 DEF W
  <2>3. QED
    BY <1>5, <2>1, <2>2
<1>14. ASSUME NEW c \in Conn, InternalWrite(c)
       PROVE  Accounted(d)' = written'[d]
  <2>1. /\ raced = {} /\ ~cut /\ d \in open /\ UNCHANGED <<step, msg, wire, written, content>>
        /\ \A u \in Thread : ~Writing(u, c)
    BY <1>14 DEF InternalWrite, MainFree, MeetsWorker, callVars, Writing, Thread
  <2>2. wire'[d] = W /\ written'[d] = written[d] /\ InHand(d)' = I
    BY <1>8, <2>1 DEF W
  <2>3. CASE d = c /\ stream[c] # NoStream
    <3> DEFINE o == [stream |-> stream[c], rest |-> content[stream[c]]]
    <3>1. sending' = [sending EXCEPT ![c] = Append(@, o)] /\ stream' = [stream EXCEPT ![c] = NoStream]
      BY <1>14, <2>1, <2>3 DEF InternalWrite
    <3>2. o \in AnyOperation /\ o.rest = H
      BY <1>4, <2>3 DEF AnyOperation, H, Held
    <3> HIDE DEF o
    <3>3. RestsOf(sending'[d]) = Append(RestsOf(sending[d]), H)
      <4>1. sending'[d] = Append(sending[d], o)
        BY <1>4, <2>3, <3>1
      <4>2. QED
        BY <1>4, <3>2, <4>1, PartsOfAppend
    <3>4. Flat(d)' = F \o H
      <4>1. Flat(d)' = FlattenSeq(RestsOf(sending'[d])) /\ F = FlattenSeq(RestsOf(sending[d]))
        BY DEF Flat, F
      <4>2. QED
        BY <1>2, <3>3, <4>1, FlattenAppend
    <3>5. Held(stream[d])' = <<>>
      BY <1>4, <2>3, <3>1 DEF Held
    <3>6. I = <<>>
      BY <2>1, <2>3, NobodyWrites DEF I
    <3>7. W \o (F \o H) \o <<>> = W \o F \o H
      <4>1. W \o (F \o H) = W \o F \o H
        BY <1>2, Regroup
      <4>2. W \o (F \o H) \in Seq(Sendable)
        BY <1>2, ConcatProperties
      <4>3. QED
        BY <4>1, <4>2, ConcatEmptySeq
    <3>8. written[d] = W \o F \o H \o I
      BY <1>2, <2>1 DEF NothingLost
    <3>9. QED
      BY <1>3, <2>2, <3>4, <3>5, <3>6, <3>7, <3>8
  <2>4. CASE ~(d = c /\ stream[c] # NoStream)
    <3>1. sending'[d] = sending[d] /\ stream'[d] = stream[d]
      BY <1>4, <1>14, <2>4 DEF InternalWrite
    <3>2. QED
      BY <1>5, <1>6, <1>7, <2>1, <2>2, <3>1
  <2>5. QED
    BY <2>3, <2>4
<1>15. ASSUME NEW c \in Conn, NEW n \in Nat, SocketTakes(c, n)
       PROVE  Accounted(d)' = written'[d]
  <2> DEFINE op == Head(sending[c])
             rest == op.rest
             left == SubSeq(rest, n + 1, Len(rest))
             took == SubSeq(rest, 1, n)
  <2>1. /\ raced = {} /\ d \in open /\ UNCHANGED <<step, msg, written, stream, content>>
        /\ sending[c] # <<>> /\ n \in 0 .. Len(rest)
        /\ wire' = [wire EXCEPT ![c] = @ \o took]
    BY <1>15 DEF SocketTakes, callVars
  <2>2. ~cut
    BY <1>15 DEF SocketTakes
  <2>3. written'[d] = written[d] /\ InHand(d)' = I /\ Held(stream[d])' = H
    BY <1>7, <1>8, <2>1
  <2>4. CASE d # c
    <3>1. wire'[d] = W /\ sending'[d] = sending[d]
      BY <1>4, <1>15, <2>1, <2>4 DEF SocketTakes, W
    <3>2. QED
      BY <1>5, <1>6, <2>1, <2>2, <2>3, <3>1
  <2>5. CASE d = c
    <3>1. /\ op \in AnyOperation /\ rest \in Seq(Sendable)
          /\ Tail(sending[c]) \in Seq(AnyOperation)
      <4>1. op \in AnyOperation /\ Tail(sending[c]) \in Seq(AnyOperation)
        BY <1>4, <2>1, HeadTailProperties
      <4>2. QED
        BY <4>1 DEF AnyOperation
    <3>2. took \o left = rest /\ took \in Seq(Sendable) /\ left \in Seq(Sendable)
      <4> HIDE DEF rest
      <4>1. QED
        BY <2>1, <3>1, HalvesOfSeq
    <3>3. /\ left = <<>> => sending' = [sending EXCEPT ![c] = Tail(@)]
          /\ left # <<>> =>
                /\ sending' = [sending EXCEPT ![c] = Append(Tail(@), [op EXCEPT !.rest = left])]
                /\ ~(Len(sending[c]) > 1)
      BY <1>15 DEF SocketTakes
    <3> DEFINE T == FlattenSeq(RestsOf(Tail(sending[c])))
    <3>4. F = rest \o T /\ T \in Seq(Sendable)
      <4>1. /\ RestsOf(sending[c]) # <<>> /\ RestsOf(Tail(sending[c])) = Tail(RestsOf(sending[c]))
            /\ rest = Head(RestsOf(sending[c]))
        BY <1>4, <2>1, PartsOfTail
      <4>2. F = FlattenSeq(RestsOf(sending[c])) /\ RestsOf(sending[c]) \in Seq(Seq(Sendable))
        BY <1>2, <2>5 DEF F, Flat
      <4>3. RestsOf(Tail(sending[c])) \in Seq(Seq(Sendable))
        BY <3>1, PartsAreSeqs
      <4> HIDE DEF rest
      <4>4. F = rest \o T
        BY <4>1, <4>2, FlattenTail
      <4>5. T \in Seq(Sendable)
        BY <4>3, FlattenAppend, EmptySeq
      <4>6. QED
        BY <4>4, <4>5
    <3>5. Flat(d)' = left \o T
      <4>1. Flat(d)' = FlattenSeq(RestsOf(sending'[d]))
        BY DEF Flat
      <4>2. CASE left = <<>>
        <5>1. sending'[d] = Tail(sending[c])
          BY <1>4, <2>5, <3>3, <4>2
        <5> HIDE DEF left, T
        <5>2. left \o T = T
          BY <3>4, <4>2, ConcatEmptySeq
        <5>3. QED
          BY <4>1, <5>1, <5>2 DEF T
      <4>3. CASE left # <<>>
        <5> DEFINE o == [op EXCEPT !.rest = left]
        <5>1. sending'[d] = Append(Tail(sending[c]), o)
          BY <1>4, <2>5, <3>3, <4>3
        <5>2. o \in AnyOperation /\ o.rest = left
          BY <3>1, <3>2 DEF AnyOperation
        <5>3. Tail(sending[c]) = <<>>
          <6>1. sending[c] \in Seq(AnyOperation) /\ Len(sending[c]) \in Nat /\ Len(sending[c]) # 0
            BY <1>4, <2>1, LenProperties, EmptySeq
          <6>2. Len(sending[c]) = 1
            <7> HIDE DEF left
            <7>1. ~(Len(sending[c]) > 1)
              BY <3>3, <4>3
            <7> DEFINE k == Len(sending[c])
            <7>2. k \in Nat /\ k # 0 /\ ~(k > 1)
              BY <6>1, <7>1
            <7> HIDE DEF k
            <7>3. k = 1
              BY <7>2
            <7>4. QED
              BY <7>3 DEF k
          <6>3. Len(Tail(sending[c])) = 0
            BY <2>1, <6>1, <6>2, HeadTailProperties
          <6>4. QED
            BY <3>1, <6>3, EmptySeq
        <5> HIDE DEF o, left, op
        <5>4. RestsOf(sending'[d]) = Append(RestsOf(Tail(sending[c])), left)
          BY <3>1, <5>1, <5>2, PartsOfAppend
        <5>5. RestsOf(Tail(sending[c])) = <<>>
          BY <5>3 DEF RestsOf
        <5>6. T = <<>>
          <6>1. Len(<<>>) = 0
            BY EmptySeq
          <6>2. QED
            BY <5>5, <6>1 DEF FlattenSeq
        <5>7. <<>> \in Seq(Seq(Sendable))
          BY EmptySeq
        <5>8. FlattenSeq(Append(<<>>, left)) = FlattenSeq(<<>>) \o left
          BY <3>2, <5>7, FlattenAppend
        <5>9. FlattenSeq(<<>>) = <<>>
          BY <5>5, <5>6
        <5>10. <<>> \o left = left /\ left \o <<>> = left
          BY <3>2, ConcatEmptySeq
        <5> HIDE DEF T
        <5>11. QED
          BY <4>1, <5>4, <5>5, <5>6, <5>8, <5>9, <5>10
      <4>4. QED
        BY <4>2, <4>3
    <3>6. wire'[d] = W \o took
      BY <1>4, <2>1, <2>5 DEF W
    <3> HIDE DEF op, rest, left, took, T
    <3>7. (W \o took) \o (left \o T) = W \o F
      <4>0. ASSUME NEW a \in Seq(Sendable), NEW b \in Seq(Sendable), NEW e \in Seq(Sendable)
            PROVE  a \o (b \o e) = (a \o b) \o e
        BY Regroup
      <4>1. took \o (left \o T) = (took \o left) \o T
        BY <3>2, <3>4, <4>0
      <4>2. left \o T \in Seq(Sendable)
        BY <3>2, <3>4, ConcatProperties
      <4>3. W \o (took \o (left \o T)) = (W \o took) \o (left \o T)
        BY <1>2, <3>2, <4>0, <4>2, ZenonT(60)
      <4>4. QED
        BY <3>2, <3>4, <4>1, <4>3
    <3>8. written[d] = W \o F \o H \o I
      BY <1>2, <2>1, <2>2 DEF NothingLost
    <3>9. QED
      BY <1>3, <2>3, <3>5, <3>6, <3>7, <3>8
  <2>6. QED
    BY <2>4, <2>5
<1>16. ASSUME NEW c \in Conn, HandleWrite(c)
       PROVE  Accounted(d)' = written'[d]
  <2>1. /\ raced = {} /\ ~cut /\ d \in open /\ sent[c] # <<>>
        /\ UNCHANGED <<step, msg, wire, sending, written, stream>>
        /\ content' = [content EXCEPT ![Head(sent[c])] = <<>>]
    BY <1>16 DEF HandleWrite, histVars, callVars
  <2>2. Head(sent[c]) \in ToSet(sent[c])
    BY <1>1, <2>1, TailSet DEF StreamTypeOK
  <2>3. stream[d] # Head(sent[c])
    BY <1>1, <2>2 DEF StreamsApart
  <2>4. Held(stream[d])' = H
    BY <1>4, <1>7, <2>1, <2>3
  <2>5. wire'[d] = W /\ Flat(d)' = F /\ written'[d] = written[d] /\ InHand(d)' = I
    BY <1>6, <1>8, <2>1 DEF W
  <2>6. QED
    BY <1>5, <2>1, <2>4, <2>5
<1>17. ASSUME NEW c \in Conn, Close(c)
       PROVE  Accounted(d)' = written'[d]
  <2>1. /\ raced = {} /\ ~cut /\ d \in open /\ d # c
        /\ UNCHANGED <<step, msg, wire, written, stream, content>>
        /\ sending' = [sending EXCEPT ![c] = <<>>]
    BY <1>17 DEF Close, CloseSocket, MeetsWorker, callVars
  <2>2. sending'[d] = sending[d]
    BY <1>4, <2>1
  <2>3. wire'[d] = W /\ Flat(d)' = F /\ Held(stream[d])' = H /\ written'[d] = written[d]
        /\ InHand(d)' = I
    BY <1>6, <1>7, <1>8, <2>1, <2>2 DEF W
  <2>4. QED
    BY <1>5, <2>1, <2>3
<1>18. ASSUME NEW c \in Conn, WriteFails(c)
       PROVE  Accounted(d)' = written'[d]
  <2> DEFINE x == Head(sending[c]).stream
  <2>1. /\ raced = {} /\ ~cut /\ d \in open /\ d # c /\ sending[c] # <<>>
        /\ UNCHANGED <<step, msg, wire, written, stream>>
        /\ sending' = [sending EXCEPT ![c] = <<>>]
        /\ content' = [content EXCEPT ![x] = <<>>]
    BY <1>18 DEF WriteFails, CloseSocket, MeetsWorker, callVars
  <2>2. x \in Queued(c)
    <3>1. sending[c] \in Seq(AnyOperation)
      BY <1>4
    <3>2. Len(sending[c]) \in Nat /\ Len(sending[c]) # 0 /\ DOMAIN sending[c] = 1 .. Len(sending[c])
      BY <2>1, <3>1, LenProperties, EmptySeq
    <3>3. Head(sending[c]) = sending[c][1] /\ 1 \in DOMAIN sending[c]
      BY <3>2
    <3>4. QED
      BY <3>3 DEF Queued
  <2> HIDE DEF x
  <2>3. stream[d] # x
    BY <1>1, <2>2 DEF StreamsApart
  <2>4. Held(stream[d])' = H
    BY <1>4, <1>7, <2>1, <2>3
  <2>5. sending'[d] = sending[d]
    BY <1>4, <2>1
  <2>6. wire'[d] = W /\ Flat(d)' = F /\ written'[d] = written[d] /\ InHand(d)' = I
    BY <1>6, <1>8, <2>1, <2>5 DEF W
  <2>7. QED
    BY <1>5, <2>1, <2>4, <2>6
<1>19. CASE UNCHANGED coVars
  <2>1. raced = {} /\ ~cut /\ d \in open
        /\ UNCHANGED <<step, msg, wire, sending, written, stream, content>>
    BY <1>19 DEF coVars, opVars, histVars, callVars
  <2>2. wire'[d] = W /\ Flat(d)' = F /\ Held(stream[d])' = H /\ written'[d] = written[d]
        /\ InHand(d)' = I
    BY <1>6, <1>7, <1>8, <2>1 DEF W
  <2>3. QED
    BY <1>5, <2>1, <2>2
<1>20. 0 .. MaxWrites \subseteq Nat
  BY ConnectionAssumption
<1>21. QED
  BY <1>9, <1>10, <1>11, <1>12, <1>13, <1>14, <1>15, <1>16, <1>17, <1>18, <1>19, <1>20
     DEF ConnectionNext, Write

\* At the start nothing is written.
LEMMA FlowInit == ConnectionInit => FlowInv
<1> SUFFICES ASSUME ConnectionInit PROVE FlowInv
  OBVIOUS
<1>1. OneWriter /\ PoolIsEmpty
  BY DEF ConnectionInit, OneWriter, PoolIsEmpty, Writing, ToSet
<1>2. ASSUME NEW c \in Conn PROVE Accounted(c) = written[c]
  <2>1. wire[c] = <<>> /\ written[c] = <<>> /\ sending[c] = <<>> /\ stream[c] = NoStream
    BY DEF ConnectionInit
  <2>2. InHand(c) = <<>>
    <3>1. \A t \in Thread : ~Writing(t, c)
      BY DEF ConnectionInit, Writing
    <3>2. QED
      BY <3>1, NobodyWrites
  <2>3. Flat(c) = <<>>
    <3>1. RestsOf(sending[c]) = <<>> /\ Len(<<>>) = 0
      BY <2>1, EmptySeq DEF RestsOf
    <3>2. QED
      BY <3>1 DEF Flat, FlattenSeq
  <2>4. Accounted(c) = wire[c] \o Flat(c) \o Held(stream[c]) \o InHand(c)
    BY DEF Accounted, Flat, RestsOf
  <2>5. QED
    BY <2>1, <2>2, <2>3, <2>4 DEF Held
<1>3. NothingLost
  BY <1>2 DEF NothingLost, ConnectionInit
<1>4. QED
  BY <1>1, <1>3, OwnInit DEF FlowInv

\* The whole invariant is kept.
LEMMA FlowStep ==
  ASSUME FlowInv, [ConnectionNext]_coVars, MemoryIsUnbounded
  PROVE  FlowInv'
<1>1. OwnInv /\ OneWriter /\ PoolIsEmpty /\ NothingLost
  BY DEF FlowInv
<1>2. OwnInv' /\ OneWriter'
  BY <1>1, OwnStep, OneWriterStep
<1>3. PoolIsEmpty' /\ NothingLost'
  BY <1>1, <1>2, PoolStep, LostStep
<1>4. QED
  BY <1>2, <1>3 DEF FlowInv

\* As long as the threads do not meet on a connection and no async_write is
\* cut short while another waits, every message written to an open connection
\* is on its way once and in order, for any number of connections and messages
\* (Connection::write, internalWrite, handleWrite).
THEOREM MessagesAreSentOnce == MemoryIsUnbounded /\ ConnectionSpec => []NothingLost
<1>1. ASSUME MemoryIsUnbounded PROVE FlowInv /\ [ConnectionNext]_coVars => FlowInv'
  BY <1>1, FlowStep
<1>2. FlowInv => NothingLost
  BY DEF FlowInv
<1>3. ASSUME MemoryIsUnbounded PROVE ConnectionSpec => []NothingLost
  BY <1>1, <1>2, <1>3, FlowInit, PTL DEF ConnectionSpec
<1>4. QED
  BY <1>3

=============================================================================
