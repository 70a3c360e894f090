---------------------------- MODULE DownloadProofs ----------------------------
(***************************************************************************)
(* Proofs about Download, for every torrent, set of peers and initial disk *)
(* and whatever the peers send.                                            *)
(*                                                                         *)
(* Three invariants, each with what a step of one handler does to it:      *)
(*   QInv  the order of the requests.  NothingForgotten is not inductive:  *)
(*         a bitfield sent twice queues a piece twice, and a block then    *)
(*         answers a request of the first entry while the second waits for *)
(*         the same block.  What keeps the second one's request is that    *)
(*         the requests of an entry are all behind those of the entries    *)
(*         before it (At, Placed, Promise), and that an entry in the queue *)
(*         always misses a block (Counted), so that one is not answered    *)
(*         before the other.                                               *)
(*   SInv  a seeder's queue is one entry, whose requests are those for the *)
(*         blocks from its currentBlocks on (Asked), so blocks arrive in   *)
(*         order and once.                                                 *)
(*   WInv  while a piece is missing, a missing piece is queued at a seeder *)
(*         or a handler is about to ask one (Busy, Handled).               *)
(* Every step is a step of the file manager or leaves it alone             *)
(* (ManagerStep), so the manager's invariant IInv is inherited.            *)
(***************************************************************************)
EXTENDS Download, FileManagerProofs

------------------------------------------------------------------------------
(* The operators Download is built from *)

\* The loop over the requests reaches every position (Kept is recursive).
LEMMA KeptSteps ==
  ASSUME NEW s \in Seq(Request), NEW i
  PROVE  Kept(s, i) = [n \in 0 .. Len(s) |->
                          IF n = 0 THEN <<>>
                          ELSE IF s[n].index = i THEN Kept(s, i)[n - 1]
                          ELSE Append(Kept(s, i)[n - 1], s[n])]
<1> DEFINE Body(f, n) == IF n = 0 THEN <<>>
                         ELSE IF s[n].index = i THEN f[n - 1] ELSE Append(f[n - 1], s[n])
           Fits(f, n) == f = [m \in 0 .. n |-> Body(f, m)]
           Bad == {n \in 0 .. Len(s) : ~\E f : Fits(f, n)}
\* An element depends on the one before it and on nothing else.
<1>1. ASSUME NEW f, NEW g, NEW n \in Nat, n # 0 => f[n - 1] = g[n - 1]
      PROVE  Body(f, n) = Body(g, n)
  BY <1>1
<1> HIDE DEF Body
<1>2. Bad = {}
  <2> SUFFICES ASSUME Bad # {} PROVE FALSE
    OBVIOUS
  <2>1. PICK n \in Bad : \A m \in Bad : n <= m
    <3>1. Bad \subseteq Nat
      OBVIOUS
    <3> HIDE DEF Bad
    <3>2. QED
      BY <3>1, LeastPosition
  <2>2. n \in Nat /\ n \in 0 .. Len(s)
    OBVIOUS
  <2>3. PICK f : n = 0 \/ Fits(f, n - 1)
    <3>1. CASE n = 0
      BY <3>1
    <3>2. CASE n # 0
      <4>1. n - 1 \in 0 .. Len(s) /\ ~(n <= n - 1)
        BY <2>2, <3>2, LenProperties
      <4>2. n - 1 \notin Bad
        BY <2>1, <4>1
      <4>3. QED
        BY <4>1, <4>2
    <3>3. QED
      BY <3>1, <3>2
  <2> DEFINE g == [m \in 0 .. n |-> IF m = n THEN Body(f, n) ELSE f[m]]
  <2>4. ASSUME NEW m \in 0 .. n PROVE g[m] = Body(g, m)
    <3>1. m \in Nat /\ (m # 0 => m - 1 \in 0 .. n /\ m - 1 # n /\ n # 0)
      BY <2>2
    <3>2. m # 0 => g[m - 1] = f[m - 1]
      BY <3>1
    <3>3. Body(g, m) = Body(f, m)
      <4> HIDE DEF g
      <4>1. QED
        BY <1>1, <3>1, <3>2
    <3>4. m # n => f[m] = Body(f, m)
      <4>1. m # n => n # 0 /\ m \in 0 .. n - 1
        BY <2>2
      <4>2. QED
        BY <2>3, <4>1
    <3>5. QED
      BY <3>3, <3>4
  <2>5. g = [m \in 0 .. n |-> g[m]]
    OBVIOUS
  <2>6. Fits(g, n)
    <3> HIDE DEF g
    <3>1. QED
      BY <2>4, <2>5
  <2>7. QED
    BY <2>6
<1>3. \E f : Fits(f, Len(s))
  BY <1>2, LenProperties
<1>4. Kept(s, i) = CHOOSE f : Fits(f, Len(s))
  BY DEF Kept, Body
<1>5. Fits(Kept(s, i), Len(s))
  <2> HIDE DEF Fits
  <2>1. QED
    BY <1>3, <1>4
<1>6. QED
  BY <1>5 DEF Body

\* The kept requests are requests, and taking in one more request of s leaves
\* those already kept where they are.
LEMMA KeptGrows ==
  ASSUME NEW s \in Seq(Request), NEW i, NEW n \in 0 .. Len(s)
  PROVE  /\ Kept(s, i)[n] \in Seq(Request)
         /\ \A m \in 0 .. n :
                /\ Len(Kept(s, i)[m]) <= Len(Kept(s, i)[n])
                /\ \A j \in 1 .. Len(Kept(s, i)[m]) : Kept(s, i)[n][j] = Kept(s, i)[m][j]
<1> DEFINE K == Kept(s, i)
           P(k) == /\ K[k] \in Seq(Request)
                   /\ \A m \in 0 .. k :
                          /\ Len(K[m]) <= Len(K[k])
                          /\ \A j \in 1 .. Len(K[m]) : K[k][j] = K[m][j]
           Bad == {k \in 0 .. Len(s) : ~P(k)}
<1>1. K = [k \in 0 .. Len(s) |->
              IF k = 0 THEN <<>>
              ELSE IF s[k].index = i THEN K[k - 1] ELSE Append(K[k - 1], s[k])]
  BY KeptSteps
<1> HIDE DEF K
<1> SUFFICES ASSUME Bad # {} PROVE FALSE
  BY DEF K
<1>3. PICK k \in Bad : \A m \in Bad : k <= m
  <2>1. Bad \subseteq Nat
    OBVIOUS
  <2> HIDE DEF Bad
  <2>2. QED
    BY <2>1, LeastPosition
<1>4. k \in Nat /\ k \in 0 .. Len(s) /\ Len(s) \in Nat
  BY LenProperties
<1>5. CASE k = 0
  <2>1. K[k] = <<>>
    BY <1>1, <1>4, <1>5
  <2>2. K[k] \in Seq(Request) /\ \A m \in 0 .. k : m = k
    BY <1>5, <2>1
  <2>3. P(k)
    BY <2>2, LenProperties
  <2>4. QED
    BY <2>3
<1>6. CASE k # 0
  <2>1. k - 1 \in 0 .. Len(s) /\ k - 1 \in Nat /\ ~(k <= k - 1) /\ k \in 1 .. Len(s)
    BY <1>4, <1>6
  <2>2. P(k - 1)
    BY <1>3, <2>1
  <2>3. s[k] \in Request
    BY <2>1, ElementOfSeq
  <2>4. K[k] = K[k - 1] \/ K[k] = Append(K[k - 1], s[k])
    BY <1>1, <1>4, <1>6
  <2>5. /\ K[k] \in Seq(Request)
        /\ Len(K[k - 1]) <= Len(K[k])
        /\ \A j \in 1 .. Len(K[k - 1]) : K[k][j] = K[k - 1][j]
    <3>1. K[k - 1] \in Seq(Request)
      BY <2>2
    <3>2. CASE K[k] = K[k - 1]
      BY <3>1, <3>2, LenProperties
    <3>3. CASE K[k] = Append(K[k - 1], s[k])
      BY <2>3, <3>1, <3>3, AppendProperties, LenProperties
    <3>4. QED
      BY <2>4, <3>2, <3>3
  <2>6. ASSUME NEW m \in 0 .. k
        PROVE  /\ Len(K[m]) <= Len(K[k])
               /\ \A j \in 1 .. Len(K[m]) : K[k][j] = K[m][j]
    <3>1. CASE m = k
      BY <2>5, <3>1, LenProperties
    <3>2. CASE m # k
      <4>1. m \in 0 .. k - 1
        BY <1>4, <3>2
      <4>2. m \in 0 .. Len(s) /\ ~(k <= m)
        BY <1>4, <4>1
      <4>3. K[m] \in Seq(Request)
        BY <1>3, <4>2
      <4>4. Len(K[m]) \in Nat /\ Len(K[k - 1]) \in Nat /\ Len(K[k]) \in Nat
        BY <2>2, <2>5, <4>3, LenProperties
      <4>5. /\ Len(K[m]) <= Len(K[k - 1])
            /\ \A j \in 1 .. Len(K[m]) : K[k - 1][j] = K[m][j]
        BY <2>2, <4>1
      <4>6. QED
        BY <2>5, <4>4, <4>5
    <3>3. QED
      BY <3>1, <3>2
  <2>7. QED
    BY <2>5, <2>6
<1>7. QED
  BY <1>5, <1>6

(***************************************************************************)
(* Requests are answered at the front of wire and cancelled anywhere in    *)
(* it, and the others keep their order.  Thins(w, v, h, out): v is w with  *)
(* requests taken out at some of the positions in out; what was up to      *)
(* position n is now up to h[n].                                           *)
(***************************************************************************)
Thins(w, v, h, out) ==
    /\ h \in [0 .. Len(w) -> 0 .. Len(v)]
    /\ \A m, n \in 0 .. Len(w) : m <= n => h[m] <= h[n]
    /\ \A n \in 1 .. Len(w) : n \notin out => h[n - 1] < h[n] /\ v[h[n]] = w[n]

\* The requests for a piece are taken out.
LEMMA NotForThins ==
  ASSUME NEW s \in Seq(Request), NEW i
  PROVE  /\ NotFor(s, i) \in Seq(Request)
         /\ \E h : Thins(s, NotFor(s, i), h, {n \in 1 .. Len(s) : s[n].index = i})
<1> DEFINE K == Kept(s, i)
           h == [n \in 0 .. Len(s) |-> Len(K[n])]
           out == {n \in 1 .. Len(s) : s[n].index = i}
           v == NotFor(s, i)
<1>1. Len(s) \in Nat /\ v = K[Len(s)]
  BY LenProperties DEF NotFor
<1>2. ASSUME NEW n \in 0 .. Len(s)
      PROVE  /\ K[n] \in Seq(Request) /\ Len(K[n]) \in Nat
             /\ \A m \in 0 .. n :
                    /\ Len(K[m]) <= Len(K[n])
                    /\ \A j \in 1 .. Len(K[m]) : K[n][j] = K[m][j]
  <2>1. /\ K[n] \in Seq(Request)
        /\ \A m \in 0 .. n :
               /\ Len(K[m]) <= Len(K[n])
               /\ \A j \in 1 .. Len(K[m]) : K[n][j] = K[m][j]
    BY KeptGrows, ZenonT(60)
  <2> HIDE DEF K
  <2>2. QED
    BY <2>1, LenProperties
<1>3. v \in Seq(Request)
  BY <1>1, <1>2
<1>4. \A n \in 1 .. Len(s) : n \notin out => K[n] = Append(K[n - 1], s[n])
  BY <1>1, KeptSteps
<1> HIDE DEF K, v
<1>5. h \in [0 .. Len(s) -> 0 .. Len(v)]
  BY <1>1, <1>2
<1>6. \A m, n \in 0 .. Len(s) : m <= n => h[m] <= h[n]
  BY <1>1, <1>2
<1>7. ASSUME NEW n \in 1 .. Len(s), n \notin out
      PROVE  h[n - 1] < h[n] /\ v[h[n]] = s[n]
  <2>1. n \in 0 .. Len(s) /\ n - 1 \in 0 .. Len(s)
    BY <1>1
  <2>2. K[n - 1] \in Seq(Request) /\ s[n] \in Request
    BY <1>2, <2>1, ElementOfSeq
  <2>3. Len(K[n]) = Len(K[n - 1]) + 1 /\ K[n][Len(K[n])] = s[n]
    BY <1>4, <1>7, <2>2, AppendProperties
  <2>4. v[Len(K[n])] = K[n][Len(K[n])]
    <3>1. Len(K[n]) \in 1 .. Len(K[n])
      BY <1>2, <2>1, <2>3
    <3>2. QED
      BY <1>1, <1>2, <2>1, <3>1
  <2>5. QED
    BY <1>2, <2>1, <2>3, <2>4
<1> HIDE DEF h, out
<1>8. Thins(s, v, h, out)
  BY <1>5, <1>6, <1>7 DEF Thins
<1>9. QED
  BY <1>3, <1>8 DEF v, out

\* A list is thinned by nothing to itself, and by its first position to its tail.
LEMMA TailThins ==
  ASSUME NEW w \in Seq(Request)
  PROVE  /\ \E h : Thins(w, w, h, {})
         /\ w # <<>> => Tail(w) \in Seq(Request) /\ \E h : Thins(w, Tail(w), h, {1})
<1>1. Len(w) \in Nat
  BY LenProperties
<1>2. \E h : Thins(w, w, h, {})
  <2> DEFINE h == [n \in 0 .. Len(w) |-> n]
  <2>1. Thins(w, w, h, {})
    BY <1>1 DEF Thins
  <2>2. QED
    BY <2>1
<1>3. ASSUME w # <<>>
      PROVE  Tail(w) \in Seq(Request) /\ \E h : Thins(w, Tail(w), h, {1})
  <2> DEFINE h == [n \in 0 .. Len(w) |-> IF n = 0 THEN 0 ELSE n - 1]
  <2>1. /\ Tail(w) \in Seq(Request) /\ Len(Tail(w)) = Len(w) - 1
        /\ \A n \in 1 .. Len(Tail(w)) : Tail(w)[n] = w[n + 1]
    BY <1>3, HeadTailProperties
  <2>2. Len(w) # 0
    BY <1>3, EmptySeq
  <2>3. h \in [0 .. Len(w) -> 0 .. Len(Tail(w))]
    BY <1>1, <2>1, <2>2
  <2>4. \A m, n \in 0 .. Len(w) : m <= n => h[m] <= h[n]
    BY <1>1
  <2>5. \A n \in 1 .. Len(w) : n \notin {1} => h[n - 1] < h[n] /\ Tail(w)[h[n]] = w[n]
    <3>1. ASSUME NEW n \in 1 .. Len(w), n # 1
          PROVE  h[n - 1] < h[n] /\ Tail(w)[h[n]] = w[n]
      <4>1. /\ n \in 0 .. Len(w) /\ n - 1 \in 0 .. Len(w) /\ n - 1 # 0 /\ n # 0
            /\ n - 1 \in 1 .. Len(Tail(w))
        BY <1>1, <2>1, <3>1
      <4>2. h[n] = n - 1 /\ h[n - 1] = n - 2
        BY <4>1
      <4> HIDE DEF h
      <4>3. QED
        BY <1>1, <2>1, <4>1, <4>2
    <3>2. QED
      BY <3>1
  <2> HIDE DEF h
  <2>6. Thins(w, Tail(w), h, {1})
    BY <2>3, <2>4, <2>5 DEF Thins
  <2>7. QED
    BY <2>1, <2>6
<1>4. QED
  BY <1>2, <1>3

\* Thinning twice thins by both.
LEMMA ThinsTwice ==
  ASSUME NEW w \in Seq(Request), NEW u \in Seq(Request), NEW v \in Seq(Request),
         NEW g, NEW h, NEW A, NEW B, NEW C,
         Thins(w, u, g, A), Thins(u, v, h, B),
         \A n \in 1 .. Len(w) : n \notin C => n \notin A /\ g[n] \notin B
  PROVE  \E k : Thins(w, v, k, C)
<1> DEFINE k == [n \in 0 .. Len(w) |-> h[g[n]]]
<1>1. Len(w) \in Nat /\ Len(u) \in Nat /\ Len(v) \in Nat
  BY LenProperties
<1>2. /\ g \in [0 .. Len(w) -> 0 .. Len(u)]
      /\ h \in [0 .. Len(u) -> 0 .. Len(v)]
      /\ \A m, n \in 0 .. Len(w) : m <= n => g[m] <= g[n]
      /\ \A m, n \in 0 .. Len(u) : m <= n => h[m] <= h[n]
      /\ \A n \in 1 .. Len(w) : n \notin A => g[n - 1] < g[n] /\ u[g[n]] = w[n]
      /\ \A n \in 1 .. Len(u) : n \notin B => h[n - 1] < h[n] /\ v[h[n]] = u[n]
  BY DEF Thins
<1>3. k \in [0 .. Len(w) -> 0 .. Len(v)]
  BY <1>2
<1>4. \A m, n \in 0 .. Len(w) : m <= n => k[m] <= k[n]
  BY <1>2
<1>5. ASSUME NEW n \in 1 .. Len(w), n \notin C
      PROVE  k[n - 1] < k[n] /\ v[k[n]] = w[n]
  <2>0. n \in 0 .. Len(w) /\ n - 1 \in 0 .. Len(w) /\ n \notin A /\ g[n] \notin B
    BY <1>1, <1>5
  <2>1. /\ g[n] \in 0 .. Len(u) /\ g[n - 1] \in 0 .. Len(u)
        /\ g[n - 1] < g[n] /\ u[g[n]] = w[n]
    BY <1>2, <2>0
  <2>2. g[n] \in 1 .. Len(u) /\ g[n] - 1 \in 0 .. Len(u) /\ g[n - 1] <= g[n] - 1
    BY <1>1, <2>1
  <2>3. h[g[n] - 1] < h[g[n]] /\ v[h[g[n]]] = u[g[n]] /\ h[g[n - 1]] <= h[g[n] - 1]
    BY <1>2, <2>0, <2>1, <2>2
  <2>4. k[n] = h[g[n]] /\ k[n - 1] = h[g[n - 1]]
    BY <2>0
  <2>5. h[g[n]] \in Nat /\ h[g[n - 1]] \in Nat /\ h[g[n] - 1] \in Nat
    BY <1>1, <1>2, <2>1, <2>2
  <2> HIDE DEF k
  <2>6. QED
    BY <2>0, <2>1, <2>3, <2>4, <2>5, SMTT(30)
<1> HIDE DEF k
<1>6. Thins(w, v, k, C)
  BY <1>3, <1>4, <1>5 DEF Thins
<1>7. QED
  BY <1>6

\* What cancelPiece leaves of the unanswered requests: those answered before
\* the cancels arrived, and those for other pieces.
LEMMA CancelThins ==
  ASSUME NEW s \in Seq(Request), NEW i, NEW k \in 0 .. Len(s)
  PROVE  LET v == SubSeq(s, 1, k) \o NotFor(SubSeq(s, k + 1, Len(s)), i) IN
         /\ v \in Seq(Request)
         /\ \E h : Thins(s, v, h, {n \in 1 .. Len(s) : s[n].index = i})
<1> DEFINE a == SubSeq(s, 1, k)
           b == SubSeq(s, k + 1, Len(s))
           c == NotFor(b, i)
           v == a \o c
           outb == {n \in 1 .. Len(b) : b[n].index = i}
           out == {n \in 1 .. Len(s) : s[n].index = i}
<1>1. Len(s) \in Nat /\ k \in Nat /\ k <= Len(s)
  BY LenProperties
<1>2. a \in Seq(Request) /\ Len(a) = k /\ \A n \in 1 .. k : a[n] = s[n]
  <2>1. \A n \in 1 .. k : s[n] \in Request
    BY <1>1, ElementOfSeq
  <2>2. QED
    BY <1>1, <2>1, SubSeqProperties
<1>3. b \in Seq(Request) /\ Len(b) = Len(s) - k /\ \A n \in 1 .. Len(s) - k : b[n] = s[k + n]
  <2>1. \A n \in k + 1 .. Len(s) : s[n] \in Request
    BY <1>1, ElementOfSeq
  <2>2. QED
    BY <1>1, <2>1, SubSeqProperties
<1> HIDE DEF a, b
<1>4. PICK g : c \in Seq(Request) /\ Thins(b, c, g, outb)
  BY <1>3, NotForThins
<1> HIDE DEF c
<1>5. /\ v \in Seq(Request) /\ Len(v) = k + Len(c) /\ Len(c) \in Nat
      /\ \A n \in 1 .. k : v[n] = s[n]
      /\ \A n \in 1 .. Len(c) : v[k + n] = c[n]
  <2>1. /\ v \in Seq(Request) /\ Len(v) = Len(a) + Len(c)
        /\ \A n \in 1 .. Len(a) + Len(c) :
               v[n] = IF n <= Len(a) THEN a[n] ELSE c[n - Len(a)]
    BY <1>2, <1>4, ConcatProperties
  <2>2. Len(c) \in Nat
    BY <1>4, LenProperties
  <2> HIDE DEF v
  <2>3. ASSUME NEW n \in 1 .. Len(c) PROVE v[k + n] = c[n]
    <3>1. k + n \in 1 .. k + Len(c) /\ ~(k + n <= k) /\ (k + n) - k = n
      BY <1>1, <2>2
    <3>2. QED
      BY <1>2, <2>1, <3>1
  <2>4. ASSUME NEW n \in 1 .. k PROVE v[n] = s[n]
    <3>1. n \in 1 .. k + Len(c) /\ n <= k
      BY <1>1, <2>2
    <3>2. QED
      BY <1>2, <2>1, <3>1
  <2>5. QED
    BY <1>2, <2>1, <2>2, <2>3, <2>4
<1>6. /\ g \in [0 .. Len(s) - k -> 0 .. Len(c)]
      /\ \A m, n \in 0 .. Len(s) - k : m <= n => g[m] <= g[n]
      /\ \A n \in 1 .. Len(s) - k : n \notin outb => g[n - 1] < g[n] /\ c[g[n]] = b[n]
  BY <1>3, <1>4 DEF Thins
<1> DEFINE h == [n \in 0 .. Len(s) |-> IF n <= k THEN n ELSE k + g[n - k]]
<1> HIDE DEF v
<1>7. h \in [0 .. Len(s) -> 0 .. Len(v)]
  BY <1>1, <1>5, <1>6
<1>8. ASSUME NEW m \in 0 .. Len(s), NEW n \in 0 .. Len(s), m <= n PROVE h[m] <= h[n]
  <2>1. CASE n <= k
    BY <1>1, <1>8, <2>1
  <2>2. CASE ~(n <= k)
    <3>0. n - k \in 0 .. Len(s) - k
      BY <1>1, <2>2
    <3>1. n - k \in 0 .. Len(s) - k /\ g[n - k] \in Nat
      <4>1. g[n - k] \in 0 .. Len(c)
        BY <1>6, <3>0
      <4>2. QED
        BY <1>5, <3>0, <4>1
    <3>2. CASE m <= k
      BY <1>1, <2>2, <3>1, <3>2
    <3>3. CASE ~(m <= k)
      <4>0. m - k \in 0 .. Len(s) - k /\ m - k <= n - k
        BY <1>1, <1>8, <3>3
      <4>1. g[m - k] \in Nat
        <5>1. g[m - k] \in 0 .. Len(c)
          BY <1>6, <4>0
        <5>2. QED
          BY <1>5, <5>1
      <4>2. g[m - k] <= g[n - k]
        BY <1>6, <3>1, <4>0
      <4>3. QED
        BY <1>1, <2>2, <3>1, <3>3, <4>1, <4>2
    <3>4. QED
      BY <3>2, <3>3
  <2>3. QED
    BY <2>1, <2>2
<1>9. ASSUME NEW n \in 1 .. Len(s), n \notin out
      PROVE  h[n - 1] < h[n] /\ v[h[n]] = s[n]
  <2>0. n \in 0 .. Len(s) /\ n - 1 \in 0 .. Len(s)
    BY <1>1
  <2>1. CASE n <= k
    <3>1. h[n] = n /\ h[n - 1] = n - 1
      BY <1>1, <2>0, <2>1
    <3> HIDE DEF h
    <3>2. QED
      BY <1>1, <1>5, <2>1, <3>1
  <2>2. CASE ~(n <= k)
    <3>1. n - k \in 1 .. Len(s) - k /\ n - k - 1 \in 0 .. Len(s) - k
      BY <1>1, <2>2
    <3>2. b[n - k] = s[n] /\ n - k \notin outb
      <4>1. k + (n - k) = n
        BY <1>1
      <4>2. b[n - k] = s[n]
        BY <1>3, <3>1, <4>1
      <4>3. QED
        BY <1>9, <4>2
    <3>3. g[n - k - 1] < g[n - k] /\ c[g[n - k]] = s[n]
      BY <1>6, <3>1, <3>2
    <3>4. g[n - k] \in 1 .. Len(c) /\ g[n - k - 1] \in 0 .. Len(c)
      <4>1. n - k \in 0 .. Len(s) - k
        BY <3>1
      <4>2. g[n - k] \in 0 .. Len(c) /\ g[n - k - 1] \in 0 .. Len(c)
        BY <1>6, <3>1, <4>1
      <4>3. QED
        BY <1>5, <3>3, <4>2
    <3>5. h[n] = k + g[n - k]
      BY <2>0, <2>2
    <3>6. v[h[n]] = s[n]
      <4> HIDE DEF h
      <4>1. QED
        BY <1>5, <3>3, <3>4, <3>5
    <3>7. h[n - 1] = k + g[n - k - 1] \/ h[n - 1] = k
      <4>1. CASE n - 1 <= k
        <5>1. n - 1 = k
          BY <1>1, <2>2, <4>1
        <5>2. QED
          BY <2>0, <4>1, <5>1
      <4>2. CASE ~(n - 1 <= k)
        <5>1. (n - 1) - k = n - k - 1
          BY <1>1
        <5>2. QED
          BY <2>0, <4>2, <5>1
      <4>3. QED
        BY <4>1, <4>2
    <3> HIDE DEF h
    <3>8. QED
      BY <1>1, <1>5, <3>3, <3>4, <3>5, <3>6, <3>7
  <2>3. QED
    BY <2>1, <2>2
<1> HIDE DEF h, out
<1>10. Thins(s, v, h, out)
  BY <1>7, <1>8, <1>9 DEF Thins
<1>11. QED
  BY <1>5, <1>10 DEF v, out, a, b, c

\* find_if finds the first entry of m_queue for a piece if there is one.
LEMMA EntryIsFirst ==
  ASSUME NEW p \in Peers, queue[p] \in Seq(QueuedPiece), NEW i
  PROVE  \/ /\ EntryOf(p, i) = 0
            /\ \A k \in DOMAIN queue[p] : queue[p][k].index # i
         \/ /\ EntryOf(p, i) \in DOMAIN queue[p] /\ EntryOf(p, i) # 0
            /\ queue[p][EntryOf(p, i)].index = i
            /\ \A k \in DOMAIN queue[p] : queue[p][k].index = i => EntryOf(p, i) <= k
<1> DEFINE At == {k \in DOMAIN queue[p] : queue[p][k].index = i}
<1>1. DOMAIN queue[p] = 1 .. Len(queue[p]) /\ Len(queue[p]) \in Nat
  BY LenProperties
<1>2. CASE At = {}
  BY <1>2 DEF EntryOf
<1>3. CASE At # {}
  <2>1. At \subseteq Nat
    BY <1>1
  <2>2. EntryOf(p, i) = CHOOSE k \in At : \A j \in At : k <= j
    BY <1>3 DEF EntryOf
  <2> HIDE DEF At
  <2>3. \E k \in At : \A j \in At : k <= j
    BY <1>3, <2>1, LeastPosition
  <2>4. EntryOf(p, i) \in At /\ \A j \in At : EntryOf(p, i) <= j
    BY <2>2, <2>3
  <2>5. QED
    BY <1>1, <2>4 DEF At
<1>4. QED
  BY <1>2, <1>3

\* Taking entry e out of m_queue moves the later ones up by one.
LEMMA WithoutEntry ==
  ASSUME NEW q \in Seq(QueuedPiece), NEW e \in DOMAIN q
  PROVE  /\ Without(q, e) \in Seq(QueuedPiece)
         /\ Len(Without(q, e)) = Len(q) - 1
         /\ DOMAIN Without(q, e) = 1 .. Len(q) - 1
         /\ \A k \in 1 .. Len(q) - 1 :
                Without(q, e)[k] = IF k < e THEN q[k] ELSE q[k + 1]
<1> DEFINE a == SubSeq(q, 1, e - 1)
           b == SubSeq(q, e + 1, Len(q))
<1>1. Len(q) \in Nat /\ DOMAIN q = 1 .. Len(q) /\ e \in 1 .. Len(q)
  BY LenProperties
<1>2. a \in Seq(QueuedPiece) /\ Len(a) = e - 1 /\ \A n \in 1 .. e - 1 : a[n] = q[n]
  <2>1. \A n \in 1 .. e - 1 : q[n] \in QueuedPiece
    BY <1>1, ElementOfSeq
  <2>2. QED
    BY <1>1, <2>1, SubSeqProperties
<1>3. /\ b \in Seq(QueuedPiece) /\ Len(b) = Len(q) - e
      /\ \A n \in 1 .. Len(q) - e : b[n] = q[e + n]
  <2>1. \A n \in e + 1 .. Len(q) : q[n] \in QueuedPiece
    BY <1>1, ElementOfSeq
  <2>2. QED
    BY <1>1, <2>1, SubSeqProperties
<1>4. Without(q, e) = a \o b
  BY DEF Without
<1> HIDE DEF a, b
<1>5. /\ a \o b \in Seq(QueuedPiece) /\ Len(a \o b) = Len(q) - 1
      /\ \A n \in 1 .. Len(q) - 1 : (a \o b)[n] = IF n <= e - 1 THEN a[n] ELSE b[n - (e - 1)]
  <2>1. Len(a) + Len(b) = Len(q) - 1
    BY <1>1, <1>2, <1>3
  <2>2. /\ a \o b \in Seq(QueuedPiece) /\ Len(a \o b) = Len(a) + Len(b)
        /\ \A n \in 1 .. Len(a) + Len(b) :
               (a \o b)[n] = IF n <= Len(a) THEN a[n] ELSE b[n - Len(a)]
    BY <1>2, <1>3, ConcatProperties
  <2>3. Len(a) = e - 1
    BY <1>2
  <2> HIDE DEF a, b
  <2>4. QED
    BY <2>1, <2>2, <2>3
<1>6. ASSUME NEW k \in 1 .. Len(q) - 1
      PROVE  (a \o b)[k] = IF k < e THEN q[k] ELSE q[k + 1]
  <2>1. CASE k < e
    <3>1. k <= e - 1 /\ k \in 1 .. e - 1
      BY <1>1, <2>1
    <3>2. QED
      BY <1>2, <1>5, <2>1, <3>1
  <2>2. CASE ~(k < e)
    <3>1. ~(k <= e - 1) /\ k - (e - 1) \in 1 .. Len(q) - e /\ e + (k - (e - 1)) = k + 1
      BY <1>1, <2>2
    <3>2. QED
      BY <1>3, <1>5, <2>2, <3>1
  <2>3. QED
    BY <2>1, <2>2
<1>7. DOMAIN (a \o b) = 1 .. Len(q) - 1
  BY <1>5, LenProperties
<1>8. QED
  BY <1>4, <1>5, <1>6, <1>7

\* requestPiece asks for every block of a piece, in order.
LEMMA RequestsForPiece ==
  ASSUME NEW i \in Piece
  PROVE  /\ RequestsFor(i) \in Seq(Request) /\ Len(RequestsFor(i)) = NumBlocks
         /\ \A b \in Block : /\ b + 1 \in 1 .. NumBlocks
                             /\ RequestsFor(i)[b + 1] = [index |-> i, block |-> b]
<1>1. NumBlocks \in Nat /\ Block = 0 .. NumBlocks - 1
  BY FileManagerAssumption DEF Block
<1>2. \A k \in 1 .. NumBlocks : [index |-> i, block |-> k - 1] \in Request
  BY <1>1 DEF Request
<1>3. RequestsFor(i) \in Seq(Request) /\ Len(RequestsFor(i)) = NumBlocks
  BY <1>1, <1>2, IsASeq, LenProperties DEF RequestsFor
<1>4. ASSUME NEW b \in Block
      PROVE  b + 1 \in 1 .. NumBlocks /\ RequestsFor(i)[b + 1] = [index |-> i, block |-> b]
  <2>1. b + 1 \in 1 .. NumBlocks /\ (b + 1) - 1 = b
    BY <1>1
  <2>2. QED
    BY <2>1 DEF RequestsFor
<1>5. QED
  BY <1>3, <1>4

\* Position and block number of a request tell its entry and its block.
LEMMA Quotient ==
  ASSUME NEW n \in Nat \ {0}, NEW k \in Nat, NEW b \in 0 .. n - 1
  PROVE  (n * k + b) \div n = k /\ (n * k + b) % n = b
  BY SMT

\* UnChoke asks for every block of every queued piece: those of entry k are
\* behind (k - 1) * NumBlocks others.
LEMMA ReRequestsForQueue ==
  ASSUME NEW q \in Seq(QueuedPiece)
  PROVE  /\ ReRequests(q) \in Seq(Request) /\ Len(ReRequests(q)) = NumBlocks * Len(q)
         /\ \A k \in DOMAIN q, b \in Block :
                /\ NumBlocks * (k - 1) + b + 1 \in 1 .. NumBlocks * Len(q)
                /\ ReRequests(q)[NumBlocks * (k - 1) + b + 1]
                       = [index |-> q[k].index, block |-> b]
<1>1. /\ NumBlocks \in Nat \ {0} /\ Block = 0 .. NumBlocks - 1
      /\ Len(q) \in Nat /\ DOMAIN q = 1 .. Len(q)
  BY FileManagerAssumption, LenProperties DEF Block
<1>2. NumBlocks * Len(q) \in Nat
  BY <1>1
<1>3. ASSUME NEW n \in 1 .. NumBlocks * Len(q)
      PROVE  [index |-> q[(n - 1) \div NumBlocks + 1].index, block |-> (n - 1) % NumBlocks]
                 \in Request
  <2>1. /\ (n - 1) \div NumBlocks + 1 \in 1 .. Len(q)
        /\ (n - 1) % NumBlocks \in 0 .. NumBlocks - 1
    BY <1>1, SMT
  <2>2. q[(n - 1) \div NumBlocks + 1] \in QueuedPiece
    BY <2>1, ElementOfSeq
  <2>3. QED
    BY <1>1, <2>1, <2>2 DEF QueuedPiece, Request
<1>4. ReRequests(q) \in Seq(Request) /\ Len(ReRequests(q)) = NumBlocks * Len(q)
  BY <1>2, <1>3, IsASeq, LenProperties DEF ReRequests
<1>5. ASSUME NEW k \in DOMAIN q, NEW b \in Block
      PROVE  /\ NumBlocks * (k - 1) + b + 1 \in 1 .. NumBlocks * Len(q)
             /\ ReRequests(q)[NumBlocks * (k - 1) + b + 1]
                    = [index |-> q[k].index, block |-> b]
  <2> DEFINE m == NumBlocks * (k - 1) + b
  <2>1. k - 1 \in Nat /\ k <= Len(q) /\ b \in Nat /\ b < NumBlocks
    BY <1>1
  <2>2. NumBlocks * k <= NumBlocks * Len(q) /\ NumBlocks * k \in Nat
    BY <1>1, <2>1
  <2>3. NumBlocks * (k - 1) = NumBlocks * k - NumBlocks /\ NumBlocks * (k - 1) \in Nat
    BY <1>1, <2>1
  <2>4. m + 1 \in 1 .. NumBlocks * Len(q)
    BY <1>1, <1>2, <2>1, <2>2, <2>3
  <2>5. m \div NumBlocks = k - 1 /\ m % NumBlocks = b
    <3>1. /\ k - 1 \in Nat /\ b \in 0 .. NumBlocks - 1 /\ NumBlocks \in Nat \ {0}
      BY <1>1, <2>1
    <3>2. QED
      BY <3>1, Quotient
  <2>6. m \in Nat
    BY <2>1, <2>3
  <2> HIDE DEF m
  <2>7. ReRequests(q)[m + 1] = [index |-> q[k].index, block |-> b]
    <3>1. (m + 1) - 1 = m /\ (k - 1) + 1 = k
      BY <1>1, <2>6
    <3>2. QED
      BY <2>4, <2>5, <3>1 DEF ReRequests
  <2>8. QED
    BY <2>4, <2>7 DEF m
<1>6. QED
  BY <1>4, <1>5

------------------------------------------------------------------------------
(* The types of the peers' state, and the file manager inside Download *)

SideTypeOK ==
    /\ conn \in [Peers -> {"new", "up", "refused", "left"}]
    /\ choked \subseteq Peers
    /\ has \in [Peers -> SUBSET Piece]
    /\ queue \in [Peers -> Seq(QueuedPiece)]
    /\ wire \in [Peers -> Seq(Request)]
    /\ cont \in Cont

\* What a continuation holds.
LEMMA ContFields ==
  ASSUME cont \in Cont
  PROVE  /\ cont.stage \in {"none", "complete", "request"}
         /\ cont.stage = "none" <=> cont = NoCont
         /\ cont.stage = "complete" =>
                cont.peer \in Peers /\ cont.index \in Piece /\ cont.data \in Content
         /\ cont.stage = "request" => cont.peer \in Peers
  BY DEF Cont, NoCont

\* Download asks of the file manager what module FileManager allows.
LEMMA ManagerStep == SideTypeOK /\ [DownloadNext]_dlVars => [Next]_fmVars
<1> SUFFICES ASSUME SideTypeOK, [DownloadNext]_dlVars PROVE Next \/ UNCHANGED fmVars
  OBVIOUS
<1>0. cont \in Cont /\ has \in [Peers -> SUBSET Piece]
  BY DEF SideTypeOK
<1>1. CASE PieceAccepted
  <2>1. cont.peer \in Peers /\ cont.index \in Piece /\ cont.data \in Content
    BY <1>0, <1>1, ContFields DEF PieceAccepted
  <2>2. QED
    BY <1>1, <2>1 DEF PieceAccepted, Next, MainNext
<1>2. CASE RequestPiece
  <2>1. cont.peer \in Peers
    BY <1>0, <1>2, ContFields DEF RequestPiece
  <2>2. has[cont.peer] \in SUBSET Piece
    BY <1>0, <2>1
  <2>3. UNCHANGED fmVars \/ \E i \in Piece : GetNextPiece(i, has[cont.peer])
    BY <1>2 DEF RequestPiece
  <2>4. QED
    BY <2>2, <2>3 DEF Next, MainNext
<1>3. CASE PieceRefused
  BY <1>3 DEF PieceRefused
<1>4. CASE PushWrite \/ Worker \/ SpuriousWakeup
  BY <1>4 DEF Worker, Next, MainNext
<1>5. ASSUME NEW p \in Peers,
             \/ \E S \in SUBSET Piece : Bitfield(p, S)
             \/ UnChoke(p) \/ Answer(p) \/ Choke(p) \/ Leave(p)
             \/ \E i \in Piece : Have(p, i)
             \/ \E i \in Piece, b \in Block : Unsolicited(p, i, b)
      PROVE  UNCHANGED fmVars
  BY <1>5 DEF Bitfield, UnChoke, Answer, Choke, Leave, Have, Unsolicited, PieceBlock
<1>6. CASE UNCHANGED dlVars
  BY <1>6 DEF dlVars
<1>7. QED
  BY <1>1, <1>2, <1>3, <1>4, <1>5, <1>6 DEF DownloadNext, HandlerProgress, Message

\* The block answers the oldest of the requests w, or none of them.
Answered(w, i, b, rest) ==
    \/ w # <<>> /\ i = Head(w).index /\ b = Head(w).block /\ rest = Tail(w)
    \/ rest = w

\* What a block finds: a piece and a block number, and a list of requests.
LEMMA BlockArrives ==
  ASSUME SideTypeOK, NEW p \in Peers,
         Answer(p) \/ \E i \in Piece, b \in Block : Unsolicited(p, i, b)
  PROVE  \E i \in Piece, b \in Block, rest \in Seq(Request) :
             Answered(wire[p], i, b, rest) /\ PieceBlock(p, i, b, rest)
<1>1. wire[p] \in Seq(Request)
  BY DEF SideTypeOK
<1>2. CASE Answer(p)
  <2>1. wire[p] # <<>>
    BY <1>2 DEF Answer
  <2>2. Head(wire[p]) \in Request /\ Tail(wire[p]) \in Seq(Request)
    BY <1>1, <2>1, HeadTailProperties
  <2>3. Head(wire[p]).index \in Piece /\ Head(wire[p]).block \in Block
    BY <2>2 DEF Request
  <2>4. QED
    BY <1>2, <2>1, <2>2, <2>3 DEF Answer, Answered
<1>3. CASE \E i \in Piece, b \in Block : Unsolicited(p, i, b)
  BY <1>1, <1>3 DEF Unsolicited, Answered
<1>4. QED
  BY <1>2, <1>3

\* What the handler of a block makes of m_queue s, with e the entry it found,
\* and of the unanswered requests: q and v.
Cancels(s, e, i, rest, q, v) ==
    /\ q = Without(s, e)
    /\ \E k \in 0 .. Len(rest) :
           v = SubSeq(rest, 1, k) \o NotFor(SubSeq(rest, k + 1, Len(rest)), i)
Stores(s, e, i, b, rest, q, v) ==
    /\ q = [s EXCEPT ![e] = [index |-> i, got |-> s[e].got \cup {b},
                             current |-> s[e].current + 1]]
    /\ v = rest
Assembles(s, e, rest, q, v) == q = Without(s, e) /\ v = rest

\* The ways through that handler.
LEMMA PieceBlockCases ==
  ASSUME SideTypeOK, NEW p \in Peers, NEW i \in Piece, NEW b \in Block,
         NEW rest \in Seq(Request), PieceBlock(p, i, b, rest)
  PROVE  \/ Drop(p, "refused") /\ EntryOf(p, i) = 0
         \/ \E e \in DOMAIN queue[p], q \in Seq(QueuedPiece), v \in Seq(Request) :
                /\ e = EntryOf(p, i)
                /\ queue' = [queue EXCEPT ![p] = q]
                /\ wire' = [wire EXCEPT ![p] = v]
                /\ UNCHANGED <<conn, choked, has>>
                /\ \/ /\ Cancels(queue[p], e, i, rest, q, v) /\ i \in completedBits
                      /\ cont' = cont
                   \/ /\ Stores(queue[p], e, i, b, rest, q, v)
                      /\ BlockStored(p, i, b, rest) /\ cont' = cont
                   \/ /\ Assembles(queue[p], e, rest, q, v)
                      /\ PieceAssembled(p, i, b, rest)
                      /\ cont'.stage = "complete" /\ cont'.peer = p /\ cont'.index = i
                      /\ cont' \in Cont
<1> DEFINE e == EntryOf(p, i)
<1>0. queue \in [Peers -> Seq(QueuedPiece)] /\ wire \in [Peers -> Seq(Request)]
  BY DEF SideTypeOK
<1>1. queue[p] \in Seq(QueuedPiece)
  BY <1>0
<1>2. e # 0 => e \in DOMAIN queue[p] /\ queue[p][e].index = i
  BY <1>1, EntryIsFirst
<1>3. CASE PieceNotAsked(p, i)
  BY <1>3 DEF PieceNotAsked
<1>4. CASE PieceAlreadyDone(p, i, rest)
  <2>1. e # 0 /\ i \in completedBits /\ UNCHANGED <<conn, choked, has, cont>>
    BY <1>4 DEF PieceAlreadyDone
  <2>2. queue' = [queue EXCEPT ![p] = Without(queue[p], e)]
    BY <1>4 DEF PieceAlreadyDone
  <2>3. PICK k \in 0 .. Len(rest) :
            wire' = [wire EXCEPT ![p] = SubSeq(rest, 1, k)
                                        \o NotFor(SubSeq(rest, k + 1, Len(rest)), i)]
    BY <1>4 DEF PieceAlreadyDone
  <2>4. SubSeq(rest, 1, k) \o NotFor(SubSeq(rest, k + 1, Len(rest)), i) \in Seq(Request)
    BY CancelThins
  <2>5. Without(queue[p], e) \in Seq(QueuedPiece)
    BY <1>1, <1>2, <2>1, WithoutEntry
  <2> HIDE DEF e
  <2>6. QED
    BY <1>2, <1>4, <2>1, <2>2, <2>3, <2>4, <2>5 DEF e, Cancels
<1>5. CASE BlockStored(p, i, b, rest)
  <2> DEFINE n == [index |-> i, got |-> queue[p][e].got \cup {b},
                   current |-> queue[p][e].current + 1]
             q == [queue[p] EXCEPT ![e] = n]
  <2>1. /\ e # 0 /\ queue[p][e].current + 1 < NumBlocks
        /\ wire' = [wire EXCEPT ![p] = rest] /\ UNCHANGED <<conn, choked, has, cont>>
        /\ queue' = [queue EXCEPT ![p][e].got = @ \cup {b}, ![p][e].current = @ + 1]
    BY <1>5 DEF BlockStored
  <2>2. queue[p][e] \in QueuedPiece
    BY <1>1, <1>2, <2>1
  <2>3. n \in QueuedPiece
    BY <2>1, <2>2, FileManagerAssumption DEF QueuedPiece, Block
  <2>4. [queue[p][e] EXCEPT !.got = @ \cup {b}, !.current = @ + 1] = n
    <3>1. ASSUME NEW r \in QueuedPiece, r.index = i
          PROVE  [r EXCEPT !.got = @ \cup {b}, !.current = @ + 1]
                     = [index |-> i, got |-> r.got \cup {b}, current |-> r.current + 1]
      <4>1. r = [index |-> i, got |-> r.got, current |-> r.current]
        BY <3>1 DEF QueuedPiece
      <4> DEFINE u == [r EXCEPT !.got = @ \cup {b}, !.current = @ + 1]
                 v == [index |-> i, got |-> r.got \cup {b}, current |-> r.current + 1]
                 F == {"index", "got", "current"}
      <4>2. u.index = v.index /\ u.got = v.got /\ u.current = v.current
        BY <4>1
      <4>3. u = [f \in F |-> u[f]]
        BY <4>1
      <4>4. v = [f \in F |-> v[f]]
        OBVIOUS
      <4> HIDE DEF u, v
      <4>5. \A f \in F : u[f] = v[f]
        BY <4>2
      <4>6. u = v
        BY <4>3, <4>4, <4>5
      <4>7. QED
        BY <4>6 DEF u, v
    <3> HIDE DEF e
    <3>2. QED
      BY <1>2, <2>1, <2>2, <3>1
  <2>5. queue' = [queue EXCEPT ![p] = q]
    <3>1. queue' = [queue EXCEPT ![p] = [queue[p] EXCEPT ![e] =
                       [queue[p][e] EXCEPT !.got = @ \cup {b}, !.current = @ + 1]]]
      BY <1>0, <2>1
    <3>2. QED
      BY <2>4, <3>1
  <2> HIDE DEF n
  <2>6. q \in Seq(QueuedPiece)
    BY <1>1, <1>2, <2>1, <2>3, ExceptSeq
  <2> HIDE DEF e, q
  <2>7. QED
    BY <1>2, <1>5, <2>1, <2>5, <2>6 DEF e, n, q, Stores
<1>6. CASE PieceAssembled(p, i, b, rest)
  <2>1. /\ e # 0 /\ wire' = [wire EXCEPT ![p] = rest] /\ UNCHANGED <<conn, choked, has>>
        /\ queue' = [queue EXCEPT ![p] = Without(queue[p], e)]
        /\ \E d \in Content :
               cont' = [stage |-> "complete", peer |-> p, index |-> i, data |-> d]
    BY <1>6 DEF PieceAssembled
  <2>2. Without(queue[p], e) \in Seq(QueuedPiece)
    BY <1>1, <1>2, <2>1, WithoutEntry
  <2>3. /\ cont' \in Cont /\ cont'.stage = "complete"
        /\ cont'.peer = p /\ cont'.index = i
    BY <2>1 DEF Cont
  <2> HIDE DEF e
  <2>4. QED
    BY <1>2, <1>6, <2>1, <2>2, <2>3 DEF e, Assembles
<1>7. QED
  BY <1>3, <1>4, <1>5, <1>6 DEF PieceBlock

------------------------------------------------------------------------------
(* Types *)

\* Every handler keeps the types of the peers' state.
LEMMA SideStep == SideTypeOK /\ [DownloadNext]_dlVars => SideTypeOK'
<1> SUFFICES ASSUME SideTypeOK, [DownloadNext]_dlVars PROVE SideTypeOK'
  OBVIOUS
<1>0. /\ conn \in [Peers -> {"new", "up", "refused", "left"}]
      /\ choked \subseteq Peers /\ has \in [Peers -> SUBSET Piece]
      /\ queue \in [Peers -> Seq(QueuedPiece)] /\ wire \in [Peers -> Seq(Request)]
      /\ cont \in Cont
  BY DEF SideTypeOK
<1>a. <<>> \in Seq(QueuedPiece) /\ <<>> \in Seq(Request) /\ NoCont \in Cont
  BY DEF NoCont, Cont
<1>1. ASSUME NEW p \in Peers, NEW S \in SUBSET Piece, Bitfield(p, S) PROVE SideTypeOK'
  <2>1. cont' \in Cont
    BY <1>1, <1>a DEF Bitfield, Cont
  <2>2. has[p] \cup S \in SUBSET Piece
    BY <1>0
  <2>3. QED
    BY <1>0, <1>1, <2>1, <2>2 DEF Bitfield, SideTypeOK
<1>2. ASSUME NEW p \in Peers, NEW i \in Piece, Have(p, i) PROVE SideTypeOK'
  <2>1. has[p] \cup {i} \in SUBSET Piece
    BY <1>0
  <2>2. QED
    BY <1>0, <1>2, <2>1 DEF Have, SideTypeOK
<1>3. ASSUME NEW p \in Peers, Choke(p) PROVE SideTypeOK'
  BY <1>0, <1>a, <1>3 DEF Choke, SideTypeOK
<1>4. ASSUME NEW p \in Peers, UnChoke(p) PROVE SideTypeOK'
  <2>1. wire[p] \o ReRequests(queue[p]) \in Seq(Request)
    BY <1>0, ReRequestsForQueue, ConcatProperties
  <2>2. QED
    BY <1>0, <1>4, <2>1 DEF UnChoke, SideTypeOK
<1>5. ASSUME NEW p \in Peers, NEW why \in {"refused", "left"}, Drop(p, why) PROVE SideTypeOK'
  BY <1>0, <1>5, <1>a DEF Drop, SideTypeOK
<1>6. ASSUME NEW p \in Peers,
             Answer(p) \/ \E i \in Piece, b \in Block : Unsolicited(p, i, b)
      PROVE  SideTypeOK'
  <2>1. PICK i \in Piece, b \in Block, rest \in Seq(Request) : PieceBlock(p, i, b, rest)
    BY <1>6, BlockArrives
  <2>2. CASE Drop(p, "refused")
    BY <1>5, <2>2
  <2>3. CASE \E q \in Seq(QueuedPiece), v \in Seq(Request) :
                 /\ queue' = [queue EXCEPT ![p] = q] /\ wire' = [wire EXCEPT ![p] = v]
                 /\ UNCHANGED <<conn, choked, has>> /\ cont' \in Cont
    BY <1>0, <2>3 DEF SideTypeOK
  <2>4. QED
    BY <1>0, <2>1, <2>2, <2>3, PieceBlockCases
<1>7. ASSUME NEW p \in Peers, Leave(p) PROVE SideTypeOK'
  BY <1>5, <1>7 DEF Leave
<1>8. CASE PieceAccepted
  <2>1. cont.peer \in Peers
    BY <1>0, <1>8, ContFields DEF PieceAccepted
  <2>2. cont' \in Cont
    BY <1>8, <2>1 DEF PieceAccepted, Cont
  <2>3. QED
    BY <1>0, <1>8, <2>2 DEF PieceAccepted, peerVars, SideTypeOK
<1>9. CASE PieceRefused
  BY <1>0, <1>9, <1>a DEF PieceRefused, peerVars, SideTypeOK
<1>10. CASE RequestPiece
  <2>1. cont.peer \in Peers
    BY <1>0, <1>10, ContFields DEF RequestPiece
  <2>2. ASSUME NEW i \in Piece, SendPieceRequest(cont.peer, i)
        PROVE  queue' \in [Peers -> Seq(QueuedPiece)] /\ wire' \in [Peers -> Seq(Request)]
    <3>1. [index |-> i, got |-> {}, current |-> 0] \in QueuedPiece
      BY FileManagerAssumption DEF QueuedPiece, Block
    <3>2. Append(queue[cont.peer], [index |-> i, got |-> {}, current |-> 0])
              \in Seq(QueuedPiece)
      BY <1>0, <2>1, <3>1, AppendProperties
    <3>3. wire[cont.peer] \o RequestsFor(i) \in Seq(Request)
      BY <1>0, <2>1, RequestsForPiece, ConcatProperties
    <3>4. QED
      BY <1>0, <2>1, <2>2, <3>2, <3>3 DEF SendPieceRequest
  <2>3. queue' \in [Peers -> Seq(QueuedPiece)] /\ wire' \in [Peers -> Seq(Request)]
    BY <1>0, <1>10, <2>2 DEF RequestPiece
  <2>4. QED
    BY <1>0, <1>a, <1>10, <2>3 DEF RequestPiece, SideTypeOK
<1>11. CASE UNCHANGED <<peerVars, cont>>
  BY <1>0, <1>11 DEF peerVars, SideTypeOK
<1>12. QED
  BY <1>1, <1>2, <1>3, <1>4, <1>6, <1>7, <1>8, <1>9, <1>10, <1>11
     DEF DownloadNext, HandlerProgress, Message, Worker, dlVars

------------------------------------------------------------------------------
(* currentBlocks and the blocks that have arrived *)

\* currentBlocks is never less than the number of different blocks.
CountedIn(q) == \A k \in DOMAIN q : Cardinality(q[k].got) <= q[k].current

\* So a queued piece is still missing a block.
LEMMA SomethingMissing ==
  ASSUME NEW q \in Seq(QueuedPiece), CountedIn(q), NEW k \in DOMAIN q
  PROVE  \E b \in Block : b \notin q[k].got
<1>1. q[k] \in QueuedPiece
  BY ElementOfSeq, LenProperties
<1>2. q[k].got \subseteq Block /\ q[k].current \in Block
  BY <1>1 DEF QueuedPiece
<1>3. IsFiniteSet(Block) /\ Cardinality(Block) = NumBlocks
  <2>1. 0 \in Int /\ NumBlocks - 1 \in Int /\ NumBlocks \in Nat \ {0}
    BY FileManagerAssumption
  <2>2. QED
    BY <2>1, FS_Interval DEF Block
<1>4. q[k].got # Block
  <2>1. q[k].current < NumBlocks /\ NumBlocks \in Nat /\ q[k].current \in Nat
    BY <1>2, FileManagerAssumption DEF Block
  <2>2. q[k].got = Block => NumBlocks <= q[k].current
    BY <1>3 DEF CountedIn
  <2>3. QED
    BY <2>1, <2>2
<1>5. QED
  BY <1>2, <1>4

LEMMA WithoutCounted ==
  ASSUME NEW q \in Seq(QueuedPiece), CountedIn(q), NEW e \in DOMAIN q
  PROVE  CountedIn(Without(q, e))
<1>1. Len(q) \in Nat /\ DOMAIN q = 1 .. Len(q)
  BY LenProperties
<1>2. ASSUME NEW k \in DOMAIN Without(q, e)
      PROVE  \E j \in DOMAIN q : Without(q, e)[k] = q[j]
  <2>1. k \in 1 .. Len(q) - 1 /\ (Without(q, e)[k] = q[k] \/ Without(q, e)[k] = q[k + 1])
    BY <1>2, WithoutEntry
  <2>2. k \in DOMAIN q /\ k + 1 \in DOMAIN q
    BY <1>1, <2>1
  <2>3. QED
    BY <2>1, <2>2
<1>3. QED
  BY <1>2 DEF CountedIn

LEMMA StoredCounted ==
  ASSUME NEW q \in Seq(QueuedPiece), CountedIn(q), NEW e \in DOMAIN q,
         NEW i \in Piece, NEW b \in Block
  PROVE  CountedIn([q EXCEPT ![e] = [index |-> i, got |-> q[e].got \cup {b},
                                     current |-> q[e].current + 1]])
<1> DEFINE n == [index |-> i, got |-> q[e].got \cup {b}, current |-> q[e].current + 1]
<1>1. q[e] \in QueuedPiece
  BY ElementOfSeq, LenProperties
<1>2. q[e].got \subseteq Block /\ q[e].current \in Nat
  BY <1>1, FileManagerAssumption DEF QueuedPiece, Block
<1>3. IsFiniteSet(q[e].got)
  <2>1. 0 \in Int /\ NumBlocks - 1 \in Int
    BY FileManagerAssumption
  <2>2. IsFiniteSet(Block)
    BY <2>1, FS_Interval DEF Block
  <2>3. QED
    BY <1>2, <2>2, FS_Subset
<1>4. /\ Cardinality(q[e].got) \in Nat
      /\ Cardinality(q[e].got \cup {b}) \in {Cardinality(q[e].got), Cardinality(q[e].got) + 1}
  BY <1>3, FS_AddElement, FS_CardinalityType
<1>5. Cardinality(q[e].got \cup {b}) <= q[e].current + 1
  BY <1>2, <1>4 DEF CountedIn
<1>6. Cardinality(n.got) <= n.current
  BY <1>5
<1> HIDE DEF n
<1>7. CountedIn([q EXCEPT ![e] = n])
  BY <1>6 DEF CountedIn
<1>8. QED
  BY <1>7 DEF n

LEMMA AppendCounted ==
  ASSUME NEW q \in Seq(QueuedPiece), CountedIn(q), NEW i \in Piece
  PROVE  CountedIn(Append(q, [index |-> i, got |-> {}, current |-> 0]))
<1> DEFINE n == [index |-> i, got |-> {}, current |-> 0]
           a == Append(q, n)
<1>1. n \in QueuedPiece
  BY FileManagerAssumption DEF QueuedPiece, Block
<1>2. Cardinality(n.got) <= n.current
  BY FS_EmptySet
<1> HIDE DEF n
<1>3. ASSUME NEW k \in DOMAIN a PROVE a[k] = n \/ (k \in DOMAIN q /\ a[k] = q[k])
  BY <1>1, AppendProperties, LenProperties
<1> HIDE DEF a
<1>4. CountedIn(a)
  BY <1>2, <1>3 DEF CountedIn
<1>5. QED
  BY <1>4 DEF a, n

------------------------------------------------------------------------------
(* Where the requests are *)

\* A request for block b of entry k of q is at position x of w, behind the
\* first s[k] requests and in front of those of every later entry.
At(q, w, s, k, b, x) ==
    /\ s[k] < x
    /\ \A l \in DOMAIN q : k < l => x <= s[l]
    /\ w[x] = [index |-> q[k].index, block |-> b]

Placed(q, w, s, done) ==
    \A k \in DOMAIN q : q[k].index \notin done =>
        \A b \in Block \ q[k].got : \E x \in 1 .. Len(w) : At(q, w, s, k, b, x)

\* Every block that is still owed is requested, in the order of the queue.
Promise(q, w, done) == \E s \in [DOMAIN q -> 0 .. Len(w)] : Placed(q, w, s, done)

\* Nothing is owed for an empty queue.
LEMMA EmptyPromise ==
  ASSUME NEW w \in Seq(Request), NEW done
  PROVE  Promise(<<>>, w, done)
<1> DEFINE s == [k \in DOMAIN <<>> |-> 0]
<1>1. DOMAIN <<>> = {}
  OBVIOUS
<1>2. s \in [DOMAIN <<>> -> 0 .. Len(w)]
  BY LenProperties
<1>3. Placed(<<>>, w, s, done)
  BY <1>1 DEF Placed
<1>4. QED
  BY <1>2, <1>3 DEF Promise

\* The entries of q2 are entries of q in the same order, r[k] for k, possibly
\* with more blocks.
Shrinks(q, q2, r) ==
    /\ r \in [DOMAIN q2 -> DOMAIN q]
    /\ \A k, l \in DOMAIN q2 : k < l => r[k] < r[l]
    /\ \A k \in DOMAIN q2 :
           q2[k].index = q[r[k]].index /\ q[r[k]].got \subseteq q2[k].got

\* No block still owed rests on a request at one of the positions in out.
NotOwed(q, w, s, q2, r, done, out) ==
    \A k \in DOMAIN q2 : q2[k].index \notin done =>
        \A b \in Block \ q2[k].got, x \in out : ~At(q, w, s, r[k], b, x)

\* Entries leave the queue, blocks arrive, pieces become complete and requests
\* leave wire: as long as no request goes that something still owed rests on,
\* the promise stands.
LEMMA PromiseThins ==
  ASSUME NEW q \in Seq(QueuedPiece), NEW w \in Seq(Request),
         NEW q2 \in Seq(QueuedPiece), NEW v \in Seq(Request),
         NEW done, NEW done2, done \subseteq done2,
         NEW s \in [DOMAIN q -> 0 .. Len(w)], Placed(q, w, s, done),
         NEW r, Shrinks(q, q2, r), NEW h, NEW out, Thins(w, v, h, out),
         NotOwed(q, w, s, q2, r, done2, out)
  PROVE  Promise(q2, v, done2)
<1> DEFINE t == [k \in DOMAIN q2 |-> h[s[r[k]]]]
<1>1. Len(w) \in Nat /\ Len(v) \in Nat
  BY LenProperties
<1>2. /\ h \in [0 .. Len(w) -> 0 .. Len(v)]
      /\ \A m, n \in 0 .. Len(w) : m <= n => h[m] <= h[n]
      /\ \A n \in 1 .. Len(w) : n \notin out => h[n - 1] < h[n] /\ v[h[n]] = w[n]
  BY DEF Thins
<1>3. /\ \A k \in DOMAIN q2 : r[k] \in DOMAIN q /\ s[r[k]] \in 0 .. Len(w)
      /\ \A k, l \in DOMAIN q2 : k < l => r[k] < r[l]
      /\ \A k \in DOMAIN q2 :
             q2[k].index = q[r[k]].index /\ q[r[k]].got \subseteq q2[k].got
  BY DEF Shrinks
<1>4. t \in [DOMAIN q2 -> 0 .. Len(v)]
  BY <1>2, <1>3
<1>5. ASSUME NEW k \in DOMAIN q2, q2[k].index \notin done2, NEW b \in Block \ q2[k].got
      PROVE  \E y \in 1 .. Len(v) : At(q2, v, t, k, b, y)
  <2>1. q[r[k]].index \notin done /\ b \in Block \ q[r[k]].got
    BY <1>3, <1>5
  <2>2. PICK x \in 1 .. Len(w) : At(q, w, s, r[k], b, x)
    BY <1>3, <2>1 DEF Placed
  <2>3. x \in 0 .. Len(w) /\ x - 1 \in 0 .. Len(w)
    BY <1>1
  <2>4. h[x - 1] < h[x] /\ v[h[x]] = w[x]
    BY <1>2, <1>5, <2>2 DEF NotOwed
  <2>5. h[x] \in 0 .. Len(v) /\ h[x - 1] \in 0 .. Len(v)
    BY <1>2, <2>3
  <2>6. h[x] \in 1 .. Len(v)
    BY <1>1, <2>4, <2>5
  <2>7. t[k] < h[x]
    <3>1. s[r[k]] < x
      BY <2>2 DEF At
    <3>2. s[r[k]] <= x - 1
      BY <1>1, <1>3, <2>3, <3>1
    <3>3. h[s[r[k]]] <= h[x - 1] /\ h[s[r[k]]] \in 0 .. Len(v)
      BY <1>2, <1>3, <2>3, <3>2
    <3>4. t[k] = h[s[r[k]]]
      OBVIOUS
    <3> HIDE DEF t
    <3>5. QED
      BY <1>1, <2>4, <2>5, <3>3, <3>4
  <2>8. ASSUME NEW l \in DOMAIN q2, k < l PROVE h[x] <= t[l]
    <3>1. r[k] < r[l]
      BY <1>3, <2>8
    <3>2. x <= s[r[l]]
      BY <1>3, <2>2, <3>1 DEF At
    <3>3. QED
      BY <1>2, <1>3, <2>3, <3>2
  <2>9. v[h[x]] = [index |-> q2[k].index, block |-> b]
    BY <1>3, <2>2, <2>4 DEF At
  <2> HIDE DEF t
  <2>10. At(q2, v, t, k, b, h[x])
    BY <2>7, <2>8, <2>9 DEF At
  <2>11. QED
    BY <2>6, <2>10
<1> HIDE DEF t
<1>6. Placed(q2, v, t, done2)
  BY <1>5 DEF Placed
<1>7. QED
  BY <1>4, <1>6 DEF Promise

\* Nothing changes but that pieces become complete.
LEMMA PromiseStays ==
  ASSUME NEW q \in Seq(QueuedPiece), NEW w \in Seq(Request),
         NEW done, NEW done2, done \subseteq done2, Promise(q, w, done)
  PROVE  Promise(q, w, done2)
<1>1. PICK s \in [DOMAIN q -> 0 .. Len(w)] : Placed(q, w, s, done)
  BY DEF Promise
<1>2. Placed(q, w, s, done2)
  BY <1>1 DEF Placed
<1>3. QED
  BY <1>2 DEF Promise

\* e is the entry find_if finds.
FirstFor(q, i, e) ==
    q[e].index = i /\ \A k \in DOMAIN q : q[k].index = i => e <= k

\* The block that answers the oldest request is for the first entry of its
\* piece, even if later entries (a bitfield sent twice queues a piece twice)
\* wait for the same block: their requests are further back.
LEMMA AnswerKeepsPromise ==
  ASSUME NEW q \in Seq(QueuedPiece), NEW w \in Seq(Request),
         NEW q2 \in Seq(QueuedPiece), NEW rest \in Seq(Request), NEW done,
         CountedIn(q), Promise(q, w, done),
         NEW i, NEW b, Answered(w, i, b, rest), NEW e \in DOMAIN q, FirstFor(q, i, e),
         NEW r, Shrinks(q, q2, r),
         \A k \in DOMAIN q2 : r[k] = e => b \in q2[k].got
  PROVE  Promise(q2, rest, done)
<1>1. PICK s \in [DOMAIN q -> 0 .. Len(w)] : Placed(q, w, s, done)
  BY DEF Promise
<1>2. CASE rest = w
  <2>1. PICK h : Thins(w, rest, h, {})
    BY <1>2, TailThins
  <2>2. done \subseteq done
    OBVIOUS
  <2>3. NotOwed(q, w, s, q2, r, done, {})
    BY DEF NotOwed
  <2>4. QED
    BY <1>1, <2>1, <2>2, <2>3, PromiseThins
<1>3. CASE w # <<>> /\ i = Head(w).index /\ b = Head(w).block /\ rest = Tail(w)
  <2>1. PICK h : Thins(w, rest, h, {1})
    BY <1>3, TailThins
  <2>2. done \subseteq done
    OBVIOUS
  <2>3. w[1] = Head(w) /\ DOMAIN q = 1 .. Len(q) /\ Len(w) \in Nat /\ Len(q) \in Nat
    BY <1>3, HeadTailProperties, LenProperties
  <2>4. ASSUME NEW k \in DOMAIN q2, q2[k].index \notin done,
               NEW c \in Block \ q2[k].got, At(q, w, s, r[k], c, 1)
        PROVE  FALSE
    <3>1. r[k] \in DOMAIN q /\ q[r[k]].index = i /\ c = b /\ s[r[k]] < 1
      BY <1>3, <2>3, <2>4 DEF At, Shrinks
    <3>2. r[k] # e /\ e <= r[k]
      BY <2>4, <3>1 DEF FirstFor
    <3>3. e < r[k]
      BY <2>3, <3>1, <3>2
    <3>4. PICK m \in Block : m \notin q[e].got
      BY SomethingMissing
    <3>5. q[e].index \notin done
      BY <2>4, <3>1 DEF Shrinks, FirstFor
    <3>6. PICK y \in 1 .. Len(w) : At(q, w, s, e, m, y)
      BY <1>1, <3>4, <3>5 DEF Placed
    <3>7. y <= s[r[k]] /\ s[r[k]] \in 0 .. Len(w)
      BY <3>1, <3>3, <3>6 DEF At
    <3>8. QED
      BY <2>3, <3>1, <3>7
  <2>5. NotOwed(q, w, s, q2, r, done, {1})
    BY <2>4 DEF NotOwed
  <2>6. QED
    BY <1>1, <2>1, <2>2, <2>5, PromiseThins
<1>4. QED
  BY <1>2, <1>3 DEF Answered

\* Entries of a queue from which entry e was taken.
LEMMA WithoutMap ==
  ASSUME NEW q \in Seq(QueuedPiece), NEW e \in DOMAIN q
  PROVE  \E r : /\ Shrinks(q, Without(q, e), r)
                /\ \A k \in DOMAIN Without(q, e) : r[k] # e
<1> DEFINE r == [k \in 1 .. Len(q) - 1 |-> IF k < e THEN k ELSE k + 1]
<1>1. Len(q) \in Nat /\ DOMAIN q = 1 .. Len(q)
  BY LenProperties
<1>2. /\ DOMAIN Without(q, e) = 1 .. Len(q) - 1
      /\ \A k \in 1 .. Len(q) - 1 :
             Without(q, e)[k] = IF k < e THEN q[k] ELSE q[k + 1]
  BY WithoutEntry
<1>3. r \in [1 .. Len(q) - 1 -> DOMAIN q]
  BY <1>1
<1>4. \A k, l \in 1 .. Len(q) - 1 : k < l => r[k] < r[l]
  BY <1>1
<1>5. \A k \in 1 .. Len(q) - 1 : Without(q, e)[k] = q[r[k]] /\ r[k] # e
  BY <1>1, <1>2
<1> HIDE DEF r
<1>6. Shrinks(q, Without(q, e), r)
  BY <1>2, <1>3, <1>4, <1>5 DEF Shrinks
<1>7. QED
  BY <1>2, <1>5, <1>6

\* A block that is not the last one of its piece.
LEMMA StoredKeepsPromise ==
  ASSUME NEW q \in Seq(QueuedPiece), NEW w \in Seq(Request), NEW rest \in Seq(Request),
         NEW done, CountedIn(q), Promise(q, w, done),
         NEW i, NEW b, Answered(w, i, b, rest), NEW e \in DOMAIN q, FirstFor(q, i, e),
         NEW c,
         NEW q2 \in Seq(QueuedPiece),
         q2 = [q EXCEPT ![e] = [index |-> i, got |-> q[e].got \cup {b}, current |-> c]]
  PROVE  Promise(q2, rest, done)
<1> DEFINE r == [k \in DOMAIN q |-> k]
           n == [index |-> i, got |-> q[e].got \cup {b}, current |-> c]
<1>1. n.index = i /\ n.got = q[e].got \cup {b}
  OBVIOUS
<1> HIDE DEF n
<1>2. /\ DOMAIN q2 = DOMAIN q /\ q2[e] = n
      /\ \A k \in DOMAIN q : k # e => q2[k] = q[k]
  BY DEF n
<1>3. r \in [DOMAIN q2 -> DOMAIN q] /\ \A k \in DOMAIN q : r[k] = k
  BY <1>2
<1> HIDE DEF r
<1>4. \A k, l \in DOMAIN q2 : k < l => r[k] < r[l]
  BY <1>2, <1>3
<1>5. /\ \A k \in DOMAIN q2 : q2[k].index = q[r[k]].index /\ q[r[k]].got \subseteq q2[k].got
      /\ \A k \in DOMAIN q2 : r[k] = e => b \in q2[k].got
  BY <1>1, <1>2, <1>3 DEF FirstFor
<1>6. Shrinks(q, q2, r)
  BY <1>3, <1>4, <1>5 DEF Shrinks
<1>7. ASSUME NEW u \in Seq(QueuedPiece), NEW f, Shrinks(q, u, f),
             \A k \in DOMAIN u : f[k] = e => b \in u[k].got
      PROVE  Promise(u, rest, done)
  BY <1>7, AnswerKeepsPromise
<1>8. QED
  BY <1>5, <1>6, <1>7

\* The last block of a piece, whose entry leaves the queue.
LEMMA AssembledKeepsPromise ==
  ASSUME NEW q \in Seq(QueuedPiece), NEW w \in Seq(Request), NEW rest \in Seq(Request),
         NEW done, CountedIn(q), Promise(q, w, done),
         NEW i, NEW b, Answered(w, i, b, rest), NEW e \in DOMAIN q, FirstFor(q, i, e)
  PROVE  Promise(Without(q, e), rest, done)
<1>1. PICK r : /\ Shrinks(q, Without(q, e), r)
               /\ \A k \in DOMAIN Without(q, e) : r[k] # e
  BY WithoutMap
<1>2. Without(q, e) \in Seq(QueuedPiece)
  BY WithoutEntry
<1>3. \A k \in DOMAIN Without(q, e) : r[k] = e => b \in Without(q, e)[k].got
  BY <1>1
<1>4. QED
  BY <1>1, <1>2, <1>3, AnswerKeepsPromise

\* A block of a piece that is complete: its entry goes, its requests are
\* cancelled, and what is owed for the other entries is still requested.
LEMMA CancelKeepsPromise ==
  ASSUME NEW q \in Seq(QueuedPiece), NEW w \in Seq(Request), NEW rest \in Seq(Request),
         NEW done, Promise(q, w, done), NEW e \in DOMAIN q,
         NEW i \in done, NEW b, Answered(w, i, b, rest),
         NEW k \in 0 .. Len(rest), NEW v,
         v = SubSeq(rest, 1, k) \o NotFor(SubSeq(rest, k + 1, Len(rest)), i)
  PROVE  Promise(Without(q, e), v, done)
<1> DEFINE out == {n \in 1 .. Len(w) : w[n].index = i}
           B == {n \in 1 .. Len(rest) : rest[n].index = i}
<1>1. PICK s \in [DOMAIN q -> 0 .. Len(w)] : Placed(q, w, s, done)
  BY DEF Promise
<1>2. PICK r : Shrinks(q, Without(q, e), r)
  BY WithoutMap
<1>3. Without(q, e) \in Seq(QueuedPiece)
  BY WithoutEntry
<1>4. PICK h : v \in Seq(Request) /\ Thins(rest, v, h, B)
  BY CancelThins
<1>5. \E A, g : Thins(w, rest, g, A) /\ \A n \in 1 .. Len(w) : n \in A => n \in out
  <2>1. CASE rest = w
    BY <2>1, TailThins
  <2>2. CASE w # <<>> /\ i = Head(w).index /\ rest = Tail(w)
    <3>1. w[1].index = i
      BY <2>2, HeadTailProperties
    <3>2. QED
      BY <2>2, <3>1, TailThins
  <2>3. QED
    BY <2>1, <2>2 DEF Answered
<1>6. PICK A, g : Thins(w, rest, g, A) /\ \A n \in 1 .. Len(w) : n \in A => n \in out
  BY <1>5
<1>7. \A n \in 1 .. Len(w) : n \notin out => n \notin A /\ g[n] \notin B
  <2>1. ASSUME NEW n \in 1 .. Len(w), n \notin out, g[n] \in B PROVE FALSE
    <3>1. rest[g[n]] = w[n]
      BY <1>6, <2>1 DEF Thins
    <3>2. QED
      BY <2>1, <3>1
  <2>2. QED
    BY <1>6, <2>1
<1> HIDE DEF out, B
<1>8. PICK f : Thins(w, v, f, out)
  BY <1>4, <1>6, <1>7, ThinsTwice
<1>9. done \subseteq done
  OBVIOUS
<1>10. NotOwed(q, w, s, Without(q, e), r, done, out)
  <2>1. ASSUME NEW m \in DOMAIN Without(q, e), Without(q, e)[m].index \notin done,
               NEW c, NEW x \in out, At(q, w, s, r[m], c, x)
        PROVE  FALSE
    <3>1. w[x].index = i /\ w[x].index = q[r[m]].index
      BY <2>1 DEF At, out
    <3>2. QED
      BY <1>2, <2>1, <3>1 DEF Shrinks
  <2>2. QED
    BY <2>1 DEF NotOwed
<1>11. QED
  BY <1>1, <1>2, <1>3, <1>4, <1>8, <1>9, <1>10, PromiseThins

\* A piece is queued, and its requests go behind all others.
LEMMA RequestKeepsPromise ==
  ASSUME NEW q \in Seq(QueuedPiece), NEW w \in Seq(Request), NEW done,
         Promise(q, w, done), NEW i \in Piece
  PROVE  Promise(Append(q, [index |-> i, got |-> {}, current |-> 0]),
                 w \o RequestsFor(i), done)
<1> DEFINE n == [index |-> i, got |-> {}, current |-> 0]
           q2 == Append(q, n)
           v == w \o RequestsFor(i)
<1>1. PICK s \in [DOMAIN q -> 0 .. Len(w)] : Placed(q, w, s, done)
  BY DEF Promise
<1>2. /\ Len(q) \in Nat /\ Len(w) \in Nat /\ DOMAIN q = 1 .. Len(q)
      /\ NumBlocks \in Nat /\ Block = 0 .. NumBlocks - 1
  BY LenProperties, FileManagerAssumption DEF Block
<1>3. n \in QueuedPiece
  BY FileManagerAssumption DEF QueuedPiece, Block
<1>4. n.index = i
  OBVIOUS
<1> HIDE DEF n
<1>5. /\ DOMAIN q2 = 1 .. Len(q) + 1
      /\ \A k \in 1 .. Len(q) : q2[k] = q[k]
      /\ q2[Len(q) + 1] = n
  BY <1>2, <1>3, AppendProperties, LenProperties
<1>6. /\ Len(v) = Len(w) + NumBlocks
      /\ \A x \in 1 .. Len(w) : v[x] = w[x]
      /\ \A b \in Block : v[Len(w) + (b + 1)] = [index |-> i, block |-> b]
  <2>1. /\ RequestsFor(i) \in Seq(Request) /\ Len(RequestsFor(i)) = NumBlocks
        /\ \A b \in Block : b + 1 \in 1 .. NumBlocks
                            /\ RequestsFor(i)[b + 1] = [index |-> i, block |-> b]
    BY RequestsForPiece
  <2>2. /\ Len(v) = Len(w) + NumBlocks
        /\ \A x \in 1 .. Len(w) + NumBlocks :
               v[x] = IF x <= Len(w) THEN w[x] ELSE RequestsFor(i)[x - Len(w)]
    BY <2>1, ConcatProperties
  <2> HIDE DEF v
  <2>3. ASSUME NEW b \in Block
        PROVE  v[Len(w) + (b + 1)] = [index |-> i, block |-> b]
    <3>1. /\ Len(w) + (b + 1) \in 1 .. Len(w) + NumBlocks
          /\ ~(Len(w) + (b + 1) <= Len(w)) /\ (Len(w) + (b + 1)) - Len(w) = b + 1
      BY <1>2
    <3>2. QED
      BY <2>1, <2>2, <3>1
  <2>4. ASSUME NEW x \in 1 .. Len(w) PROVE v[x] = w[x]
    <3>1. x \in 1 .. Len(w) + NumBlocks /\ x <= Len(w)
      BY <1>2
    <3>2. QED
      BY <2>2, <3>1
  <2>5. QED
    BY <2>2, <2>3, <2>4
<1> DEFINE t == [k \in 1 .. Len(q) + 1 |-> IF k <= Len(q) THEN s[k] ELSE Len(w)]
<1>7. /\ t \in [1 .. Len(q) + 1 -> 0 .. Len(w)]
      /\ \A k \in 1 .. Len(q) : t[k] = s[k]
      /\ t[Len(q) + 1] = Len(w)
  BY <1>2
<1> HIDE DEF t, v, q2
<1>8. t \in [DOMAIN q2 -> 0 .. Len(v)]
  <2>1. \A k \in 1 .. Len(q) + 1 : t[k] \in 0 .. Len(v)
    BY <1>2, <1>6, <1>7, SMTT(30)
  <2>2. QED
    BY <1>5, <1>7, <2>1
<1>9. ASSUME NEW k \in DOMAIN q2, q2[k].index \notin done, NEW b \in Block \ q2[k].got
      PROVE  \E x \in 1 .. Len(v) : At(q2, v, t, k, b, x)
  <2>1. CASE k \in 1 .. Len(q)
    <3>1. PICK x \in 1 .. Len(w) : At(q, w, s, k, b, x)
      BY <1>1, <1>2, <1>5, <1>9, <2>1 DEF Placed
    <3>2. x \in 1 .. Len(v) /\ v[x] = w[x]
      BY <1>2, <1>6
    <3>3. ASSUME NEW l \in DOMAIN q2, k < l PROVE x <= t[l]
      BY <1>2, <1>5, <1>7, <3>1, <3>3 DEF At
    <3>4. At(q2, v, t, k, b, x)
      BY <1>5, <1>7, <2>1, <3>1, <3>2, <3>3 DEF At
    <3>5. QED
      BY <3>2, <3>4
  <2>2. CASE k = Len(q) + 1
    <3>1. /\ Len(w) + (b + 1) \in 1 .. Len(v)
          /\ Len(w) < Len(w) + (b + 1)
          /\ \A l \in DOMAIN q2 : ~(k < l)
      BY <1>2, <1>5, <1>6, <2>2
    <3>2. At(q2, v, t, k, b, Len(w) + (b + 1))
      BY <1>4, <1>5, <1>6, <1>7, <2>2, <3>1 DEF At
    <3>3. QED
      BY <3>1, <3>2
  <2>3. k \in 1 .. Len(q) \/ k = Len(q) + 1
    BY <1>2, <1>5
  <2>4. QED
    BY <2>1, <2>2, <2>3
<1>10. Placed(q2, v, t, done)
  BY <1>9 DEF Placed
<1>11. Promise(q2, v, done)
  BY <1>8, <1>10 DEF Promise
<1>12. QED
  BY <1>11 DEF q2, v, n

\* Unchoked, the client asks for everything in the queue once more.
LEMMA UnChokeMakesPromise ==
  ASSUME NEW q \in Seq(QueuedPiece), NEW w \in Seq(Request), NEW done
  PROVE  Promise(q, w \o ReRequests(q), done)
<1> DEFINE v == w \o ReRequests(q)
           s == [k \in DOMAIN q |-> Len(w) + NumBlocks * (k - 1)]
<1>1. /\ Len(q) \in Nat /\ Len(w) \in Nat /\ DOMAIN q = 1 .. Len(q)
      /\ NumBlocks \in Nat \ {0} /\ Block = 0 .. NumBlocks - 1
  BY LenProperties, FileManagerAssumption DEF Block
<1>2. /\ ReRequests(q) \in Seq(Request) /\ Len(ReRequests(q)) = NumBlocks * Len(q)
      /\ \A k \in DOMAIN q, b \in Block :
             /\ NumBlocks * (k - 1) + b + 1 \in 1 .. NumBlocks * Len(q)
             /\ ReRequests(q)[NumBlocks * (k - 1) + b + 1]
                    = [index |-> q[k].index, block |-> b]
  BY ReRequestsForQueue
<1>3. /\ Len(v) = Len(w) + NumBlocks * Len(q)
      /\ \A x \in 1 .. Len(w) + NumBlocks * Len(q) :
             v[x] = IF x <= Len(w) THEN w[x] ELSE ReRequests(q)[x - Len(w)]
  <2>1. /\ Len(v) = Len(w) + Len(ReRequests(q))
        /\ \A x \in 1 .. Len(w) + Len(ReRequests(q)) :
               v[x] = IF x <= Len(w) THEN w[x] ELSE ReRequests(q)[x - Len(w)]
    BY <1>2, ConcatProperties
  <2> HIDE DEF v
  <2>2. QED
    BY <1>2, <2>1
<1> HIDE DEF v
<1>4. NumBlocks * Len(q) \in Nat
  BY <1>1
<1>5. ASSUME NEW k \in DOMAIN q
      PROVE  NumBlocks * (k - 1) \in Nat /\ NumBlocks * (k - 1) <= NumBlocks * Len(q)
  <2>1. k - 1 \in Nat /\ k - 1 <= Len(q)
    BY <1>1
  <2>2. QED
    BY <1>1, <2>1
<1>6. \A k \in DOMAIN q : s[k] = Len(w) + NumBlocks * (k - 1)
  OBVIOUS
<1>7. s \in [DOMAIN q -> 0 .. Len(v)]
  BY <1>1, <1>3, <1>4, <1>5
<1> HIDE DEF s
<1>8. ASSUME NEW k \in DOMAIN q, NEW b \in Block
      PROVE  \E x \in 1 .. Len(v) : At(q, v, s, k, b, x)
  <2> DEFINE m == NumBlocks * (k - 1)
             x == Len(w) + (m + b + 1)
  <2>1. m \in Nat /\ b \in Nat /\ b < NumBlocks /\ m + b + 1 \in 1 .. NumBlocks * Len(q)
    <3>1. b \in Nat /\ b < NumBlocks
      BY <1>1
    <3>2. m \in Nat /\ m + b + 1 \in 1 .. NumBlocks * Len(q)
      BY <1>2, <1>5
    <3>3. QED
      BY <3>1, <3>2
  <2>2. ReRequests(q)[m + b + 1] = [index |-> q[k].index, block |-> b]
    BY <1>2
  <2>3. s[k] = Len(w) + m
    BY <1>6
  <2>4. ASSUME NEW l \in DOMAIN q, k < l PROVE m + b + 1 <= NumBlocks * (l - 1)
    <3>1. k \in Nat /\ l - 1 \in Nat /\ k <= l - 1
      BY <1>1, <2>4
    <3>2. NumBlocks * k <= NumBlocks * (l - 1) /\ NumBlocks * k \in Nat
          /\ NumBlocks * (l - 1) \in Nat
      BY <1>1, <3>1
    <3>3. m = NumBlocks * k - NumBlocks
      BY <1>1, <3>1
    <3> HIDE DEF m
    <3>4. QED
      BY <1>1, <2>1, <3>2, <3>3, SMTT(30)
  <2>5. ASSUME NEW l \in DOMAIN q, k < l PROVE x <= s[l]
    <3>1. m + b + 1 <= NumBlocks * (l - 1) /\ s[l] = Len(w) + NumBlocks * (l - 1)
          /\ NumBlocks * (l - 1) \in Nat
      BY <1>5, <1>6, <2>4, <2>5
    <3> HIDE DEF m
    <3>2. QED
      BY <1>1, <2>1, <3>1
  <2> HIDE DEF m
  <2>6. /\ x \in 1 .. Len(w) + NumBlocks * Len(q) /\ ~(x <= Len(w))
        /\ x - Len(w) = m + b + 1 /\ Len(w) + m < x
    BY <1>1, <1>4, <2>1
  <2> HIDE DEF x
  <2>7. v[x] = [index |-> q[k].index, block |-> b]
    BY <1>3, <2>2, <2>6
  <2>8. At(q, v, s, k, b, x)
    BY <2>3, <2>5, <2>6, <2>7 DEF At
  <2>9. QED
    BY <1>3, <2>6, <2>8
<1>9. Placed(q, v, s, done)
  BY <1>8 DEF Placed
<1>10. QED
  BY <1>7, <1>9 DEF Promise, v

------------------------------------------------------------------------------
(* The queues of all peers *)

Counted == \A p \in Peers : CountedIn(queue[p])

\* Only a peer that has not choked us is asked at once.
Promised == \A p \in Peers \ choked : Promise(queue[p], wire[p], completedBits)

QInv == SideTypeOK /\ Counted /\ Promised

\* A step that touches the queue of one peer only.
LEMMA OneQueue ==
  ASSUME QInv, completedBits \subseteq completedBits', NEW p \in Peers,
         choked \subseteq choked' \cup {p},
         NEW q \in Seq(QueuedPiece), NEW v \in Seq(Request),
         queue' = [queue EXCEPT ![p] = q], wire' = [wire EXCEPT ![p] = v],
         CountedIn(q), p \notin choked' => Promise(q, v, completedBits')
  PROVE  Counted' /\ Promised'
<1>1. /\ queue \in [Peers -> Seq(QueuedPiece)] /\ wire \in [Peers -> Seq(Request)]
      /\ Counted /\ Promised
  BY DEF QInv, SideTypeOK
<1>2. /\ queue'[p] = q /\ wire'[p] = v
      /\ \A r \in Peers : r # p => queue'[r] = queue[r] /\ wire'[r] = wire[r]
  BY <1>1
<1>3. ASSUME NEW r \in Peers PROVE CountedIn(queue'[r])
  BY <1>1, <1>2 DEF Counted
<1>4. ASSUME NEW r \in Peers, r \notin choked'
      PROVE  Promise(queue'[r], wire'[r], completedBits')
  <2>1. CASE r = p
    BY <1>2, <1>4, <2>1
  <2>2. CASE r # p
    <3>1. Promise(queue[r], wire[r], completedBits)
      BY <1>1, <1>4, <2>2 DEF Promised
    <3>2. queue[r] \in Seq(QueuedPiece) /\ wire[r] \in Seq(Request)
      BY <1>1
    <3>3. Promise(queue[r], wire[r], completedBits')
      BY <3>1, <3>2, PromiseStays
    <3>4. QED
      BY <1>2, <2>2, <3>3
  <2>3. QED
    BY <2>1, <2>2
<1>5. QED
  BY <1>3, <1>4 DEF Counted, Promised

\* A step that touches none.
LEMMA NoQueue ==
  ASSUME QInv, completedBits \subseteq completedBits',
         choked' = choked, queue' = queue, wire' = wire
  PROVE  Counted' /\ Promised'
<1>1. ASSUME NEW p \in Peers \ choked PROVE Promise(queue[p], wire[p], completedBits')
  <2>1. queue[p] \in Seq(QueuedPiece) /\ wire[p] \in Seq(Request)
    BY DEF QInv, SideTypeOK
  <2>2. QED
    BY <2>1, PromiseStays DEF QInv, Promised
<1>2. QED
  BY <1>1 DEF QInv, Counted, Promised

\* The queues where a peer's connection ends.
LEMMA DropKeeps ==
  ASSUME QInv, NEW p \in Peers, NEW why, Drop(p, why), completedBits' = completedBits
  PROVE  Counted' /\ Promised'
<1>1. <<>> \in Seq(QueuedPiece) /\ <<>> \in Seq(Request)
  OBVIOUS
<1>2. CountedIn(<<>>)
  BY DEF CountedIn
<1>3. Promise(<<>>, <<>>, completedBits')
  BY <1>1, EmptyPromise
<1>4. QED
  BY <1>1, <1>2, <1>3, OneQueue DEF Drop

\* ... and where a block arrives.
LEMMA BlockKeeps ==
  ASSUME QInv, NEW p \in Peers, completedBits' = completedBits,
         Answer(p) \/ \E i \in Piece, b \in Block : Unsolicited(p, i, b)
  PROVE  Counted' /\ Promised'
<1>0. SideTypeOK /\ Counted /\ Promised
  BY DEF QInv
<1>1. PICK i \in Piece, b \in Block, rest \in Seq(Request) :
          Answered(wire[p], i, b, rest) /\ PieceBlock(p, i, b, rest)
  BY <1>0, BlockArrives
<1>2. /\ queue[p] \in Seq(QueuedPiece) /\ wire[p] \in Seq(Request) /\ CountedIn(queue[p])
      /\ p \notin choked => Promise(queue[p], wire[p], completedBits)
  BY <1>0 DEF SideTypeOK, Counted, Promised
<1>3. CASE Drop(p, "refused")
  BY <1>3, DropKeeps
<1>4. ASSUME NEW e \in DOMAIN queue[p], NEW q \in Seq(QueuedPiece), NEW v \in Seq(Request),
             FirstFor(queue[p], i, e), choked' = choked,
             \/ Cancels(queue[p], e, i, rest, q, v) /\ i \in completedBits
             \/ Stores(queue[p], e, i, b, rest, q, v)
             \/ Assembles(queue[p], e, rest, q, v)
      PROVE  CountedIn(q) /\ (p \notin choked' => Promise(q, v, completedBits'))
  <2>1. CASE Cancels(queue[p], e, i, rest, q, v) /\ i \in completedBits
    BY <1>1, <1>2, <1>4, <2>1, WithoutCounted, CancelKeepsPromise DEF Cancels
  <2>2. CASE Stores(queue[p], e, i, b, rest, q, v)
    <3>1. CountedIn(q)
      BY <1>2, <2>2, StoredCounted DEF Stores
    <3>2. Promise(queue[p], wire[p], completedBits) => Promise(q, rest, completedBits)
      BY <1>1, <1>2, <1>4, <2>2, StoredKeepsPromise DEF Stores
    <3>3. QED
      BY <1>2, <1>4, <2>2, <3>1, <3>2 DEF Stores
  <2>3. CASE Assembles(queue[p], e, rest, q, v)
    BY <1>1, <1>2, <1>4, <2>3, WithoutCounted, AssembledKeepsPromise DEF Assembles
  <2>4. QED
    BY <1>4, <2>1, <2>2, <2>3
<1>5. CASE ~Drop(p, "refused")
  <2>1. PICK e \in DOMAIN queue[p], q \in Seq(QueuedPiece), v \in Seq(Request) :
            /\ e = EntryOf(p, i)
            /\ queue' = [queue EXCEPT ![p] = q]
            /\ wire' = [wire EXCEPT ![p] = v]
            /\ choked' = choked
            /\ \/ Cancels(queue[p], e, i, rest, q, v) /\ i \in completedBits
               \/ Stores(queue[p], e, i, b, rest, q, v)
               \/ Assembles(queue[p], e, rest, q, v)
    BY <1>0, <1>1, <1>5, PieceBlockCases
  <2>2. FirstFor(queue[p], i, e)
    <3>1. e # 0
      BY <1>2, LenProperties
    <3>2. QED
      BY <1>2, <2>1, <3>1, EntryIsFirst DEF FirstFor
  <2>3. CountedIn(q) /\ (p \notin choked' => Promise(q, v, completedBits'))
    BY <1>4, <2>1, <2>2
  <2>4. completedBits \subseteq completedBits' /\ choked \subseteq choked' \cup {p}
    BY <2>1
  <2>5. QED
    BY <2>1, <2>3, <2>4, OneQueue
<1>6. QED
  BY <1>3, <1>5

\* Where requestPiece asks for a piece.
LEMMA RequestKeeps ==
  ASSUME QInv, completedBits' = completedBits, choked' = choked,
         NEW p \in Peers, NEW i \in Piece, SendPieceRequest(p, i)
  PROVE  Counted' /\ Promised'
<1> DEFINE n == [index |-> i, got |-> {}, current |-> 0]
           q == Append(queue[p], n)
           v == IF p \in choked THEN wire[p] ELSE wire[p] \o RequestsFor(i)
<1>1. /\ queue \in [Peers -> Seq(QueuedPiece)] /\ wire \in [Peers -> Seq(Request)]
      /\ Counted /\ Promised
  BY DEF QInv, SideTypeOK
<1>2. CountedIn(q)
  BY <1>1, AppendCounted DEF Counted
<1>3. p \notin choked' => Promise(q, v, completedBits')
  BY <1>1, RequestKeepsPromise DEF Promised
<1>4. n \in QueuedPiece
  BY FileManagerAssumption DEF QueuedPiece, Block
<1>5. q \in Seq(QueuedPiece) /\ v \in Seq(Request)
  BY <1>1, <1>4, AppendProperties, RequestsForPiece, ConcatProperties
<1>6. queue' = [queue EXCEPT ![p] = q] /\ wire' = [wire EXCEPT ![p] = v]
  BY <1>1 DEF SendPieceRequest
<1>7. completedBits \subseteq completedBits' /\ choked \subseteq choked' \cup {p}
  OBVIOUS
<1> HIDE DEF q, v
<1>8. QED
  BY <1>2, <1>3, <1>5, <1>6, <1>7, OneQueue

LEMMA QueueStep == QInv /\ [DownloadNext]_dlVars => QInv'
<1> SUFFICES ASSUME QInv, [DownloadNext]_dlVars PROVE QInv'
  OBVIOUS
<1>0. SideTypeOK'
  BY SideStep DEF QInv
<1> SUFFICES Counted' /\ Promised'
  BY <1>0 DEF QInv
<1>a. completedBits \subseteq completedBits'
  BY ManagerStep, CompletedGrows DEF QInv
<1>b. /\ queue \in [Peers -> Seq(QueuedPiece)] /\ wire \in [Peers -> Seq(Request)]
      /\ SideTypeOK
  BY DEF QInv, SideTypeOK
<1>1. ASSUME queue' = queue, wire' = wire, choked' = choked
      PROVE  Counted' /\ Promised'
  BY <1>1, <1>a, NoQueue
<1>2. ASSUME NEW p \in Peers, Choke(p) PROVE Counted' /\ Promised'
  <2>1. /\ queue' = [queue EXCEPT ![p] = queue[p]] /\ wire' = [wire EXCEPT ![p] = <<>>]
        /\ choked \subseteq choked' \cup {p} /\ p \in choked'
    BY <1>2, <1>b DEF Choke
  <2>2. queue[p] \in Seq(QueuedPiece) /\ CountedIn(queue[p]) /\ <<>> \in Seq(Request)
    BY <1>b DEF QInv, Counted
  <2>3. QED
    BY <1>a, <2>1, <2>2, OneQueue
<1>3. ASSUME NEW p \in Peers, UnChoke(p) PROVE Counted' /\ Promised'
  <2>1. queue[p] \in Seq(QueuedPiece) /\ CountedIn(queue[p]) /\ wire[p] \in Seq(Request)
    BY <1>b DEF QInv, Counted
  <2>2. /\ wire[p] \o ReRequests(queue[p]) \in Seq(Request)
        /\ Promise(queue[p], wire[p] \o ReRequests(queue[p]), completedBits')
    BY <2>1, ReRequestsForQueue, ConcatProperties, UnChokeMakesPromise
  <2>3. /\ queue' = [queue EXCEPT ![p] = queue[p]]
        /\ wire' = [wire EXCEPT ![p] = wire[p] \o ReRequests(queue[p])]
        /\ choked \subseteq choked' \cup {p}
    BY <1>3, <1>b DEF UnChoke
  <2>4. QED
    BY <1>a, <2>1, <2>2, <2>3, OneQueue
<1>4. ASSUME NEW p \in Peers,
             Answer(p) \/ \E i \in Piece, b \in Block : Unsolicited(p, i, b)
      PROVE  Counted' /\ Promised'
  <2>1. completedBits' = completedBits
    BY <1>4 DEF Answer, Unsolicited, PieceBlock, fmVars, bitVars
  <2>2. QED
    BY <1>4, <2>1, BlockKeeps
<1>5. ASSUME NEW p \in Peers, Leave(p) PROVE Counted' /\ Promised'
  BY <1>5, DropKeeps DEF Leave, fmVars, bitVars
<1>6. CASE RequestPiece
  <2>1. cont.peer \in Peers
    BY <1>6, <1>b, ContFields DEF RequestPiece, SideTypeOK
  <2>2. choked' = choked
    BY <1>6 DEF RequestPiece
  <2>3. CASE UNCHANGED <<queue, wire, fmVars>>
    <3>1. queue' = queue /\ wire' = wire
      BY <2>3
    <3>2. QED
      BY <1>1, <2>2, <3>1
  <2>4. ASSUME NEW i \in Piece, GetNextPiece(i, has[cont.peer]),
               SendPieceRequest(cont.peer, i)
        PROVE  Counted' /\ Promised'
    <3>1. completedBits' = completedBits
      BY <2>4 DEF GetNextPiece, bitVars
    <3>2. QED
      BY <2>1, <2>2, <2>4, <3>1, RequestKeeps
  <2>5. QED
    BY <1>6, <2>3, <2>4 DEF RequestPiece
<1>7. ASSUME NEW p \in Peers,
             \/ \E S \in SUBSET Piece : Bitfield(p, S)
             \/ \E i \in Piece : Have(p, i)
      PROVE  Counted' /\ Promised'
  <2>1. queue' = queue /\ wire' = wire /\ choked' = choked
    BY <1>7 DEF Bitfield, Have
  <2>2. QED
    BY <1>1, <2>1
<1>8. CASE PieceAccepted \/ PieceRefused \/ UNCHANGED <<peerVars, cont>>
  <2>1. queue' = queue /\ wire' = wire /\ choked' = choked
    BY <1>8 DEF PieceAccepted, PieceRefused, peerVars
  <2>2. QED
    BY <1>1, <2>1
<1>9. QED
  BY <1>2, <1>3, <1>4, <1>5, <1>6, <1>7, <1>8
     DEF DownloadNext, HandlerProgress, Message, Worker, dlVars

LEMMA QueueInit == DownloadInit => QInv
<1> SUFFICES ASSUME DownloadInit PROVE QInv
  OBVIOUS
<1>1. /\ conn = [p \in Peers |-> "new"] /\ choked = Peers /\ has = [p \in Peers |-> {}]
      /\ queue = [p \in Peers |-> <<>>] /\ wire = [p \in Peers |-> <<>>] /\ cont = NoCont
  BY DEF DownloadInit
<1>2. <<>> \in Seq(QueuedPiece) /\ <<>> \in Seq(Request)
  OBVIOUS
<1>3. NoCont \in Cont
  BY DEF NoCont, Cont
<1>4. SideTypeOK
  BY <1>1, <1>2, <1>3 DEF SideTypeOK
<1>5. Counted
  BY <1>1 DEF Counted, CountedIn
<1>6. Promised
  BY <1>1 DEF Promised
<1>7. QED
  BY <1>4, <1>5, <1>6 DEF QInv

LEMMA QueueInvariance == DownloadSpec => []QInv
<1>1. QED
  BY QueueInit, QueueStep, PTL DEF DownloadSpec

------------------------------------------------------------------------------
\* Downloading asks of the file manager only what module FileManager allows the
\* client, so whatever is proved of the manager holds here too.
THEOREM DownloadUsesFileManager == DownloadSpec => Spec
<1>1. DownloadInit => Init
  BY DEF DownloadInit
<1>2. QInv /\ [DownloadNext]_dlVars => [Next]_fmVars
  BY ManagerStep DEF QInv
<1>3. QED
  BY <1>1, <1>2, QueueInvariance, PTL DEF DownloadSpec, Spec

\* Every variable keeps its type, whatever the peers send.
THEOREM DownloadTypeCorrect == DownloadSpec => []DownloadTypeOK
<1>1. TypeOK /\ QInv => DownloadTypeOK
  BY DEF QInv, SideTypeOK, DownloadTypeOK
<1>2. QED
  BY <1>1, DownloadUsesFileManager, TypeCorrect, QueueInvariance, PTL

\* Whatever chokes, cancels, repeated bitfields and unasked-for blocks arrive,
\* every block the client still waits for at a peer that has not choked it is
\* requested from that peer.
THEOREM OwedBlocksAreRequested == DownloadSpec => []NothingForgotten
<1>1. ASSUME QInv PROVE NothingForgotten
  <2>1. ASSUME NEW p \in Peers \ choked, NEW k \in DOMAIN queue[p],
               queue[p][k].index \notin completedBits, NEW b \in Block \ queue[p][k].got
        PROVE  [index |-> queue[p][k].index, block |-> b] \in Range(wire[p])
    <3>1. PICK s \in [DOMAIN queue[p] -> 0 .. Len(wire[p])] :
              Placed(queue[p], wire[p], s, completedBits)
      BY <1>1 DEF QInv, Promised, Promise
    <3>2. PICK x \in 1 .. Len(wire[p]) : At(queue[p], wire[p], s, k, b, x)
      BY <2>1, <3>1 DEF Placed
    <3>3. x \in DOMAIN wire[p]
      <4>1. wire[p] \in Seq(Request)
        BY <1>1 DEF QInv, SideTypeOK
      <4>2. QED
        BY <4>1, LenProperties
    <3>4. QED
      BY <3>2, <3>3 DEF At, Range
  <2>2. QED
    BY <2>1 DEF NothingForgotten
<1>2. QED
  BY <1>1, QueueInvariance, PTL

------------------------------------------------------------------------------
(* Seeders *)

\* The requests for the blocks of piece i from block c on.
Rest(i, c) == [n \in 1 .. NumBlocks - c |-> [index |-> i, block |-> c + n - 1]]

LEMMA RestIsRequests ==
  ASSUME NEW i \in Piece, NEW c \in Block
  PROVE  /\ RequestsFor(i) = Rest(i, 0)
         /\ Rest(i, c) # <<>>
         /\ Head(Rest(i, c)) = [index |-> i, block |-> c]
         /\ Tail(Rest(i, c)) = Rest(i, c + 1)
         /\ c + 1 = NumBlocks => Rest(i, c + 1) = <<>>
<1>1. NumBlocks \in Nat \ {0} /\ Block = 0 .. NumBlocks - 1 /\ c \in Nat /\ c < NumBlocks
  BY FileManagerAssumption DEF Block
<1>2. RequestsFor(i) = Rest(i, 0)
  BY <1>1 DEF RequestsFor, Rest
<1>3. ASSUME NEW d \in 0 .. NumBlocks
      PROVE  Rest(i, d) \in Seq(Request) /\ Len(Rest(i, d)) = NumBlocks - d
  <2>1. NumBlocks - d \in Nat
    BY <1>1
  <2>2. \A n \in 1 .. NumBlocks - d : [index |-> i, block |-> d + n - 1] \in Request
    BY <1>1 DEF Request
  <2>3. QED
    BY <2>1, <2>2, IsASeq, LenProperties DEF Rest
<1>4. c \in 0 .. NumBlocks /\ c + 1 \in 0 .. NumBlocks
  BY <1>1
<1>5. Len(Rest(i, c)) = NumBlocks - c /\ Rest(i, c) \in Seq(Request) /\ Rest(i, c) # <<>>
  <2>1. Len(Rest(i, c)) = NumBlocks - c /\ Rest(i, c) \in Seq(Request)
    BY <1>3, <1>4
  <2>2. NumBlocks - c # 0
    BY <1>1
  <2>3. QED
    BY <2>1, <2>2, EmptySeq
<1>6. Head(Rest(i, c)) = [index |-> i, block |-> c]
  <2>1. Head(Rest(i, c)) = Rest(i, c)[1]
    BY <1>5, HeadTailProperties
  <2>2. 1 \in 1 .. NumBlocks - c /\ c + 1 - 1 = c
    BY <1>1
  <2>3. QED
    BY <2>1, <2>2 DEF Rest
<1>7. Tail(Rest(i, c)) = Rest(i, c + 1)
  <2>1. /\ Tail(Rest(i, c)) \in Seq(Request)
        /\ Len(Tail(Rest(i, c))) = NumBlocks - c - 1
        /\ \A n \in 1 .. NumBlocks - c - 1 : Tail(Rest(i, c))[n] = Rest(i, c)[n + 1]
    <3>1. Len(Tail(Rest(i, c))) = Len(Rest(i, c)) - 1
      BY <1>5, HeadTailProperties
    <3>2. Len(Tail(Rest(i, c))) = NumBlocks - c - 1
      BY <1>5, <3>1
    <3>3. QED
      BY <1>5, <3>2, HeadTailProperties
  <2>2. /\ Rest(i, c + 1) \in Seq(Request)
        /\ Len(Rest(i, c + 1)) = NumBlocks - c - 1
    <3>1. NumBlocks - (c + 1) = NumBlocks - c - 1
      BY <1>1
    <3>2. QED
      BY <1>3, <1>4, <3>1
  <2>3. ASSUME NEW n \in 1 .. NumBlocks - c - 1
        PROVE  Rest(i, c)[n + 1] = Rest(i, c + 1)[n]
    <3>1. /\ n + 1 \in 1 .. NumBlocks - c /\ n \in 1 .. NumBlocks - (c + 1)
          /\ c + (n + 1) - 1 = (c + 1) + n - 1
      BY <1>1
    <3>2. QED
      BY <3>1 DEF Rest
  <2>4. QED
    BY <2>1, <2>2, <2>3, SeqEqual
<1>8. c + 1 = NumBlocks => Rest(i, c + 1) = <<>>
  <2>1. c + 1 = NumBlocks => Len(Rest(i, c + 1)) = 0
    BY <1>1, <1>3, <1>4
  <2>2. QED
    BY <1>3, <1>4, <2>1, EmptySeq
<1>9. QED
  BY <1>2, <1>5, <1>6, <1>7, <1>8

\* A seeder has been asked for one piece, and its blocks arrive in order.
Asked(p) ==
    /\ conn[p] = "up"
    /\ Len(queue[p]) = 1
    /\ LET e == queue[p][1] IN
           /\ e.got = 0 .. e.current - 1
           /\ IF p \in choked THEN e.current = 0
              ELSE wire[p] = Rest(e.index, e.current)

\* Between two pieces nothing is queued or requested; after a lost race what
\* cancelPiece left on the way may still come.
SeederOK(p) ==
    /\ queue[p] = <<>> \/ Asked(p)
    /\ conn[p] = "new" \/ p \in choked => wire[p] = <<>>
    /\ conn[p] # "new" => has[p] = Piece
    /\ cont # NoCont /\ cont.peer = p =>
           conn[p] = "up" /\ queue[p] = <<>> /\ wire[p] = <<>>

\* Who delivers what.
DataOK ==
    cont.stage = "complete" =>
        /\ cont.peer \in Seeders => cont.data = "genuine"
        /\ cont.peer \in Liars => cont.data \in BadData

\* A queue of one entry.
LEMMA OneEntry ==
  ASSUME NEW q \in Seq(QueuedPiece), Len(q) = 1
  PROVE  /\ q[1] \in QueuedPiece /\ q = <<q[1]>> /\ DOMAIN q = {1} /\ q # <<>>
         /\ Without(q, 1) = <<>>
<1>1. q[1] \in QueuedPiece /\ DOMAIN q = {1} /\ q # <<>>
  BY ElementOfSeq, LenProperties
<1>2. q = <<q[1]>>
  BY <1>1, SeqEqual
<1>3. Without(q, 1) \in Seq(QueuedPiece) /\ Len(Without(q, 1)) = 0
  BY <1>1, WithoutEntry
<1>4. QED
  BY <1>1, <1>2, <1>3, EmptySeq

\* What a block from a seeder does.
LEMMA SeederAnswers ==
  ASSUME SideTypeOK, NEW p \in Seeders, SeederOK(p), Answer(p)
  PROVE  \/ queue[p] = <<>> /\ Drop(p, "refused")
         \/ /\ Asked(p) /\ UNCHANGED <<conn, choked, has>> /\ p \notin choked
            /\ LET e == queue[p][1]
                   n == [index |-> e.index, got |-> 0 .. e.current,
                         current |-> e.current + 1]
               IN  \/ /\ e.index \in completedBits /\ cont' = cont
                      /\ queue' = [queue EXCEPT ![p] = <<>>]
                      /\ \E v \in Seq(Request) : wire' = [wire EXCEPT ![p] = v]
                   \/ /\ n \in QueuedPiece /\ cont' = cont
                      /\ queue' = [queue EXCEPT ![p] = <<n>>]
                      /\ wire' = [wire EXCEPT ![p] = Rest(e.index, e.current + 1)]
                   \/ /\ queue' = [queue EXCEPT ![p] = <<>>]
                      /\ wire' = [wire EXCEPT ![p] = <<>>]
                      /\ cont' = [stage |-> "complete", peer |-> p, index |-> e.index,
                                  data |-> "genuine"]
<1> DEFINE i == Head(wire[p]).index
           b == Head(wire[p]).block
           rest == Tail(wire[p])
<1>0. p \in Peers /\ p \notin Liars
  BY DownloadAssumption
<1>1. /\ wire[p] \in Seq(Request) /\ queue[p] \in Seq(QueuedPiece) /\ wire[p] # <<>>
      /\ PieceBlock(p, i, b, rest)
  BY <1>0 DEF SideTypeOK, Answer
<1>2. i \in Piece /\ b \in Block /\ rest \in Seq(Request)
  <2>1. Head(wire[p]) \in Request /\ rest \in Seq(Request)
    BY <1>1, HeadTailProperties
  <2>2. QED
    BY <2>1 DEF Request
<1>3. p \notin choked
  BY <1>1 DEF SeederOK
<1> HIDE DEF i, b, rest
<1>4. CASE queue[p] = <<>>
  <2>1. EntryOf(p, i) = 0
    <3>1. DOMAIN queue[p] = {}
      BY <1>4
    <3>2. QED
      BY <1>1, <3>1, <1>0, EntryIsFirst
  <2>2. QED
    BY <1>1, <1>4, <2>1 DEF PieceBlock, PieceNotAsked, PieceAlreadyDone, BlockStored,
                            PieceAssembled
<1>5. CASE queue[p] # <<>>
  <2> DEFINE e == queue[p][1]
             n == [index |-> e.index, got |-> 0 .. e.current, current |-> e.current + 1]
  <2>1. Asked(p)
    BY <1>5 DEF SeederOK
  <2>2. /\ e \in QueuedPiece /\ queue[p] = <<e>> /\ DOMAIN queue[p] = {1}
        /\ Without(queue[p], 1) = <<>>
    BY <1>1, <2>1, OneEntry DEF Asked
  <2>3. e.index \in Piece /\ e.current \in Block
    BY <2>2 DEF QueuedPiece
  <2>4. e.got = 0 .. e.current - 1 /\ wire[p] = Rest(e.index, e.current)
    BY <1>3, <2>1 DEF Asked
  <2>5. i = e.index /\ b = e.current /\ rest = Rest(e.index, e.current + 1)
    BY <2>3, <2>4, RestIsRequests DEF i, b, rest
  <2>6. EntryOf(p, i) = 1
    <3>1. 1 \in DOMAIN queue[p] /\ queue[p][1].index = i
      BY <2>2, <2>5
    <3>2. EntryOf(p, i) \in DOMAIN queue[p]
      BY <1>0, <1>1, <3>1, EntryIsFirst
    <3>3. QED
      BY <2>2, <3>2
  <2>7. e.current \in Nat /\ e.current < NumBlocks /\ NumBlocks \in Nat
        /\ e.got \cup {b} = 0 .. e.current
    BY <2>3, <2>4, <2>5, FileManagerAssumption DEF Block
  <2> HIDE DEF e
  <2>8. CASE PieceNotAsked(p, i)
    BY <2>6, <2>8 DEF PieceNotAsked
  <2>9. CASE PieceAlreadyDone(p, i, rest)
    <3>1. /\ i \in completedBits /\ UNCHANGED <<conn, choked, has, cont>>
          /\ queue' = [queue EXCEPT ![p] = <<>>]
      BY <2>2, <2>6, <2>9 DEF PieceAlreadyDone
    <3>2. PICK k \in 0 .. Len(rest) :
              wire' = [wire EXCEPT ![p] = SubSeq(rest, 1, k)
                                          \o NotFor(SubSeq(rest, k + 1, Len(rest)), i)]
      BY <2>9 DEF PieceAlreadyDone
    <3>3. SubSeq(rest, 1, k) \o NotFor(SubSeq(rest, k + 1, Len(rest)), i) \in Seq(Request)
      BY <1>2, CancelThins
    <3>4. QED
      BY <1>3, <2>1, <2>5, <3>1, <3>2, <3>3 DEF e
  <2>10. CASE BlockStored(p, i, b, rest)
    <3>1. /\ e.current + 1 < NumBlocks /\ UNCHANGED <<conn, choked, has, cont>>
          /\ wire' = [wire EXCEPT ![p] = rest]
      BY <2>6, <2>10 DEF BlockStored, e
    <3>2. n \in QueuedPiece
      BY <2>3, <2>7, <3>1 DEF QueuedPiece, Block
    <3>3. queue' = [queue EXCEPT ![p] = <<n>>]
      <4>1. PICK j \in DOMAIN queue[p], q \in Seq(QueuedPiece), v \in Seq(Request) :
                /\ j = EntryOf(p, i)
                /\ queue' = [queue EXCEPT ![p] = q]
                /\ \/ i \in completedBits
                   \/ Stores(queue[p], j, i, b, rest, q, v)
                   \/ PieceAssembled(p, i, b, rest)
        <5>1. ~(EntryOf(p, i) = 0)
          BY <2>6
        <5>2. QED
          BY <1>0, <1>1, <1>2, <5>1, PieceBlockCases
      <4>2. i \notin completedBits /\ ~PieceAssembled(p, i, b, rest)
        BY <2>6, <2>7, <2>10, <3>1 DEF BlockStored, PieceAssembled, e
      <4>3. q = [queue[p] EXCEPT ![1] = [index |-> i, got |-> e.got \cup {b},
                                         current |-> e.current + 1]]
        BY <2>6, <4>1, <4>2 DEF Stores, e
      <4>4. q = [queue[p] EXCEPT ![1] = n]
        BY <2>5, <2>7, <4>3
      <4> HIDE DEF n
      <4>5. q = <<n>>
        BY <2>2, <4>4
      <4>6. QED
        BY <4>1, <4>5
    <3>4. QED
      BY <1>3, <2>1, <2>5, <3>1, <3>2, <3>3 DEF e
  <2>11. CASE PieceAssembled(p, i, b, rest)
    <3>1. /\ e.current + 1 = NumBlocks /\ UNCHANGED <<conn, choked, has>>
          /\ wire' = [wire EXCEPT ![p] = rest]
          /\ queue' = [queue EXCEPT ![p] = <<>>]
      BY <2>2, <2>6, <2>11 DEF PieceAssembled, e
    <3>2. rest = <<>>
      BY <2>3, <2>5, <3>1, RestIsRequests
    <3>3. e.got \cup {b} = Block
      <4>1. 0 .. e.current = 0 .. NumBlocks - 1
        BY <2>7, <3>1
      <4>2. QED
        BY <2>7, <4>1 DEF Block
    <3>4. cont' = [stage |-> "complete", peer |-> p, index |-> i, data |-> "genuine"]
      BY <1>0, <2>6, <2>11, <3>3 DEF PieceAssembled, e
    <3>5. QED
      BY <1>3, <2>1, <2>5, <3>1, <3>2, <3>4 DEF e
  <2>12. QED
    BY <1>1, <2>8, <2>9, <2>10, <2>11 DEF PieceBlock
<1>6. QED
  BY <1>4, <1>5

\* What another peer's handler leaves alone.
Untouched(p) ==
    /\ conn'[p] = conn[p] /\ has'[p] = has[p]
    /\ queue'[p] = queue[p] /\ wire'[p] = wire[p]
    /\ p \in choked' <=> p \in choked

LEMMA SeederFrame ==
  ASSUME NEW p \in Seeders, SeederOK(p), Untouched(p),
         cont' # NoCont /\ cont'.peer = p => cont # NoCont /\ cont.peer = p
  PROVE  SeederOK(p)'
<1>1. /\ conn'[p] = conn[p] /\ has'[p] = has[p]
      /\ queue'[p] = queue[p] /\ wire'[p] = wire[p]
      /\ p \in choked' <=> p \in choked
  BY DEF Untouched
<1>2. Asked(p) => Asked(p)'
  BY <1>1 DEF Asked
<1>3. queue[p] = <<>> \/ Asked(p)
  BY DEF SeederOK
<1>4. queue'[p] = <<>> \/ Asked(p)'
  BY <1>1, <1>2, <1>3
<1>5. /\ conn'[p] = "new" \/ p \in choked' => wire'[p] = <<>>
      /\ conn'[p] # "new" => has'[p] = Piece
  BY <1>1 DEF SeederOK
<1>6. cont' # NoCont /\ cont'.peer = p =>
           conn'[p] = "up" /\ queue'[p] = <<>> /\ wire'[p] = <<>>
  BY <1>1 DEF SeederOK
<1>7. QED
  BY <1>4, <1>5, <1>6 DEF SeederOK

\* A block from peer r, seen by the others.
LEMMA OthersBlock ==
  ASSUME SideTypeOK, NEW r \in Peers,
         Answer(r) \/ \E i \in Piece, b \in Block : Unsolicited(r, i, b)
  PROVE  /\ \A p \in Peers \ {r} : Untouched(p)
         /\ cont = NoCont
         /\ \/ cont' = NoCont
            \/ cont'.stage = "complete" /\ cont'.peer = r
<1>0. /\ conn \in [Peers -> {"new", "up", "refused", "left"}]
      /\ queue \in [Peers -> Seq(QueuedPiece)] /\ wire \in [Peers -> Seq(Request)]
  BY DEF SideTypeOK
<1>1. PICK i \in Piece, b \in Block, rest \in Seq(Request) : PieceBlock(r, i, b, rest)
  BY BlockArrives
<1>2. cont = NoCont
  BY <1>1 DEF PieceBlock, CanHandle
<1>3. CASE Drop(r, "refused")
  <2>1. \A p \in Peers \ {r} : Untouched(p)
    BY <1>0, <1>3 DEF Drop, Untouched
  <2>2. cont' = cont
    BY <1>3 DEF Drop
  <2>3. QED
    BY <1>2, <2>1, <2>2
<1>4. CASE ~Drop(r, "refused")
  <2>1. \E e \in DOMAIN queue[r], q \in Seq(QueuedPiece), v \in Seq(Request) :
            /\ queue' = [queue EXCEPT ![r] = q] /\ wire' = [wire EXCEPT ![r] = v]
            /\ UNCHANGED <<conn, choked, has>>
            /\ \/ cont' = cont
               \/ cont'.stage = "complete" /\ cont'.peer = r
    BY <1>1, <1>4, PieceBlockCases, SMTT(30)
  <2>2. QED
    BY <1>0, <1>2, <2>1 DEF Untouched
<1>5. QED
  BY <1>3, <1>4

\* What happens to a seeder.
LEMMA SeederStep ==
  ASSUME SideTypeOK, NEW p \in Seeders, SeederOK(p), [DownloadNext]_dlVars
  PROVE  SeederOK(p)'
<1>0. /\ conn \in [Peers -> {"new", "up", "refused", "left"}]
      /\ has \in [Peers -> SUBSET Piece]
      /\ queue \in [Peers -> Seq(QueuedPiece)] /\ wire \in [Peers -> Seq(Request)]
      /\ cont \in Cont
      /\ p \in Peers /\ p \notin Liars
  BY DownloadAssumption DEF SideTypeOK
<1>1. CASE UNCHANGED peerVars
           /\ (cont' # NoCont /\ cont'.peer = p => cont # NoCont /\ cont.peer = p)
  <2>1. Untouched(p)
    BY <1>1 DEF peerVars, Untouched
  <2>2. QED
    BY <1>1, <2>1, SeederFrame
<1>2. ASSUME NEW r \in Peers, r # p,
             \/ \E S \in SUBSET Piece : Bitfield(r, S)
             \/ UnChoke(r) \/ Choke(r) \/ Leave(r)
             \/ \E i \in Piece : Have(r, i)
             \/ Answer(r) \/ \E i \in Piece, b \in Block : Unsolicited(r, i, b)
      PROVE  SeederOK(p)'
  <2>1. CASE Answer(r) \/ \E i \in Piece, b \in Block : Unsolicited(r, i, b)
    <3>1. Untouched(p) /\ ~(cont' # NoCont /\ cont'.peer = p)
      BY <1>0, <1>2, <2>1, OthersBlock
    <3>2. QED
      BY <3>1, SeederFrame
  <2>2. CASE \E S \in SUBSET Piece : Bitfield(r, S)
    <3>1. Untouched(p) /\ ~(cont' # NoCont /\ cont'.peer = p)
      BY <1>0, <1>2, <2>2 DEF Bitfield, Untouched
    <3>2. QED
      BY <3>1, SeederFrame
  <2>3. CASE UnChoke(r) \/ Choke(r) \/ Leave(r) \/ \E i \in Piece : Have(r, i)
    <3>1. Untouched(p)
      BY <1>0, <1>2, <2>3 DEF UnChoke, Choke, Leave, Drop, Have, Untouched
    <3>2. cont' = cont
      BY <2>3 DEF UnChoke, Choke, Leave, Drop, Have
    <3>3. QED
      BY <3>1, <3>2, SeederFrame
  <2>4. QED
    BY <1>2, <2>1, <2>2, <2>3
<1>3. ASSUME NEW S \in SUBSET Piece, Bitfield(p, S) PROVE SeederOK(p)'
  <2>1. conn[p] = "new" /\ S = Piece
    BY <1>0, <1>3 DEF Bitfield
  <2>2. queue[p] = <<>> /\ wire[p] = <<>>
    BY <2>1 DEF SeederOK, Asked
  <2>3. /\ conn'[p] = "up" /\ has'[p] = Piece /\ queue'[p] = <<>> /\ wire'[p] = <<>>
    BY <1>0, <1>3, <2>1, <2>2 DEF Bitfield
  <2>4. QED
    BY <2>3 DEF SeederOK
<1>4. ASSUME NEW i \in Piece, Have(p, i) PROVE SeederOK(p)'
  <2>1. conn[p] = "up" /\ i \notin has[p]
    BY <1>4 DEF Have, CanHandle
  <2>2. QED
    BY <2>1 DEF SeederOK
<1>5. ASSUME UnChoke(p) PROVE SeederOK(p)'
  <2>1. /\ conn[p] = "up" /\ cont = NoCont /\ p \in choked /\ p \notin choked'
        /\ UNCHANGED <<conn, has, queue, cont>>
        /\ wire'[p] = wire[p] \o ReRequests(queue[p])
    BY <1>0, <1>5 DEF UnChoke, Unchokes, CanHandle
  <2>2. Asked(p) => Asked(p)'
    <3>1. ASSUME Asked(p) PROVE wire'[p] = Rest(queue[p][1].index, queue[p][1].current)
      <4>1. queue[p] \in Seq(QueuedPiece) /\ Len(queue[p]) = 1 /\ queue[p][1].current = 0
        BY <1>0, <2>1, <3>1 DEF Asked
      <4>2. queue[p][1] \in QueuedPiece
        BY <4>1, OneEntry
      <4> DEFINE i == queue[p][1].index
      <4>3. i \in Piece /\ NumBlocks \in Nat \ {0} /\ 0 \in Block
        BY <4>2, FileManagerAssumption DEF QueuedPiece, Block
      <4>4. ReRequests(queue[p]) = RequestsFor(i)
        <5>1. NumBlocks * Len(queue[p]) = NumBlocks
          BY <4>1, <4>3
        <5>2. ASSUME NEW n \in 1 .. NumBlocks
              PROVE  (n - 1) \div NumBlocks + 1 = 1 /\ (n - 1) % NumBlocks = n - 1
          BY <4>3, SMT
        <5>3. QED
          BY <5>1, <5>2 DEF ReRequests, RequestsFor
      <4>5. wire[p] = <<>>
        BY <2>1 DEF SeederOK
      <4>6. RequestsFor(i) \in Seq(Request) /\ RequestsFor(i) = Rest(i, 0)
        BY <4>3, RequestsForPiece, RestIsRequests
      <4>7. <<>> \o RequestsFor(i) = RequestsFor(i)
        BY <4>6, ConcatEmptySeq
      <4>8. QED
        BY <2>1, <4>1, <4>4, <4>5, <4>6, <4>7
    <3>2. QED
      BY <2>1, <3>1 DEF Asked
  <2>3. QED
    BY <2>1, <2>2 DEF SeederOK
<1>6. ASSUME Answer(p) PROVE SeederOK(p)'
  <2>1. CASE queue[p] = <<>> /\ Drop(p, "refused")
    <3>1. /\ conn'[p] = "refused" /\ queue'[p] = <<>> /\ wire'[p] = <<>>
          /\ has' = has /\ cont' = cont
      BY <1>0, <2>1 DEF Drop
    <3>2. conn[p] = "up" /\ cont = NoCont
      BY <1>6 DEF Answer, PieceBlock, CanHandle
    <3>3. QED
      BY <3>1, <3>2 DEF SeederOK
  <2> DEFINE e == queue[p][1]
             n == [index |-> e.index, got |-> 0 .. e.current, current |-> e.current + 1]
  <2>2. ASSUME Asked(p), UNCHANGED <<conn, choked, has>>, p \notin choked
        PROVE  conn'[p] = "up" /\ p \notin choked' /\ has'[p] = Piece
    BY <2>2 DEF SeederOK, Asked
  <2>3. cont = NoCont
    BY <1>6 DEF Answer, PieceBlock, CanHandle
  <2>4. ASSUME Asked(p), UNCHANGED <<conn, choked, has>>, p \notin choked,
               cont' = cont, queue' = [queue EXCEPT ![p] = <<>>]
        PROVE  SeederOK(p)'
    BY <1>0, <2>2, <2>3, <2>4 DEF SeederOK
  <2>5. ASSUME Asked(p), UNCHANGED <<conn, choked, has>>, p \notin choked,
               n \in QueuedPiece, cont' = cont, queue' = [queue EXCEPT ![p] = <<n>>],
               wire' = [wire EXCEPT ![p] = Rest(e.index, e.current + 1)]
        PROVE  SeederOK(p)'
    <3>1. /\ n.index = e.index /\ n.got = 0 .. n.current - 1 /\ n.current = e.current + 1
      <4>1. e.current \in Nat
        <5>1. e \in QueuedPiece
          BY <1>0, <2>5, OneEntry DEF Asked
        <5>2. QED
          BY <5>1, FileManagerAssumption DEF QueuedPiece, Block
      <4> HIDE DEF e
      <4>2. QED
        BY <4>1
    <3>2. queue'[p] = <<n>> /\ wire'[p] = Rest(n.index, n.current)
      BY <1>0, <2>5, <3>1
    <3> HIDE DEF n
    <3>3. Len(queue'[p]) = 1 /\ queue'[p][1] = n
      BY <3>2
    <3>4. Asked(p)'
      BY <2>2, <2>5, <3>1, <3>2, <3>3 DEF Asked
    <3>5. QED
      BY <2>2, <2>3, <2>5, <3>4 DEF SeederOK
  <2>6. ASSUME Asked(p), UNCHANGED <<conn, choked, has>>, p \notin choked,
               queue' = [queue EXCEPT ![p] = <<>>], wire' = [wire EXCEPT ![p] = <<>>]
        PROVE  SeederOK(p)'
    BY <1>0, <2>2, <2>6 DEF SeederOK
  <2> HIDE DEF e, n
  <2>7. QED
    BY <1>6, <2>1, <2>4, <2>5, <2>6, SeederAnswers DEF e, n
<1>7. CASE RequestPiece
  <2>1. cont.peer \in Peers /\ cont # NoCont /\ cont' = NoCont
        /\ UNCHANGED <<conn, choked, has>>
    BY <1>0, <1>7, ContFields DEF RequestPiece, NoCont
  <2>2. CASE cont.peer # p \/ UNCHANGED <<queue, wire>>
    <3>1. Untouched(p)
      BY <1>0, <1>7, <2>1, <2>2 DEF RequestPiece, SendPieceRequest, Untouched
    <3>2. QED
      BY <2>1, <3>1, SeederFrame
  <2>3. ASSUME cont.peer = p, NEW i \in Piece, SendPieceRequest(p, i)
        PROVE  SeederOK(p)'
    <3> DEFINE n == [index |-> i, got |-> {}, current |-> 0]
    <3>1. conn[p] = "up" /\ queue[p] = <<>> /\ wire[p] = <<>>
      BY <2>1, <2>3 DEF SeederOK
    <3>2. queue'[p] = <<n>>
      <4>1. queue'[p] = Append(<<>>, n)
        BY <1>0, <2>3, <3>1 DEF SendPieceRequest
      <4> HIDE DEF n
      <4>2. QED
        BY <4>1
    <3>3. IF p \in choked THEN wire'[p] = <<>> ELSE wire'[p] = Rest(i, 0)
      <4>1. RequestsFor(i) \in Seq(Request) /\ RequestsFor(i) = Rest(i, 0)
        BY RequestsForPiece, RestIsRequests, FileManagerAssumption DEF Block
      <4>2. <<>> \o RequestsFor(i) = RequestsFor(i)
        BY <4>1, ConcatEmptySeq
      <4>3. QED
        BY <1>0, <2>3, <3>1, <4>1, <4>2 DEF SendPieceRequest
    <3>4. n.index = i /\ n.current = 0 /\ n.got = 0 .. n.current - 1
      OBVIOUS
    <3> HIDE DEF n
    <3>5. Len(queue'[p]) = 1 /\ queue'[p][1] = n
      BY <3>2
    <3>6. Asked(p)'
      BY <2>1, <3>1, <3>3, <3>4, <3>5 DEF Asked
    <3>7. QED
      BY <2>1, <3>1, <3>3, <3>6 DEF SeederOK
  <2>4. QED
    BY <1>7, <2>2, <2>3 DEF RequestPiece
<1>8. CASE PieceAccepted \/ PieceRefused \/ UNCHANGED <<peerVars, cont>>
  <2>1. UNCHANGED peerVars
    BY <1>8 DEF PieceAccepted, PieceRefused
  <2>2. cont' # NoCont /\ cont'.peer = p => cont # NoCont /\ cont.peer = p
    BY <1>8 DEF PieceAccepted, PieceRefused, NoCont
  <2>3. QED
    BY <1>1, <2>1, <2>2
<1>9. ~Choke(p) /\ ~Leave(p) /\ \A i \in Piece, b \in Block : ~Unsolicited(p, i, b)
  BY <1>0 DEF Choke, Leave, Unsolicited
<1>10. ASSUME NEW r \in Peers,
             \/ Message(r) \/ Choke(r) \/ Leave(r)
             \/ \E i \in Piece : Have(r, i)
             \/ \E i \in Piece, b \in Block : Unsolicited(r, i, b)
      PROVE  SeederOK(p)'
  BY <1>2, <1>3, <1>4, <1>5, <1>6, <1>9, <1>10 DEF Message
<1>11. QED
  BY <1>7, <1>8, <1>10 DEF DownloadNext, HandlerProgress, Worker, dlVars

\* What a continuation says of the data is right.
LEMMA DataStep ==
  ASSUME SideTypeOK, \A p \in Seeders : SeederOK(p), DataOK, [DownloadNext]_dlVars
  PROVE  DataOK'
<1>1. CASE cont' = cont
  BY <1>1 DEF DataOK
<1>2. CASE cont'.stage # "complete"
  BY <1>2 DEF DataOK
<1>3. ASSUME NEW p \in Peers,
             Answer(p) \/ \E i \in Piece, b \in Block : Unsolicited(p, i, b)
      PROVE  DataOK'
  <2>1. CASE p \in Seeders
    <3>1. Answer(p)
      BY <1>3, <2>1, DownloadAssumption DEF Unsolicited
    <3>2. \/ cont' = cont
          \/ cont' = [stage |-> "complete", peer |-> p, index |-> queue[p][1].index,
                      data |-> "genuine"]
      BY <2>1, <3>1, SeederAnswers DEF Drop
    <3>3. p \notin Liars
      BY <2>1, DownloadAssumption
    <3>4. QED
      BY <1>1, <3>2, <3>3 DEF DataOK
  <2>2. CASE p \notin Seeders
    <3>1. PICK i \in Piece, b \in Block, rest \in Seq(Request) : PieceBlock(p, i, b, rest)
      BY <1>3, BlockArrives
    <3>2. CASE PieceAssembled(p, i, b, rest)
      <4>1. PICK d \in Content :
                /\ p \in Liars => d \in BadData
                /\ cont' = [stage |-> "complete", peer |-> p, index |-> i, data |-> d]
        BY <3>2 DEF PieceAssembled
      <4>2. QED
        BY <2>2, <4>1 DEF DataOK
    <3>3. CASE cont' = cont
      BY <1>1, <3>3
    <3>4. QED
      BY <3>1, <3>2, <3>3
         DEF PieceBlock, PieceNotAsked, Drop, PieceAlreadyDone, BlockStored
  <2>3. QED
    BY <2>1, <2>2
<1>4. ASSUME NEW p \in Peers, NEW S \in SUBSET Piece, Bitfield(p, S) PROVE DataOK'
  BY <1>2, <1>4 DEF Bitfield, NoCont
<1>5. ASSUME NEW p \in Peers,
             UnChoke(p) \/ Choke(p) \/ Leave(p) \/ \E i \in Piece : Have(p, i)
      PROVE  DataOK'
  BY <1>1, <1>5 DEF UnChoke, Choke, Leave, Drop, Have
<1>6. CASE PieceAccepted \/ PieceRefused \/ RequestPiece
  BY <1>2, <1>6 DEF PieceAccepted, PieceRefused, RequestPiece, NoCont
<1>7. QED
  BY <1>1, <1>3, <1>4, <1>5, <1>6
     DEF DownloadNext, HandlerProgress, Message, Worker, dlVars

SInv ==
    /\ SideTypeOK
    /\ \A p \in Seeders : SeederOK(p)
    /\ DataOK

LEMMA SeedersInit == DownloadInit => SInv
<1> SUFFICES ASSUME DownloadInit PROVE SInv
  OBVIOUS
<1>1. SideTypeOK
  BY QueueInit DEF QInv
<1>2. \A p \in Seeders : SeederOK(p)
  BY DownloadAssumption DEF DownloadInit, SeederOK
<1>3. DataOK
  BY DEF DownloadInit, DataOK, NoCont
<1>4. QED
  BY <1>1, <1>2, <1>3 DEF SInv

LEMMA SeedersStep == SInv /\ [DownloadNext]_dlVars => SInv'
<1> SUFFICES ASSUME SInv, [DownloadNext]_dlVars PROVE SInv'
  OBVIOUS
<1>1. SideTypeOK'
  BY SideStep DEF SInv
<1>2. \A p \in Seeders : SeederOK(p)'
  BY SeederStep DEF SInv
<1>3. DataOK'
  BY DataStep DEF SInv
<1>4. QED
  BY <1>1, <1>2, <1>3 DEF SInv

LEMMA SeedersInvariance == DownloadSpec => []SInv
<1>1. QED
  BY SeedersInit, SeedersStep, PTL DEF DownloadSpec

\* A seeder's blocks arrive in order and each one once, so where handleMessage
\* has counted as many blocks as the piece has, it has them all.
THEOREM SeedersDeliver == DownloadSpec => []SeederPieceIsGenuine
<1>1. SInv => SeederPieceIsGenuine
  BY DEF SInv, DataOK, SeederPieceIsGenuine
<1>2. QED
  BY <1>1, SeedersInvariance, PTL

------------------------------------------------------------------------------
(* Somebody is asked while a piece is missing *)

Missing == Piece \ (completedBits \cup pendingBits \cup InProcess)

\* What the ledger calls missing.
LEMMA MissingInLedger ==
  ASSUME LedgerStatus' = LedgerStatus
  PROVE  Missing' = Missing
<1>1. Missing = {i \in Piece : LedgerStatus[i] = "missing"}
  BY DEF Missing, LedgerStatus
<1>2. Missing' = {i \in Piece : LedgerStatus'[i] = "missing"}
  BY DEF Missing, LedgerStatus
<1>3. QED
  BY <1>1, <1>2

\* isFinished counts the completed bits.
LEMMA FinishedIsAll ==
  ASSUME TypeOK, IsFinished
  PROVE  completedBits = Piece
<1>1. 0 \in Int /\ NumPieces - 1 \in Int /\ NumPieces \in Nat \ {0}
  BY FileManagerAssumption
<1>2. IsFiniteSet(Piece) /\ Cardinality(Piece) = NumPieces
  BY <1>1, FS_Interval DEF Piece
<1>3. QED
  BY <1>2, FS_Subset DEF TypeOK, IsFinished

\* Only an accepted piece stops being missing, and none is missing again.
LEMMA MissingStep ==
  ASSUME IInv, [Next]_fmVars
  PROVE  Missing' = Missing \/ (PushWrite /\ Missing' \subseteq Missing)
<1>1. ASSUME UNCHANGED bitVars, InProcess' = InProcess PROVE Missing' = Missing
  BY <1>1 DEF Missing, bitVars
<1>2. CASE PushWrite
  <2>1. completedBits' = completedBits /\ pendingBits \subseteq pendingBits'
    BY <1>2 DEF PushWrite
  <2>2. InProcess = {} /\ InProcess' = {}
    BY <1>2 DEF PushWrite, MutexFree, WorkerHolds, NotifyAll, InProcess
  <2>3. QED
    BY <1>2, <2>1, <2>2 DEF Missing
<1>3. CASE SetCompleted
  <2>1. /\ pendingBits' = pendingBits
        /\ completedBits' = completedBits \cup {Head(writeRequests).index}
        /\ InProcess = {Head(writeRequests).index}
        /\ InProcess' = {Head(writeRequests).index}
    BY <1>3 DEF SetCompleted, InProcess, queueVars
  <2>2. QED
    BY <2>1 DEF Missing
<1>4. CASE ClearPending
  <2>1. LedgerStatus' = LedgerStatus
    BY <1>4, ClearIsStutter
  <2>2. QED
    BY <2>1, MissingInLedger
<1>5. CASE WriteComplete
  <2>1. LedgerStatus' = LedgerStatus
    BY <1>5, PopIsStutter
  <2>2. QED
    BY <2>1, MissingInLedger
<1>6. ASSUME NEW i \in Piece, NEW p \in Peers, NEW d \in Content,
             WritePieceBlock(i, p, d)
      PROVE  Missing' = Missing
  BY <1>1, <1>6 DEF WritePieceBlock, InProcess, queueVars
<1>7. ASSUME NEW i \in Piece, NEW p \in Peers, NEW b \in Block,
             RequestPieceBlock(i, p, b)
      PROVE  Missing' = Missing
  BY <1>1, <1>7 DEF RequestPieceBlock, MutexFree, WorkerHolds, NotifyAll, InProcess
<1>8. ASSUME NEW i \in Piece, NEW S \in SUBSET Piece, GetNextPiece(i, S)
      PROVE  Missing' = Missing
  BY <1>1, <1>8 DEF GetNextPiece, InProcess, queueVars
<1>9. CASE Stop
  BY <1>1, <1>9 DEF Stop, MutexFree, WorkerHolds, NotifyAll, InProcess
<1>10. CASE CheckStopped \/ LockOrWait \/ SpuriousWakeup \/ WaitReturns \/ WriteLoop \/ Store
  BY <1>1, <1>10 DEF CheckStopped, LockOrWait, SpuriousWakeup, WaitReturns, WriteLoop,
                     Store, InProcess
<1>11. CASE ReadComplete \/ ReadsDone \/ Unlock \/ Joined
  BY <1>1, <1>11 DEF ReadComplete, ReadsDone, Unlock, Joined, InProcess, queueVars
<1>12. CASE UNCHANGED fmVars
  BY <1>1, <1>12 DEF fmVars, InProcess, queueVars
<1>13. QED
  BY <1>2, <1>3, <1>4, <1>5, <1>6, <1>7, <1>8, <1>9, <1>10, <1>11, <1>12
  DEF Next, MainNext, WorkerProgress

\* Where the mutex is free, nothing is in process.
LEMMA WantedOfSeeder ==
  ASSUME TypeOK, MutexFree
  PROVE  /\ Wanted(Piece) = Missing
         /\ IsFinished => Missing = {}
<1>1. InProcess = {}
  BY DEF MutexFree, WorkerHolds, InProcess
<1>2. Wanted(Piece) = Missing
  BY <1>1 DEF Wanted, Missing
<1>3. ASSUME IsFinished PROVE Missing = {}
  BY <1>3, FinishedIsAll DEF Missing
<1>4. QED
  BY <1>2, <1>3

\* A missing piece is queued at p, or p has not sent its bitfield yet ...
Busy(p) ==
    \/ conn[p] = "new"
    \/ \E k \in DOMAIN queue[p] : queue[p][k].index \in Missing

\* ... or the handler that will ask p, or has just got the piece from p, runs.
Handled(p) ==
    /\ cont # NoCont /\ cont.peer = p
    /\ cont.stage = "request" \/ cont.index \in Missing

SomeoneWorks == Missing # {} => \E p \in Seeders : Busy(p) \/ Handled(p)

\* Nobody but a seeder delivers a piece that is accepted.
PushIsSeeders ==
    main = "push" => cont.stage = "request" /\ cont.peer \in Seeders

WInv == IInv /\ SInv /\ SomeoneWorks /\ PushIsSeeders

\* Only seeders deliver pieces that pass the hash check, and there are some.
OnlySeedersDeliver ==
    /\ Seeders # {}
    /\ Peers = Seeders \cup Liars
    /\ BadData \cap Verified = {}

\* main is "push" only within handlePieceCompleted.
LEMMA PushStep ==
  ASSUME OnlySeedersDeliver, SInv, PushIsSeeders, [DownloadNext]_dlVars
  PROVE  PushIsSeeders'
<1>0. cont \in Cont /\ DataOK
  BY DEF SInv, SideTypeOK
<1>1. CASE PieceAccepted
  <2>1. cont.peer \in Peers /\ cont.data \in Verified /\ cont.stage = "complete"
    BY <1>0, <1>1, ContFields DEF PieceAccepted, WritePieceBlock, IsWriteEligible
  <2>2. cont.peer \in Seeders
    BY <1>0, <2>1 DEF OnlySeedersDeliver, DataOK
  <2>3. QED
    BY <1>1, <2>2 DEF PieceAccepted, PushIsSeeders
<1>2. CASE main' # "push"
  BY <1>2 DEF PushIsSeeders
<1>3. CASE main' = main /\ cont' = cont
  BY <1>3 DEF PushIsSeeders
<1>4. CASE PieceRefused
  BY <1>2, <1>4 DEF PieceRefused, fmVars, mainVars, PushIsSeeders
<1>5. CASE RequestPiece
  BY <1>2, <1>5 DEF RequestPiece, GetNextPiece, fmVars, mainVars
<1>6. CASE PushWrite
  BY <1>2, <1>6 DEF PushWrite
<1>7. ASSUME NEW p \in Peers,
             \/ \E S \in SUBSET Piece : Bitfield(p, S)
             \/ UnChoke(p) \/ Choke(p) \/ Leave(p) \/ Answer(p)
             \/ \E i \in Piece : Have(p, i)
             \/ \E i \in Piece, b \in Block : Unsolicited(p, i, b)
      PROVE  PushIsSeeders'
  BY <1>2, <1>7 DEF Bitfield, UnChoke, Choke, Leave, Answer, Have, Unsolicited,
                    PieceBlock, CanHandle, fmVars, mainVars
<1>8. CASE Worker
  BY <1>3, <1>8 DEF Worker, WorkerProgress, CheckStopped, LockOrWait, WaitReturns,
        WriteLoop, Store, ClearPending, SetCompleted, WriteComplete, ReadComplete,
        ReadsDone, Unlock, mainVars
<1>9. CASE SpuriousWakeup /\ UNCHANGED <<peerVars, cont>>
  BY <1>3, <1>9 DEF SpuriousWakeup, mainVars
<1>10. CASE UNCHANGED dlVars
  BY <1>3, <1>10 DEF dlVars, fmVars, mainVars
<1>11. QED
  BY <1>1, <1>4, <1>5, <1>6, <1>7, <1>8, <1>9, <1>10
     DEF DownloadNext, HandlerProgress, Message

\* Another's handler leaves a busy seeder busy.
LEMMA StillBusy ==
  ASSUME NEW p \in Seeders, Busy(p), Untouched(p), Missing' = Missing
  PROVE  Busy(p)'
  BY DEF Busy, Untouched

\* The message of a busy seeder itself.
LEMMA BusyMessage ==
  ASSUME IInv, SInv, NEW p \in Seeders, Busy(p), cont = NoCont, Missing' = Missing,
         Missing # {},
         \/ \E S \in SUBSET Piece : Bitfield(p, S)
         \/ UnChoke(p) \/ Answer(p) \/ \E i \in Piece : Have(p, i)
  PROVE  Busy(p)' \/ Handled(p)'
<1>0. /\ SideTypeOK /\ SeederOK(p) /\ p \in Peers
      /\ conn \in [Peers -> {"new", "up", "refused", "left"}]
      /\ queue \in [Peers -> Seq(QueuedPiece)]
  BY DownloadAssumption DEF SInv, SideTypeOK
<1>1. ASSUME NEW S \in SUBSET Piece, Bitfield(p, S) PROVE Handled(p)'
  <2>1. ~IsFinished
    BY FinishedIsAll DEF Missing, IInv
  <2>2. QED
    BY <1>1, <2>1 DEF Bitfield, Handled, NoCont
<1>2. CASE UnChoke(p) \/ \E i \in Piece : Have(p, i)
  BY <1>2 DEF UnChoke, Have, Busy
<1>3. CASE Answer(p)
  <2>1. conn[p] = "up"
    BY <1>3 DEF Answer, PieceBlock, CanHandle
  <2>2. PICK k \in DOMAIN queue[p] : queue[p][k].index \in Missing
    BY <2>1 DEF Busy
  <2>3. queue[p] # <<>>
    BY <2>2
  <2> DEFINE e == queue[p][1]
             n == [index |-> e.index, got |-> 0 .. e.current, current |-> e.current + 1]
  <2>4. e.index \in Missing /\ e.index \notin completedBits
    <3>1. Asked(p)
      BY <1>0, <2>3 DEF SeederOK
    <3>2. k = 1
      BY <1>0, <2>2, <3>1, OneEntry DEF Asked
    <3>3. QED
      BY <2>2, <3>2 DEF Missing
  <2> HIDE DEF e
  <2>5. \/ queue' = [queue EXCEPT ![p] = <<n>>]
        \/ cont' = [stage |-> "complete", peer |-> p, index |-> e.index,
                    data |-> "genuine"]
    BY <1>0, <1>3, <2>3, <2>4, SeederAnswers DEF e
  <2>6. CASE queue' = [queue EXCEPT ![p] = <<n>>]
    <3>1. n.index = e.index
      OBVIOUS
    <3> HIDE DEF n
    <3>2. 1 \in DOMAIN queue'[p] /\ queue'[p][1].index = e.index
      BY <1>0, <2>6, <3>1
    <3>3. QED
      BY <2>4, <3>2 DEF Busy
  <2>7. CASE cont' = [stage |-> "complete", peer |-> p, index |-> e.index,
                      data |-> "genuine"]
    BY <2>4, <2>7 DEF Handled, NoCont
  <2>8. QED
    BY <2>5, <2>6, <2>7
<1>4. QED
  BY <1>1, <1>2, <1>3

\* The handler that goes on to ask its peer for a piece.
LEMMA RequestWorks ==
  ASSUME IInv, SInv, SomeoneWorks, RequestPiece, Missing # {}, Missing' = Missing
  PROVE  \E p \in Seeders : Busy(p)' \/ Handled(p)'
<1>0. /\ SideTypeOK /\ Seeders \subseteq Peers /\ TypeOK
      /\ queue \in [Peers -> Seq(QueuedPiece)] /\ wire \in [Peers -> Seq(Request)]
      /\ conn \in [Peers -> {"new", "up", "refused", "left"}]
      /\ cont # NoCont /\ cont.peer \in Peers /\ MutexFree
      /\ UNCHANGED <<conn, choked, has>>
  BY DownloadAssumption, ContFields DEF SInv, SideTypeOK, IInv, RequestPiece
<1>1. PICK p \in Seeders : Busy(p) \/ Handled(p)
  BY DEF SomeoneWorks
<1>2. CASE cont.peer # p
  <2>1. Busy(p)
    BY <1>1, <1>2 DEF Handled
  <2>2. Untouched(p)
    BY <1>0, <1>2 DEF RequestPiece, SendPieceRequest, Untouched
  <2>3. QED
    BY <2>1, <2>2, StillBusy
<1>3. CASE cont.peer = p
  <2>1. has[p] = Piece
    BY <1>0, <1>3 DEF SInv, SeederOK
  <2>2. ~IsFinished /\ Wanted(has[p]) # {} /\ Wanted(has[p]) = Missing
    BY <1>0, <2>1, WantedOfSeeder
  <2>3. PICK i \in Piece : GetNextPiece(i, has[p]) /\ SendPieceRequest(p, i)
    BY <1>3, <2>2 DEF RequestPiece
  <2>4. i \in Missing
    BY <2>2, <2>3 DEF GetNextPiece, IsNextPiece
  <2> DEFINE n == [index |-> i, got |-> {}, current |-> 0]
  <2>5. n.index = i /\ n \in QueuedPiece
    BY FileManagerAssumption DEF QueuedPiece, Block
  <2>6. queue'[p] = Append(queue[p], n)
    BY <1>0, <2>3 DEF SendPieceRequest
  <2> HIDE DEF n
  <2>7. /\ Len(queue[p]) + 1 \in DOMAIN queue'[p]
        /\ queue'[p][Len(queue[p]) + 1] = n
    BY <1>0, <2>5, <2>6, AppendProperties, LenProperties
  <2>8. QED
    BY <2>4, <2>5, <2>7 DEF Busy
<1>4. QED
  BY <1>2, <1>3

LEMMA WorksStep ==
  ASSUME OnlySeedersDeliver, WInv, [DownloadNext]_dlVars
  PROVE  SomeoneWorks'
<1> SUFFICES ASSUME Missing' # {}
             PROVE  \E p \in Seeders : Busy(p)' \/ Handled(p)'
  BY DEF SomeoneWorks
<1>0. /\ IInv /\ SInv /\ SomeoneWorks /\ PushIsSeeders /\ SideTypeOK
      /\ Seeders \subseteq Peers /\ Liars \cap Seeders = {} /\ cont \in Cont
  BY DownloadAssumption DEF WInv, SInv, SideTypeOK
<1>a. [Next]_fmVars
  BY <1>0, ManagerStep
<1>b. Missing' = Missing \/ (PushWrite /\ Missing' \subseteq Missing)
  BY <1>0, <1>a, MissingStep
<1>c. Missing # {}
  BY <1>b
<1>1. CASE PushWrite /\ UNCHANGED <<peerVars, cont>>
  <2>1. cont' = cont /\ cont.stage = "request" /\ cont.peer \in Seeders
    BY <1>0, <1>1 DEF PushWrite, PushIsSeeders
  <2>2. Handled(cont.peer)'
    BY <1>0, <2>1, ContFields DEF Handled
  <2>3. QED
    BY <2>1, <2>2
<1>2. PICK p \in Seeders : Busy(p) \/ Handled(p)
  BY <1>0, <1>c DEF SomeoneWorks
<1>3. CASE UNCHANGED <<peerVars, cont>> /\ Missing' = Missing
  <2>1. Busy(p) => Busy(p)'
    BY <1>3 DEF peerVars, Busy
  <2>2. Handled(p) => Handled(p)'
    BY <1>3 DEF Handled
  <2>3. QED
    BY <1>2, <2>1, <2>2
<1>4. ASSUME main = "idle" \/ main' = "push" PROVE Missing' = Missing
  BY <1>4, <1>b DEF PushWrite
<1>5. CASE PieceAccepted
  <2>1. /\ Missing' = Missing /\ UNCHANGED peerVars
        /\ cont'.stage = "request" /\ cont'.peer = cont.peer
    BY <1>4, <1>5 DEF PieceAccepted, WritePieceBlock
  <2>2. Busy(p) => Busy(p)'
    BY <2>1 DEF peerVars, Busy
  <2>3. Handled(p) => Handled(p)'
    BY <2>1 DEF Handled, NoCont
  <2>4. QED
    BY <1>2, <2>2, <2>3
<1>6. CASE PieceRefused
  <2>1. UNCHANGED <<peerVars, fmVars>> /\ cont.stage = "complete"
        /\ ~IsWriteEligible(cont.index, cont.data)
    BY <1>6 DEF PieceRefused
  <2>2. ~Handled(p)
    <3>1. ASSUME Handled(p) PROVE FALSE
      <4>1. cont.data = "genuine" /\ cont.index \in Missing
        BY <1>0, <2>1, <3>1 DEF Handled, SInv, DataOK
      <4>2. QED
        BY <2>1, <4>1 DEF Missing, IsWriteEligible, Verified
    <3>2. QED
      BY <3>1
  <2>3. Busy(p) => Busy(p)'
    BY <2>1 DEF peerVars, fmVars, bitVars, queueVars, InProcess, Missing, Busy
  <2>4. QED
    BY <1>2, <2>2, <2>3
<1>7. CASE RequestPiece
  <2>1. Missing' = Missing
    BY <1>4, <1>7 DEF RequestPiece
  <2>2. QED
    BY <1>0, <1>7, <1>c, <2>1, RequestWorks
<1>8. CASE Worker \/ (SpuriousWakeup /\ UNCHANGED <<peerVars, cont>>)
  <2>1. UNCHANGED <<peerVars, cont>>
    BY <1>8 DEF Worker
  <2>2. ~PushWrite
    BY <1>8 DEF Worker, WorkerProgress, CheckStopped, LockOrWait, WaitReturns,
        WriteLoop, Store, ClearPending, SetCompleted, WriteComplete, ReadComplete,
        ReadsDone, Unlock, SpuriousWakeup, mainVars, PushWrite
  <2>3. QED
    BY <1>3, <1>b, <2>1, <2>2
<1>9. ASSUME NEW r \in Peers,
             \/ \E S \in SUBSET Piece : Bitfield(r, S)
             \/ UnChoke(r) \/ Choke(r) \/ Leave(r) \/ Answer(r)
             \/ \E i \in Piece : Have(r, i)
             \/ \E i \in Piece, b \in Block : Unsolicited(r, i, b)
      PROVE  \E s \in Seeders : Busy(s)' \/ Handled(s)'
  <2>1. cont = NoCont /\ main = "idle"
    BY <1>9 DEF Bitfield, UnChoke, Choke, Leave, Answer, Have, Unsolicited,
                PieceBlock, CanHandle
  <2>2. Missing' = Missing /\ Busy(p)
    BY <1>2, <1>4, <2>1 DEF Handled
  <2>3. CASE r = p
    <3>1. \/ \E S \in SUBSET Piece : Bitfield(p, S)
          \/ UnChoke(p) \/ Answer(p) \/ \E i \in Piece : Have(p, i)
      BY <1>0, <1>9, <2>3 DEF Choke, Leave, Unsolicited
    <3>2. QED
      BY <1>0, <1>c, <2>1, <2>2, <3>1, BusyMessage
  <2>4. CASE r # p
    <3>1. p \in Peers \ {r}
      BY <1>0, <2>4
    <3>2. CASE Answer(r) \/ \E i \in Piece, b \in Block : Unsolicited(r, i, b)
      BY <1>0, <2>2, <3>1, <3>2, OthersBlock, StillBusy
    <3>3. CASE \/ \E S \in SUBSET Piece : Bitfield(r, S)
               \/ UnChoke(r) \/ Choke(r) \/ Leave(r) \/ \E i \in Piece : Have(r, i)
      <4>1. Untouched(p)
        BY <1>0, <2>4, <3>1, <3>3
           DEF SideTypeOK, Bitfield, UnChoke, Choke, Leave, Drop, Have, Untouched
      <4>2. QED
        BY <2>2, <4>1, StillBusy
    <3>4. QED
      BY <1>9, <3>2, <3>3
  <2>5. QED
    BY <2>3, <2>4
<1>10. CASE UNCHANGED dlVars
  <2>1. UNCHANGED <<peerVars, cont>> /\ Missing' = Missing
    BY <1>10 DEF dlVars, fmVars, bitVars, queueVars, InProcess, Missing
  <2>2. QED
    BY <1>3, <2>1
<1>11. QED
  BY <1>1, <1>5, <1>6, <1>7, <1>8, <1>9, <1>10
     DEF DownloadNext, HandlerProgress, Message

\* While only seeders deliver pieces that pass the hash check, a peer left idle
\* by a lost race, a refused piece or a dropped connection is never the last one:
\* as long as a piece is missing some seeder is asked for one or about to be.
THEOREM SomeSeederIsAsked == OnlySeedersDeliver /\ DownloadSpec => []SomeoneAsked
<1>1. ASSUME OnlySeedersDeliver, DownloadInit PROVE WInv
  <2>1. IInv /\ SInv
    BY <1>1, InvInit, SeedersInit DEF DownloadInit
  <2>2. SomeoneWorks
    BY <1>1, DownloadAssumption DEF OnlySeedersDeliver, DownloadInit, SomeoneWorks, Busy
  <2>3. PushIsSeeders
    BY <1>1 DEF DownloadInit, Init, PushIsSeeders
  <2>4. QED
    BY <2>1, <2>2, <2>3 DEF WInv
<1>2. ASSUME OnlySeedersDeliver, WInv, [DownloadNext]_dlVars PROVE WInv'
  <2>1. IInv'
    BY <1>2, ManagerStep, InvStep DEF WInv, SInv
  <2>2. SInv' /\ PushIsSeeders'
    BY <1>2, SeedersStep, PushStep DEF WInv
  <2>3. SomeoneWorks'
    BY <1>2, WorksStep
  <2>4. QED
    BY <2>1, <2>2, <2>3 DEF WInv
<1>3. ASSUME WInv PROVE SomeoneAsked
  <2>1. CASE Missing = {}
    <3>1. InProcess \subseteq Piece
      BY <1>3, TailRequest DEF WInv, IInv, TypeOK, HeadPresent, InProcess, WriteRequest
    <3>2. QED
      BY <1>3, <2>1, <3>1 DEF WInv, IInv, TypeOK, Missing, SomeoneAsked
  <2>2. CASE Missing # {}
    BY <1>3, <2>2 DEF WInv, SomeoneWorks, Busy, Handled, SomeoneAsked
  <2>3. QED
    BY <2>1, <2>2
<1>4. CASE ~OnlySeedersDeliver
  BY <1>4
<1>5. CASE OnlySeedersDeliver
  <2>1. DownloadInit => WInv
    BY <1>1, <1>5
  <2>2. WInv /\ [DownloadNext]_dlVars => WInv'
    BY <1>2, <1>5
  <2>3. WInv => SomeoneAsked
    BY <1>3
  <2>4. QED
    BY <2>1, <2>2, <2>3, PTL DEF DownloadSpec
<1>6. QED
  BY <1>4, <1>5
==============================================================================
