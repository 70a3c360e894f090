----------------------------- MODULE StorageProofs -----------------------------
(***************************************************************************)
(* Proofs about Storage, for every torrent of any number of files of any   *)
(* length, whatever is found on disk, and about bitset::count.             *)
(*                                                                         *)
(* Where the pieces lie is arithmetic of products, which is settled first  *)
(* (PieceLies and the lemmas before it); from then on a piece is an        *)
(* interval first .. first + n - 1 of the torrent.  Covered(m, k, first,   *)
(* n) is how many of its bytes the first k files cover: what has been      *)
(* gathered, written or read after k turns of a loop is stated with it.    *)
(*                                                                         *)
(* What the bytes of the torrent should be is a parameter, val: whatever   *)
(* matches a piece's hash is such a content (ContentOf), and a scan or a   *)
(* write is right for each of them.                                        *)
(***************************************************************************)
EXTENDS Storage, FiniteSetTheorems, SequenceTheorems, WellFoundedInduction, TLAPS
------------------------------------------------------------------------------
(* Loops *)

\* A set of natural numbers that is not empty has a least element: of the
\* intervals that end in it one is smallest.
LEMMA LeastNumber ==
  ASSUME NEW I \in SUBSET Nat, I # {}
  PROVE  \E x \in I : \A y \in I : x <= y
<1> DEFINE T == {1 .. i : i \in I}
<1>1. T \subseteq FiniteSubsetsOf(Nat) /\ T # {}
  <2>1. ASSUME NEW i \in I PROVE 1 .. i \in SUBSET Nat /\ IsFiniteSet(1 .. i)
    BY FS_Interval
  <2>2. QED
    BY <2>1 DEF FiniteSubsetsOf
<1>2. PICK X \in T : \A Y \in T : ~(<<Y, X>> \in StrictSubsetOrdering(Nat))
  <2> HIDE DEF T
  <2>1. QED
    BY <1>1, FS_StrictSubsetOrderingWellFounded, WFMin
<1>3. PICK x \in I : X = 1 .. x
  OBVIOUS
<1>4. ASSUME NEW y \in I PROVE x <= y
  <2>1. ~(<<1 .. y, 1 .. x>> \in StrictSubsetOrdering(Nat))
    BY <1>2, <1>3
  <2>2. ~(1 .. y \subseteq 1 .. x /\ 1 .. y # 1 .. x)
    BY <2>1 DEF StrictSubsetOrdering
  <2>3. CASE y < x
    <3>1. 1 .. y \subseteq 1 .. x
      BY <2>3
    <3>2. x \in 1 .. x /\ x \notin 1 .. y
      BY <2>3
    <3>3. QED
      BY <2>2, <3>1, <3>2
  <2>4. QED
    BY <2>3
<1>5. QED
  BY <1>4

\* So what holds of 0, and of a number up to n if it holds of the one before,
\* holds of all: G is the set of the numbers it holds of.
LEMMA UpTo ==
  ASSUME NEW n \in Nat, NEW G, 0 \in G, \A k \in 1 .. n : k - 1 \in G => k \in G
  PROVE  0 .. n \subseteq G
<1> DEFINE Bad == (0 .. n) \ G
<1> SUFFICES ASSUME Bad # {} PROVE FALSE
  OBVIOUS
<1>1. PICK k \in Bad : \A j \in Bad : k <= j
  <2>1. Bad \subseteq Nat
    OBVIOUS
  <2> HIDE DEF Bad
  <2>2. QED
    BY <2>1, LeastNumber
<1>2. k \in 1 .. n /\ k - 1 \in 0 .. n /\ ~(k <= k - 1)
  OBVIOUS
<1>3. k - 1 \in G
  BY <1>1, <1>2
<1>4. QED
  BY <1>2, <1>3

\* What a loop comes to, turn by turn: a function with its recursive equation.
TurnByTurn(S, turn, start, n) ==
    LET after == Loop(turn, start, n)
    IN  /\ after \in [0 .. n -> S]
        /\ after[0] = start
        /\ \A k \in 1 .. n : after[k] = turn[k][after[k - 1]]

\* There is one, when every turn gives what the next can begin with.
LEMMA LoopTurns ==
  ASSUME NEW S, NEW n \in Nat, NEW turn, NEW start \in S,
         \A k \in 1 .. n : \A x \in S : turn[k][x] \in S
  PROVE  TurnByTurn(S, turn, start, n)
<1> DEFINE Body(f, k) == IF k = 0 THEN start ELSE turn[k][f[k - 1]]
           Fits(f, k) == f = [j \in 0 .. k |-> Body(f, j)]
           G == {k \in 0 .. n : \E f \in [0 .. k -> S] : Fits(f, k)}
<1>1. 0 \in G
  <2> DEFINE f == [j \in 0 .. 0 |-> start]
  <2>1. f \in [0 .. 0 -> S]
    OBVIOUS
  <2>2. \A j \in 0 .. 0 : Body(f, j) = start
    OBVIOUS
  <2>3. Fits(f, 0)
    BY <2>2, Zenon
  <2> HIDE DEF Fits, f
  <2>4. QED
    BY <2>1, <2>3
<1>2. ASSUME NEW k \in 1 .. n, k - 1 \in G PROVE k \in G
  <2>1. PICK f \in [0 .. k - 1 -> S] : Fits(f, k - 1)
    BY <1>2
  <2>2. k - 1 \in 0 .. k - 1 /\ k \notin 0 .. k - 1 /\ k \in Nat
    OBVIOUS
  <2> DEFINE g == [j \in 0 .. k |-> IF j = k THEN turn[k][f[k - 1]] ELSE f[j]]
  <2>3. turn[k][f[k - 1]] \in S
    BY <2>2
  <2>4. g \in [0 .. k -> S]
    BY <2>3
  <2>5. ASSUME NEW j \in 0 .. k PROVE g[j] = Body(g, j)
    <3>1. CASE j = k
      <4>1. g[k - 1] = f[k - 1]
        BY <2>2
      <4>2. QED
        BY <2>2, <3>1, <4>1
    <3>2. CASE j # k
      <4>1. j \in 0 .. k - 1 /\ (j # 0 => j - 1 \in 0 .. k - 1)
        BY <3>2
      <4>2. j # 0 => g[j - 1] = f[j - 1]
        BY <2>2, <4>1
      <4>3. f[j] = Body(f, j)
        <5> HIDE DEF Body
        <5>1. QED
          BY <2>1, <4>1
      <4>4. QED
        BY <3>2, <4>2, <4>3
    <3>3. QED
      BY <3>1, <3>2
  <2>6. Fits(g, k)
    <3>1. g = [j \in 0 .. k |-> g[j]]
      OBVIOUS
    <3> HIDE DEF g, Body
    <3>2. QED
      BY <2>5, <3>1
  <2> HIDE DEF Fits, g
  <2>7. QED
    BY <2>4, <2>6
<1>3. PICK f \in [0 .. n -> S] : Fits(f, n)
  <2>1. n \in 0 .. n
    OBVIOUS
  <2> HIDE DEF G
  <2>2. n \in G
    BY <1>1, <1>2, <2>1, UpTo
  <2>3. QED
    BY <2>2 DEF G
<1> DEFINE L == Loop(turn, start, n)
<1>4. L = [j \in 0 .. n |-> Body(L, j)]
  <2>1. L = CHOOSE g : Fits(g, n)
    BY DEF Loop
  <2> HIDE DEF Fits, L
  <2>2. Fits(L, n)
    BY <1>3, <2>1
  <2>3. QED
    BY <2>2 DEF Fits
<1>5. L[0] = start /\ \A k \in 1 .. n : L[k] = turn[k][L[k - 1]]
  <2> HIDE DEF L
  <2>1. QED
    BY <1>4
<1>6. \A k \in 0 .. n : L[k] \in S
  <2> DEFINE H == {k \in 0 .. n : L[k] \in S}
  <2>1. 0 \in H
    BY <1>5
  <2>2. ASSUME NEW k \in 1 .. n, k - 1 \in H PROVE k \in H
    <3> HIDE DEF L
    <3>1. QED
      BY <1>5, <2>2
  <2> HIDE DEF H
  <2>3. 0 .. n \subseteq H
    BY <2>1, <2>2, UpTo
  <2>4. QED
    BY <2>3 DEF H
<1>7. QED
  <2> HIDE DEF L
  <2>1. L \in [0 .. n -> S]
    BY <1>4, <1>6
  <2>2. QED
    BY <1>5, <2>1 DEF L, TurnByTurn

LoopGives(turn, start, n, R) == Loop(turn, start, n) = R

\* A function with that equation is the loop.
LEMMA LoopIs ==
  ASSUME NEW n \in Nat, NEW turn, NEW start, NEW S, NEW R \in [0 .. n -> S],
         R[0] = start, \A k \in 1 .. n : turn[k][R[k - 1]] = R[k]
  PROVE  LoopGives(turn, start, n, R)
<1> DEFINE Body(f, k) == IF k = 0 THEN start ELSE turn[k][f[k - 1]]
           Fits(f) == f = [j \in 0 .. n |-> Body(f, j)]
           L == Loop(turn, start, n)
<1>1. Fits(R)
  <2>1. \A k \in 0 .. n : R[k] = Body(R, k)
    OBVIOUS
  <2> HIDE DEF Body
  <2>2. QED
    BY <2>1, Zenon
<1>2. Fits(L)
  <2>1. L = CHOOSE g : Fits(g)
    BY DEF Loop
  <2> HIDE DEF Fits, L
  <2>2. QED
    BY <1>1, <2>1
<1> DEFINE G == {k \in 0 .. n : L[k] = R[k]}
<1> HIDE DEF L
<1>3. 0 \in G
  BY <1>2
<1>4. ASSUME NEW k \in 1 .. n, k - 1 \in G PROVE k \in G
  <2>1. k \in 0 .. n /\ k # 0 /\ L[k - 1] = R[k - 1]
    BY <1>4
  <2>2. L[k] = Body(L, k)
    BY <1>2, <2>1
  <2>3. L[k] = turn[k][R[k - 1]]
    BY <2>1, <2>2
  <2>4. QED
    BY <2>1, <2>3
<1> HIDE DEF G
<1>5. 0 .. n \subseteq G
  BY <1>3, <1>4, UpTo
<1>6. \A k \in 0 .. n : L[k] = R[k]
  BY <1>5 DEF G
<1>7. L = [k \in 0 .. n |-> L[k]]
  <2>1. L = [j \in 0 .. n |-> Body(L, j)]
    BY <1>2
  <2> HIDE DEF Body, Fits
  <2>2. QED
    BY <2>1
<1>8. L = R
  BY <1>6, <1>7, Zenon
<1>9. QED
  BY <1>8 DEF L, LoopGives
------------------------------------------------------------------------------
(* Where the pieces lie *)

\* A piece ends where the next one begins, or before.
LEMMA Steps ==
  ASSUME NEW a \in Int, NEW b \in Int, NEW p \in Nat, a < b
  PROVE  a * p \in Int /\ b * p \in Int /\ a * p + p <= b * p
<1>1. PICK c \in Nat : b = a + 1 + c
  <2>1. b - a - 1 \in Nat /\ b = a + 1 + (b - a - 1)
    OBVIOUS
  <2>2. QED
    BY <2>1
<1>2. c * p \in Nat /\ a * p \in Int
  OBVIOUS
<1>3. (a + 1 + c) * p = a * p + p + c * p
  OBVIOUS
<1>4. QED
  BY <1>1, <1>2, <1>3

\* Quotient and remainder are the only ones that fit.
LEMMA Division ==
  ASSUME NEW t \in Nat, NEW p \in Nat \ {0}
  PROVE  /\ t \div p \in Nat /\ t % p \in 0 .. p - 1
         /\ ((t \div p) * p) + (t % p) = t
  OBVIOUS

\* The length of the last piece is what is left of the torrent.
LEMMA Rest ==
  ASSUME NEW t \in Nat, NEW p \in Nat \ {0}, NEW n \in Nat, n * p < t, t <= n * p + p
  PROVE  t - n * p = IF t % p # 0 THEN t % p ELSE p
<1> DEFINE q == t \div p
           r == t % p
           x == n * p
           y == q * p
<1>1. q \in Nat /\ r \in 0 .. p - 1 /\ y + r = t /\ x \in Int /\ y \in Int
  BY Division
<1>2. q < n => y + p <= x
  BY <1>1, Steps
<1>3. n < q => x + p <= y
  BY <1>1, Steps
<1>4. n + 1 < q => (n + 1) * p + p <= y
  BY <1>1, Steps
<1>5. (n + 1) * p = x + p
  OBVIOUS
<1>6. q = n => y = x
  OBVIOUS
<1>7. q = n + 1 => y = x + p
  BY <1>5
<1>0. x < t /\ t <= x + p
  OBVIOUS
<1> HIDE DEF q, r, x, y
<1>8. q = n \/ q = n + 1
  BY <1>1, <1>2, <1>3, <1>4, <1>5
<1>9. t - x = IF r # 0 THEN r ELSE p
  BY <1>0, <1>1, <1>6, <1>7, <1>8
<1>10. QED
  BY <1>9 DEF r, x

\* The pieces: each begins where the one before ends, all but the last have the
\* full length, and the last ends with the torrent.
LEMMA PieceLies ==
  ASSUME NEW m, WellFormed(m), NEW i \in 0 .. m.numPieces - 1
  PROVE  /\ i \in Nat /\ m.totalSize \in Nat /\ m.pieceLength \in Nat \ {0}
         /\ PieceBegin(m, i) \in Nat /\ PieceEnd(m, i) \in Nat
         /\ PieceLength(m, i) \in 1 .. m.pieceLength
         /\ PieceEnd(m, i) = PieceBegin(m, i) + PieceLength(m, i)
         /\ PieceEnd(m, i) <= m.totalSize
         /\ i # m.numPieces - 1 => /\ PieceLength(m, i) = m.pieceLength
                                   /\ PieceEnd(m, i) = PieceBegin(m, i + 1)
         /\ i = m.numPieces - 1 => PieceEnd(m, i) = m.totalSize
<1> DEFINE N == m.numPieces
           P == m.pieceLength
           t == m.totalSize
<1>1. N \in Nat \ {0} /\ P \in Nat \ {0} /\ (N - 1) * P < t /\ t <= N * P /\ i \in Nat
  BY DEF WellFormed
<1>2. t \in Nat
  BY DEF WellFormed, End
<1>3. i * P \in Nat /\ (i + 1) * P = i * P + P /\ (N - 1) * P + P = N * P
  BY <1>1
<1>4. PieceBegin(m, i) = i * P /\ PieceEnd(m, i) = i * P + PieceLength(m, i)
      /\ PieceBegin(m, i + 1) = i * P + P
  BY <1>3 DEF PieceBegin, PieceEnd
<1> HIDE DEF N, P, t
<1>5. CASE i = N - 1
  <2>1. PieceLength(m, i) = IF t % P # 0 THEN t % P ELSE P
    BY <1>5 DEF PieceLength, N, P, t
  <2>2. N - 1 \in Nat /\ t <= (N - 1) * P + P
    BY <1>1, <1>3
  <2>3. t - (N - 1) * P = IF t % P # 0 THEN t % P ELSE P
    BY <1>1, <1>2, <2>2, Rest
  <2>4. i * P + PieceLength(m, i) = t
    BY <1>1, <1>2, <1>3, <1>5, <2>1, <2>3
  <2>5. PieceLength(m, i) = t - i * P /\ PieceLength(m, i) \in 1 .. P
    BY <1>1, <1>2, <1>3, <1>5, <2>1, <2>2, <2>3
  <2>6. QED
    BY <1>1, <1>2, <1>3, <1>4, <1>5, <2>4, <2>5 DEF N, P, t
<1>6. CASE i # N - 1
  <2>1. PieceLength(m, i) = P
    BY <1>6 DEF PieceLength, N, P
  <2>2. i < N - 1
    BY <1>1, <1>6 DEF N
  <2>3. i * P + P <= (N - 1) * P
    BY <1>1, <2>2, Steps
  <2>4. QED
    BY <1>1, <1>2, <1>3, <1>4, <1>6, <2>1, <2>3 DEF N, P, t
<1>7. QED
  BY <1>5, <1>6

\* Different pieces have no byte in common.
LEMMA PiecesApart ==
  ASSUME NEW m, WellFormed(m), NEW i \in 0 .. m.numPieces - 1, NEW j \in 0 .. m.numPieces - 1,
         i < j
  PROVE  PieceEnd(m, i) <= PieceBegin(m, j)
<1>1. i \in Nat /\ j \in Nat /\ m.pieceLength \in Nat
  BY PieceLies
<1>2. i * m.pieceLength + m.pieceLength <= j * m.pieceLength
  BY <1>1, Steps
<1>3. PieceLength(m, i) \in 1 .. m.pieceLength
      /\ PieceEnd(m, i) = PieceBegin(m, i) + PieceLength(m, i)
  BY PieceLies
<1>4. PieceBegin(m, i) = i * m.pieceLength /\ PieceBegin(m, j) = j * m.pieceLength
      /\ i * m.pieceLength \in Int /\ j * m.pieceLength \in Int
  BY <1>1 DEF PieceBegin
<1>5. QED
  BY <1>1, <1>2, <1>3, <1>4
------------------------------------------------------------------------------
(* Where the files lie *)

\* Where the first k files end.
EndOf(m, k) == IF k = 0 THEN 0 ELSE End(m.files[k])

\* File k is what lies between the end of the files before and its own.
LEMMA FileLies ==
  ASSUME NEW m, WellFormed(m)
  PROVE  /\ Len(m.files) \in Nat \ {0} /\ DOMAIN m.files = 1 .. Len(m.files)
         /\ EndOf(m, 0) = 0 /\ EndOf(m, Len(m.files)) = m.totalSize
         /\ \A k \in 0 .. Len(m.files) : EndOf(m, k) \in Nat
         /\ \A k \in 1 .. Len(m.files) :
                /\ m.files[k].begin = EndOf(m, k - 1) /\ End(m.files[k]) = EndOf(m, k)
                /\ m.files[k].length \in Nat
                /\ EndOf(m, k) = EndOf(m, k - 1) + m.files[k].length
<1> DEFINE F == Len(m.files)
<1>1. /\ F \in Nat \ {0} /\ DOMAIN m.files = 1 .. F
      /\ \A f \in 1 .. F : /\ m.files[f].begin \in Nat /\ m.files[f].length \in Nat
                           /\ m.files[f].begin = IF f = 1 THEN 0 ELSE End(m.files[f - 1])
      /\ m.totalSize = End(m.files[F])
  BY DEF WellFormed
<1> HIDE DEF F
<1>2. \A k \in 1 .. F : /\ k \in Nat /\ k # 0 /\ EndOf(m, k) = End(m.files[k])
                        /\ End(m.files[k]) = m.files[k].begin + m.files[k].length
                        /\ m.files[k].begin = EndOf(m, k - 1)
  BY <1>1 DEF EndOf, End
<1>3. ASSUME NEW k \in 0 .. F PROVE EndOf(m, k) \in Nat
  <2>1. k = 0 \/ k \in 1 .. F
    BY <1>1
  <2>2. k = 0 => EndOf(m, k) = 0
    BY DEF EndOf
  <2>3. CASE k \in 1 .. F
    <3>1. m.files[k].begin \in Nat /\ m.files[k].length \in Nat
      BY <1>1, <2>3
    <3>2. EndOf(m, k) = m.files[k].begin + m.files[k].length
      BY <1>2, <2>3
    <3>3. QED
      BY <3>1, <3>2
  <2>4. QED
    BY <2>1, <2>2, <2>3
<1>4. F \in 1 .. F /\ F # 0
  BY <1>1
<1>5. QED
  BY <1>1, <1>2, <1>3, <1>4 DEF F, EndOf

\* The files are in order.
LEMMA EndsGrow ==
  ASSUME NEW m, WellFormed(m), NEW k \in 0 .. Len(m.files), NEW j \in 0 .. k
  PROVE  EndOf(m, j) <= EndOf(m, k)
<1> DEFINE F == Len(m.files)
           G == {i \in 0 .. F : \A h \in 0 .. i : EndOf(m, h) <= EndOf(m, i)}
<1>1. /\ F \in Nat
      /\ \A i \in 0 .. F : EndOf(m, i) \in Nat
      /\ \A i \in 1 .. F : EndOf(m, i - 1) <= EndOf(m, i)
  <2>1. ASSUME NEW i \in 1 .. Len(m.files) PROVE EndOf(m, i - 1) <= EndOf(m, i)
    <3>1. i - 1 \in 0 .. Len(m.files)
      OBVIOUS
    <3>2. QED
      BY <3>1, FileLies
  <2>2. QED
    BY <2>1, FileLies
<1> HIDE DEF F
<1>2. 0 \in G
  BY <1>1
<1>3. ASSUME NEW i \in 1 .. F, i - 1 \in G PROVE i \in G
  <2>1. ASSUME NEW h \in 0 .. i PROVE EndOf(m, h) <= EndOf(m, i)
    <3>1. i \in 0 .. F /\ i - 1 \in 0 .. F /\ h \in 0 .. F
      BY <1>1
    <3>2. CASE h = i
      BY <1>1, <3>1, <3>2
    <3>3. CASE h # i
      <4>1. h \in 0 .. i - 1
        BY <3>3
      <4>2. EndOf(m, h) <= EndOf(m, i - 1)
        BY <1>3, <4>1
      <4>3. QED
        BY <1>1, <3>1, <4>2
    <3>4. QED
      BY <3>2, <3>3
  <2>2. QED
    BY <1>1, <2>1
<1> HIDE DEF G
<1>4. 0 .. F \subseteq G
  BY <1>1, <1>2, <1>3, UpTo
<1>5. k \in G
  BY <1>4 DEF F
<1>6. QED
  BY <1>5 DEF G

\* Every byte of the torrent is in one of them.
LEMMA ByteIsInAFile ==
  ASSUME NEW m, WellFormed(m), NEW o \in Nat, o < m.totalSize
  PROVE  \E k \in 1 .. Len(m.files) : EndOf(m, k - 1) <= o /\ o < EndOf(m, k)
<1> DEFINE F == Len(m.files)
           I == {k \in 0 .. F : o < EndOf(m, k)}
<1>1. /\ F \in Nat \ {0} /\ EndOf(m, 0) = 0 /\ EndOf(m, F) = m.totalSize
      /\ \A i \in 0 .. F : EndOf(m, i) \in Nat
  BY FileLies
<1> HIDE DEF F
<1>2. I \subseteq Nat /\ F \in I
  BY <1>1
<1>3. PICK k \in I : \A j \in I : k <= j
  <2> HIDE DEF I
  <2>1. QED
    BY <1>2, LeastNumber
<1>4. k \in 1 .. F /\ k - 1 \in 0 .. F /\ ~(k <= k - 1)
  BY <1>1
<1>5. ~(o < EndOf(m, k - 1))
  BY <1>3, <1>4
<1>6. QED
  BY <1>1, <1>3, <1>4, <1>5 DEF F

(***************************************************************************)
(* How many of the n bytes from `first' on the first k files cover.  The   *)
(* part of file k is what this grows by.                                   *)
(***************************************************************************)
Covered(m, k, first, n) == Smaller(Larger(EndOf(m, k) - first, 0), n)

\* From file to file this grows by the part of the interval that is in the file.
LEMMA CoveredGrows ==
  ASSUME NEW m, WellFormed(m), NEW first \in Nat, NEW n \in Nat, NEW k \in 1 .. Len(m.files)
  PROVE  /\ Covered(m, k - 1, first, n) \in 0 .. n /\ Covered(m, k, first, n) \in 0 .. n
         /\ Covered(m, k - 1, first, n) <= Covered(m, k, first, n)
         /\ Covered(m, k - 1, first, n) < Covered(m, k, first, n) =>
                /\ first + Covered(m, k - 1, first, n) = Larger(EndOf(m, k - 1), first)
                /\ first + Covered(m, k, first, n) = Smaller(EndOf(m, k), first + n)
         /\ Covered(m, k - 1, first, n) = Covered(m, k, first, n) =>
                Smaller(EndOf(m, k), first + n) <= Larger(EndOf(m, k - 1), first)
<1>1. EndOf(m, k - 1) \in Nat /\ EndOf(m, k) \in Nat /\ EndOf(m, k - 1) <= EndOf(m, k)
  BY FileLies
<1>2. QED
  BY <1>1 DEF Covered, Smaller, Larger

\* It begins with nothing and ends with all of the interval.
LEMMA CoveredAtTheEnds ==
  ASSUME NEW m, WellFormed(m), NEW first \in Nat, NEW n \in Nat, first + n <= m.totalSize
  PROVE  Covered(m, 0, first, n) = 0 /\ Covered(m, Len(m.files), first, n) = n
<1>1. EndOf(m, 0) = 0 /\ EndOf(m, Len(m.files)) = m.totalSize /\ m.totalSize \in Nat
  <2>1. /\ Len(m.files) \in Nat \ {0} /\ EndOf(m, Len(m.files)) = m.totalSize
        /\ \A k \in 0 .. Len(m.files) : EndOf(m, k) \in Nat
        /\ EndOf(m, 0) = 0
    BY FileLies
  <2>2. QED
    BY <2>1
<1>2. QED
  BY <1>1 DEF Covered, Smaller, Larger
------------------------------------------------------------------------------
(* What is gathered from the files *)

\* The bytes that belong in the torrent from some offset on: `val' is what belongs at
\* each.
Contents == [Int -> Int]
Bytes(val, from, n) == [k \in 1 .. n |-> val[from + k - 1]]

\* Bytes is a sequence of so many integers.
LEMMA BytesAre ==
  ASSUME NEW val \in Contents,
         NEW from \in Int, NEW n \in Nat
  PROVE  /\ Bytes(val, from, n) \in Seq(Int) /\ Len(Bytes(val, from, n)) = n
         /\ \A k \in 1 .. n : Bytes(val, from, n)[k] = val[from + k - 1]
<1>1. \A k \in 1 .. n : val[from + k - 1] \in Int
  BY DEF Contents
<1>2. Bytes(val, from, n) \in [1 .. n -> Int]
  BY <1>1 DEF Bytes
<1>3. Bytes(val, from, n) \in Seq(Int) /\ Len(Bytes(val, from, n)) = n
  BY <1>2
<1>4. QED
  BY <1>3 DEF Bytes

\* A sequence with these bytes is the one.
LEMMA AreBytes ==
  ASSUME NEW val \in Contents,
         NEW from \in Int, NEW s \in Seq(Int), \A k \in 1 .. Len(s) : s[k] = val[from + k - 1]
  PROVE  s = Bytes(val, from, Len(s))
<1>1. Len(s) \in Nat
  BY LenProperties
<1>2. Bytes(val, from, Len(s)) \in Seq(Int) /\ Len(Bytes(val, from, Len(s))) = Len(s)
      /\ \A k \in 1 .. Len(s) : Bytes(val, from, Len(s))[k] = val[from + k - 1]
  BY <1>1, BytesAre
<1>3. QED
  BY <1>2, SeqEqual

\* Consecutive bytes are put together, and taken apart.
LEMMA BytesJoin ==
  ASSUME NEW val \in Contents,
         NEW from \in Int, NEW s \in Seq(Int), NEW t \in Seq(Int)
  PROVE  s \o t = Bytes(val, from, Len(s) + Len(t)) <=>
             s = Bytes(val, from, Len(s)) /\ t = Bytes(val, from + Len(s), Len(t))
<1>1. Len(s) \in Nat /\ Len(t) \in Nat
  BY LenProperties
<1>2. /\ s \o t \in Seq(Int) /\ Len(s \o t) = Len(s) + Len(t)
      /\ \A i \in 1 .. Len(s) + Len(t) :
             (s \o t)[i] = IF i <= Len(s) THEN s[i] ELSE t[i - Len(s)]
  BY ConcatProperties
<1>3. ASSUME s \o t = Bytes(val, from, Len(s) + Len(t))
      PROVE  s = Bytes(val, from, Len(s)) /\ t = Bytes(val, from + Len(s), Len(t))
  <2>1. ASSUME NEW k \in 1 .. Len(s) + Len(t) PROVE (s \o t)[k] = val[from + k - 1]
    <3>1. Len(s) + Len(t) \in Nat
      BY <1>1
    <3>2. Bytes(val, from, Len(s) + Len(t))[k] = val[from + k - 1]
      BY <3>1, BytesAre
    <3>3. QED
      BY <1>3, <3>2
  <2>2. ASSUME NEW k \in 1 .. Len(s) PROVE s[k] = val[from + k - 1]
    <3>1. k \in 1 .. Len(s) + Len(t) /\ k <= Len(s)
      BY <1>1
    <3>2. QED
      BY <1>2, <2>1, <3>1
  <2>3. ASSUME NEW k \in 1 .. Len(t) PROVE t[k] = val[from + Len(s) + k - 1]
    <3>1. Len(s) + k \in 1 .. Len(s) + Len(t) /\ ~(Len(s) + k <= Len(s))
          /\ (Len(s) + k) - Len(s) = k
      BY <1>1
    <3>2. (s \o t)[Len(s) + k] = t[k]
      BY <1>2, <3>1
    <3>3. (s \o t)[Len(s) + k] = val[from + (Len(s) + k) - 1]
      BY <2>1, <3>1
    <3>4. QED
      BY <1>1, <3>2, <3>3
  <2>4. from + Len(s) \in Int
    BY <1>1
  <2>5. QED
    BY <2>2, <2>3, <2>4, AreBytes
<1>4. ASSUME s = Bytes(val, from, Len(s)), t = Bytes(val, from + Len(s), Len(t))
      PROVE  s \o t = Bytes(val, from, Len(s) + Len(t))
  <2>1. from + Len(s) \in Int
    BY <1>1
  <2>2. \A k \in 1 .. Len(s) : s[k] = val[from + k - 1]
    BY <1>1, <1>4, BytesAre
  <2> DEFINE q == from + Len(s)
  <2>3. \A k \in 1 .. Len(t) : t[k] = val[q + k - 1]
    <3>1. q \in Int /\ Len(t) \in Nat
      BY <1>1
    <3>2. t = Bytes(val, q, Len(t))
      BY <1>4
    <3> HIDE DEF q
    <3>3. \A k \in 1 .. Len(t) : Bytes(val, q, Len(t))[k] = val[q + k - 1]
      BY <3>1, BytesAre
    <3>4. QED
      BY <3>2, <3>3
  <2>4. ASSUME NEW i \in 1 .. Len(s) + Len(t) PROVE (s \o t)[i] = val[from + i - 1]
    <3>1. CASE i <= Len(s)
      BY <1>1, <1>2, <2>2, <3>1
    <3>2. CASE ~(i <= Len(s))
      <4>1. i - Len(s) \in 1 .. Len(t)
        BY <1>1, <3>2
      <4>2. (s \o t)[i] = t[i - Len(s)]
        BY <1>2, <3>2
      <4>3. t[i - Len(s)] = val[from + Len(s) + (i - Len(s)) - 1]
        BY <2>3, <4>1
      <4>4. QED
        BY <1>1, <4>2, <4>3
    <3>3. QED
      BY <3>1, <3>2
  <2>5. QED
    BY <1>2, <2>4, AreBytes
<1>5. QED
  BY <1>3, <1>4

\* An fread gives the bytes at its position, as many as there are.
LEMMA FreadGives ==
  ASSUME NEW data \in Seq(Int), NEW p \in Nat, NEW n \in Int
  PROVE  /\ Fread(data, p, n) \in Seq(Int)
         /\ Len(Fread(data, p, n)) = Larger(Smaller(n, Len(data) - p), 0)
         /\ \A j \in 1 .. Len(Fread(data, p, n)) :
                p + j \in 1 .. Len(data) /\ Fread(data, p, n)[j] = data[p + j]
<1> DEFINE e == Smaller(p + n, Len(data))
<1>1. Len(data) \in Nat /\ e \in Int /\ e <= Len(data) /\ p + 1 \in Int
      /\ ((e = p + n /\ p + n <= Len(data)) \/ (e = Len(data) /\ Len(data) <= p + n))
  <2>1. Len(data) \in Nat
    BY LenProperties
  <2>2. QED
    BY <2>1 DEF Smaller
<1> HIDE DEF e
<1>2. \A i \in p + 1 .. e : data[i] \in Int
  BY <1>1, ElementOfSeq
<1>3. /\ SubSeq(data, p + 1, e) \in Seq(Int)
      /\ Len(SubSeq(data, p + 1, e)) = IF p + 1 <= e THEN e - (p + 1) + 1 ELSE 0
      /\ \A i \in 1 .. e - (p + 1) + 1 : SubSeq(data, p + 1, e)[i] = data[(p + 1) + i - 1]
  BY <1>1, <1>2, SubSeqProperties
<1>4. Fread(data, p, n) = SubSeq(data, p + 1, e)
  BY DEF Fread, e
<1>5. Len(Fread(data, p, n)) = Larger(Smaller(n, Len(data) - p), 0)
  BY <1>1, <1>3, <1>4 DEF Smaller, Larger
<1>6. ASSUME NEW j \in 1 .. Len(Fread(data, p, n))
      PROVE  p + j \in 1 .. Len(data) /\ Fread(data, p, n)[j] = data[p + j]
  <2>1. j \in 1 .. e - (p + 1) + 1 /\ (p + 1) + j - 1 = p + j
    BY <1>1, <1>3, <1>4
  <2>2. QED
    BY <1>1, <1>3, <1>4, <2>1
<1>7. QED
  BY <1>3, <1>4, <1>5, <1>6

\* File k has the bytes it should have, of the n from `first' on, when it has `data'.
Has(val, m, data, k, first, n) ==
    \A o \in Nat : /\ first <= o /\ o < first + n
                   /\ EndOf(m, k - 1) <= o /\ o < EndOf(m, k)
                   => /\ o - EndOf(m, k - 1) + 1 \in 1 .. Len(data)
                      /\ data[o - EndOf(m, k - 1) + 1] = val[o]

RightIn(val, m, d, k, first, n) == Has(val, m, d[k], k, first, n)

\* All files have.
There(val, m, d, first, n) == \A k \in 1 .. Len(m.files) : RightIn(val, m, d, k, first, n)

\* The part of file k is no longer than what it covers.
LEMMA PartLies ==
  ASSUME NEW m, WellFormed(m), NEW d, IsDisk(m, d), NEW first \in Nat, NEW n \in Nat,
         NEW k \in 1 .. Len(m.files)
  PROVE  LET part == Part(m.files[k], d[k], first, n)
             a == Covered(m, k - 1, first, n)
             b == Covered(m, k, first, n)
         IN  /\ part \in Seq(Int) /\ Len(part) \in 0 .. b - a
             /\ \A j \in 1 .. Len(part) :
                    /\ first + a + j - EndOf(m, k - 1) \in 1 .. Len(d[k])
                    /\ part[j] = d[k][first + a + j - EndOf(m, k - 1)]
             /\ Len(part) = b - a \/ (Len(d[k]) < first + b - EndOf(m, k - 1) /\ a < b)
<1> DEFINE data == d[k]
           begin == EndOf(m, k - 1)
           end == EndOf(m, k)
           from == Larger(begin, first)
           to == Smaller(end, first + n)
           a == Covered(m, k - 1, first, n)
           b == Covered(m, k, first, n)
           part == Part(m.files[k], data, first, n)
<1>1. begin \in Nat /\ end \in Nat /\ begin <= end /\ m.files[k].begin = begin
      /\ End(m.files[k]) = end /\ data \in Seq(Int)
  <2>1. k - 1 \in 0 .. Len(m.files) /\ k \in 0 .. Len(m.files)
        /\ DOMAIN m.files = 1 .. Len(m.files)
    BY FileLies
  <2>2. begin <= end
    BY <2>1, FileLies
  <2>3. data \in Seq(Int)
    BY <2>1 DEF IsDisk
  <2>4. QED
    BY <2>1, <2>2, <2>3, FileLies
<1>2. /\ a \in 0 .. n /\ b \in 0 .. n /\ a <= b
      /\ a < b => first + a = from /\ first + b = to
      /\ a = b => to <= from
  BY CoveredGrows
<1>3. part = Fread(data, from - begin, to - from)
  BY <1>1 DEF Part
<1>4. from - begin \in Nat /\ to - from \in Int /\ from \in Nat /\ to \in Int
  BY <1>1 DEF Larger, Smaller
<1> HIDE DEF from, to, a, b, begin, end, part, data
<1>5. /\ part \in Seq(Int)
      /\ Len(part) = Larger(Smaller(to - from, Len(data) - (from - begin)), 0)
      /\ \A j \in 1 .. Len(part) :
             (from - begin) + j \in 1 .. Len(data) /\ part[j] = data[(from - begin) + j]
  BY <1>1, <1>3, <1>4, FreadGives
<1>6. Len(data) \in Nat
  BY <1>1, LenProperties
<1>7. Len(part) \in 0 .. b - a
  BY <1>1, <1>2, <1>4, <1>5, <1>6, SMTT(30) DEF Larger, Smaller
<1>8. ASSUME NEW j \in 1 .. Len(part)
      PROVE  first + a + j - begin \in 1 .. Len(data) /\ part[j] = data[first + a + j - begin]
  <2>1. a < b
    BY <1>2, <1>7
  <2>2. (from - begin) + j = first + a + j - begin
    BY <1>1, <1>2, <1>4, <2>1
  <2>3. QED
    BY <1>5, <2>2
<1>9. Len(part) = b - a \/ (Len(data) < first + b - begin /\ a < b)
  <2>1. a < b \/ Len(part) = b - a
    BY <1>2, <1>7
  <2>2. CASE a < b /\ first + b - begin <= Len(data)
    <3>1. to - from = b - a /\ b - a \in Nat /\ to - from <= Len(data) - (from - begin)
      BY <1>1, <1>2, <1>4, <1>6, <2>2
    <3>2. Smaller(to - from, Len(data) - (from - begin)) = b - a
      <4>1. Len(data) - (from - begin) \in Int
        BY <1>4, <1>6
      <4>2. QED
        BY <1>4, <3>1, <4>1 DEF Smaller
    <3>3. QED
      BY <1>5, <3>1, <3>2 DEF Larger
  <2>3. first + b - begin \in Int
    BY <1>1, <1>2
  <2>4. QED
    BY <1>6, <2>1, <2>2, <2>3
<1>10. QED
  BY <1>5, <1>7, <1>8, <1>9 DEF a, b, begin, part, data

\* It is the bytes that belong there exactly when the file has them.
LEMMA PartRight ==
  ASSUME NEW val \in Contents,
         NEW m, WellFormed(m), NEW d, IsDisk(m, d), NEW first \in Nat, NEW n \in Nat,
         NEW k \in 1 .. Len(m.files)
  PROVE  LET a == Covered(m, k - 1, first, n)
             b == Covered(m, k, first, n)
         IN  RightIn(val, m, d, k, first, n) <=>
                 Part(m.files[k], d[k], first, n) = Bytes(val, first + a, b - a)
<1> DEFINE data == d[k]
           begin == EndOf(m, k - 1)
           end == EndOf(m, k)
           a == Covered(m, k - 1, first, n)
           b == Covered(m, k, first, n)
           part == Part(m.files[k], data, first, n)
<1>1. begin \in Nat /\ end \in Nat
  <2>1. k - 1 \in 0 .. Len(m.files) /\ k \in 0 .. Len(m.files)
    OBVIOUS
  <2>2. QED
    BY <2>1, FileLies
<1>2. /\ a \in 0 .. n /\ b \in 0 .. n /\ a <= b
      /\ a < b => first + a = Larger(begin, first) /\ first + b = Smaller(end, first + n)
      /\ a = b => Smaller(end, first + n) <= Larger(begin, first)
  BY CoveredGrows, ZenonT(60)
<1>3. /\ part \in Seq(Int) /\ Len(part) \in 0 .. b - a
      /\ \A j \in 1 .. Len(part) : /\ first + a + j - begin \in 1 .. Len(data)
                                   /\ part[j] = data[first + a + j - begin]
      /\ Len(part) = b - a \/ (Len(data) < first + b - begin /\ a < b)
  BY PartLies
<1>4. RightIn(val, m, d, k, first, n) <=>
          \A o \in Nat : first <= o /\ o < first + n /\ begin <= o /\ o < end
                         => o - begin + 1 \in 1 .. Len(data) /\ data[o - begin + 1] = val[o]
  BY DEF RightIn, Has
<1> HIDE DEF data, begin, end, a, b, part
<1>5. ASSUME RightIn(val, m, d, k, first, n) PROVE part = Bytes(val, first + a, b - a)
  <2>1. ASSUME NEW j \in 1 .. b - a
        PROVE  first + a + j - begin \in 1 .. Len(data)
               /\ data[first + a + j - begin] = val[first + a + j - 1]
    <3> DEFINE o == first + a + j - 1
    <3>1. o \in Nat /\ first <= o /\ o < first + n /\ begin <= o /\ o < end
      BY <1>1, <1>2 DEF Larger, Smaller
    <3>2. o - begin + 1 = first + a + j - begin
      BY <1>1, <1>2
    <3> HIDE DEF o
    <3>3. o - begin + 1 \in 1 .. Len(data) /\ data[o - begin + 1] = val[o]
      BY <1>4, <1>5, <3>1
    <3>4. QED
      BY <3>2, <3>3 DEF o
  <2>2. Len(part) = b - a
    <3>1. CASE a < b
      <4>1. b - a \in 1 .. b - a
        BY <1>2, <3>1
      <4>2. first + a + (b - a) - begin \in 1 .. Len(data)
        BY <2>1, <4>1
      <4>3. first + a + (b - a) - begin = first + b - begin
        BY <1>1, <1>2
      <4>4. ~(Len(data) < first + b - begin)
        BY <1>1, <1>2, <4>2, <4>3
      <4>5. QED
        BY <1>3, <4>4
    <3>2. CASE ~(a < b)
      BY <1>3, <3>2
    <3>3. QED
      BY <3>1, <3>2
  <2>3. \A j \in 1 .. Len(part) : part[j] = val[first + a + j - 1]
    BY <1>3, <2>1, <2>2
  <2>4. first + a \in Int
    BY <1>2
  <2>5. QED
    BY <1>3, <2>2, <2>3, <2>4, AreBytes
<1>6. ASSUME part = Bytes(val, first + a, b - a) PROVE RightIn(val, m, d, k, first, n)
  <2>1. first + a \in Int /\ b - a \in Nat
    BY <1>2
  <2>2. Len(part) = b - a /\ \A j \in 1 .. b - a : part[j] = val[first + a + j - 1]
    BY <1>6, <2>1, BytesAre
  <2>3. ASSUME NEW o \in Nat, first <= o, o < first + n, begin <= o, o < end
        PROVE  o - begin + 1 \in 1 .. Len(data) /\ data[o - begin + 1] = val[o]
    <3> DEFINE j == o - first - a + 1
    <3>1. a < b
      BY <1>1, <1>2, <2>3 DEF Larger, Smaller
    <3>2. j \in 1 .. b - a
      BY <1>1, <1>2, <2>3, <3>1 DEF Larger, Smaller
    <3>3. first + a + j - begin = o - begin + 1 /\ first + a + j - 1 = o
      BY <1>1, <1>2
    <3> HIDE DEF j
    <3>4. first + a + j - begin \in 1 .. Len(data) /\ part[j] = data[first + a + j - begin]
          /\ part[j] = val[first + a + j - 1]
      BY <1>3, <2>2, <3>2
    <3>5. QED
      BY <3>3, <3>4
  <2>4. QED
    BY <1>4, <2>3
<1>7. QED
  BY <1>5, <1>6 DEF data, begin, end, a, b, part
------------------------------------------------------------------------------
\* What has been gathered after k files.
LEMMA GatheredTurns ==
  ASSUME NEW m, WellFormed(m), NEW d, IsDisk(m, d), NEW first \in Nat, NEW n \in Nat
  PROVE  /\ Gathered(m, d, first, n) \in [0 .. Len(m.files) -> Seq(Int)]
         /\ Gathered(m, d, first, n)[0] = <<>>
         /\ \A k \in 1 .. Len(m.files) :
                Gathered(m, d, first, n)[k] =
                    Gathered(m, d, first, n)[k - 1] \o Part(m.files[k], d[k], first, n)
<1> DEFINE turn == [k \in DOMAIN m.files |->
                       [b \in Seq(Int) |-> b \o Part(m.files[k], d[k], first, n)]]
           F == Len(m.files)
           G == Gathered(m, d, first, n)
<1>1. F \in Nat /\ DOMAIN m.files = 1 .. F
  BY FileLies
<1>2. \A k \in 1 .. F : Part(m.files[k], d[k], first, n) \in Seq(Int)
  BY PartLies
<1>3. \A k \in 1 .. F : \A b \in Seq(Int) : turn[k][b] = b \o Part(m.files[k], d[k], first, n)
  BY <1>1
<1>4. \A k \in 1 .. F : \A b \in Seq(Int) : turn[k][b] \in Seq(Int)
  BY <1>2, <1>3, ConcatProperties
<1>5. <<>> \in Seq(Int)
  BY EmptySeq
<1>6. G = Loop(turn, <<>>, F)
  BY DEF Gathered
<1> HIDE DEF turn, G, F
<1>7. /\ G \in [0 .. F -> Seq(Int)] /\ G[0] = <<>>
      /\ \A k \in 1 .. F : G[k] = turn[k][G[k - 1]]
  <2>1. TurnByTurn(Seq(Int), turn, <<>>, F)
    BY <1>1, <1>4, <1>5, LoopTurns
  <2>2. QED
    BY <1>6, <2>1 DEF TurnByTurn
<1>8. ASSUME NEW k \in 1 .. F PROVE G[k] = G[k - 1] \o Part(m.files[k], d[k], first, n)
  <2>1. k - 1 \in 0 .. F
    BY <1>1
  <2>2. G[k - 1] \in Seq(Int)
    BY <1>7, <2>1
  <2>3. QED
    BY <1>3, <1>7, <2>2
<1>9. QED
  BY <1>7, <1>8 DEF G, F

\* It is no more than the files cover, and exactly the bytes that belong there when
\* each of these files has them.
LEMMA GatheredIs ==
  ASSUME NEW val \in Contents,
         NEW m, WellFormed(m), NEW d, IsDisk(m, d), NEW first \in Nat, NEW n \in Nat,
         NEW k \in 0 .. Len(m.files)
  PROVE  /\ Len(Gathered(m, d, first, n)[k]) \in 0 .. Covered(m, k, first, n)
         /\ Gathered(m, d, first, n)[k] = Bytes(val, first, Covered(m, k, first, n))
            <=> \A h \in 1 .. k : RightIn(val, m, d, h, first, n)
<1> DEFINE F == Len(m.files)
           G(j) == Gathered(m, d, first, n)[j]
           c(j) == Covered(m, j, first, n)
           part(j) == Part(m.files[j], d[j], first, n)
           Right(j) == RightIn(val, m, d, j, first, n)
           H == {j \in 0 .. F : /\ Len(G(j)) \in 0 .. c(j)
                                /\ G(j) = Bytes(val, first, c(j)) <=> \A h \in 1 .. j : Right(h)}
<1>1. F \in Nat
  BY FileLies
<1>2. /\ \A j \in 0 .. F : G(j) \in Seq(Int)
      /\ G(0) = <<>> /\ \A j \in 1 .. F : G(j) = G(j - 1) \o part(j)
  <2>1. /\ Gathered(m, d, first, n) \in [0 .. F -> Seq(Int)] /\ G(0) = <<>>
        /\ \A j \in 1 .. F : G(j) = G(j - 1) \o part(j)
    BY GatheredTurns, ZenonT(60)
  <2>2. QED
    BY <2>1, Zenon
<1>3. \A j \in 1 .. F : c(j - 1) \in 0 .. n /\ c(j) \in 0 .. n /\ c(j - 1) <= c(j)
  BY CoveredGrows
<1>4. c(0) = 0
  <2>1. EndOf(m, 0) = 0
    BY FileLies
  <2>2. QED
    BY <2>1 DEF Covered, Smaller, Larger
<1>5. \A j \in 1 .. F : part(j) \in Seq(Int) /\ Len(part(j)) \in 0 .. c(j) - c(j - 1)
  BY PartLies
<1>6. \A j \in 1 .. F : Right(j) <=> part(j) = Bytes(val, first + c(j - 1), c(j) - c(j - 1))
  BY PartRight
<1> HIDE DEF F, G, c, part, Right
<1>7. 0 \in H
  <2>1. Len(<<>>) = 0 /\ <<>> \in Seq(Int)
    BY EmptySeq
  <2>2. Bytes(val, first, 0) = <<>>
    <3>1. Bytes(val, first, 0) \in Seq(Int) /\ Len(Bytes(val, first, 0)) = 0
      BY BytesAre
    <3>2. QED
      BY <3>1, EmptySeq
  <2>3. Len(G(0)) \in 0 .. c(0) /\ G(0) = Bytes(val, first, c(0))
    BY <1>2, <1>4, <2>1, <2>2
  <2>4. 0 \in 0 .. F /\ 1 .. 0 = {}
    BY <1>1
  <2>5. QED
    BY <2>3, <2>4
<1>8. ASSUME NEW j \in 1 .. F, j - 1 \in H PROVE j \in H
  <2> DEFINE s == G(j - 1)
             t == part(j)
             a == c(j - 1)
             b == c(j)
  <2>1. j \in 0 .. F /\ j - 1 \in 0 .. F
    BY <1>1
  <2>2. s \in Seq(Int) /\ t \in Seq(Int) /\ G(j) = s \o t
    BY <1>2, <1>5, <2>1
  <2>3. Len(s) \in 0 .. a /\ Len(t) \in 0 .. b - a /\ a \in Nat /\ b \in Nat
    BY <1>3, <1>5, <1>8
  <2>4. s = Bytes(val, first, a) <=> \A h \in 1 .. j - 1 : Right(h)
    BY <1>8
  <2>5. Right(j) <=> t = Bytes(val, first + a, b - a)
    BY <1>6
  <2>6. (\A h \in 1 .. j : Right(h)) <=> (\A h \in 1 .. j - 1 : Right(h)) /\ Right(j)
    <3>1. 1 .. j = (1 .. j - 1) \cup {j}
      BY <1>1
    <3>2. QED
      BY <3>1
  <2> HIDE DEF s, t, a, b
  <2>7. Len(s \o t) = Len(s) + Len(t)
    BY <2>2, ConcatProperties
  <2>8. Len(s) + Len(t) \in 0 .. b /\ (Len(s) + Len(t) = b => Len(s) = a /\ Len(t) = b - a)
    BY <2>3
  <2>9. ASSUME s \o t = Bytes(val, first, b)
        PROVE  s = Bytes(val, first, a) /\ t = Bytes(val, first + a, b - a)
    <3>1. Len(s \o t) = b
      <4>1. first \in Int /\ b \in Nat
        BY <2>3
      <4>2. Len(Bytes(val, first, b)) = b
        BY <4>1, BytesAre
      <4>3. QED
        BY <2>9, <4>2
    <3>2. Len(s) = a /\ Len(t) = b - a /\ Len(s) + Len(t) = b
      BY <2>7, <2>8, <3>1
    <3>3. s \o t = Bytes(val, first, Len(s) + Len(t))
      BY <2>9, <3>2
    <3>4. s = Bytes(val, first, Len(s)) /\ t = Bytes(val, first + Len(s), Len(t))
      <4>1. first \in Int
        OBVIOUS
      <4>2. QED
        BY <2>2, <3>3, <4>1, BytesJoin
    <3>5. QED
      BY <3>2, <3>4
  <2>10. ASSUME s = Bytes(val, first, a), t = Bytes(val, first + a, b - a)
         PROVE  s \o t = Bytes(val, first, b)
    <3>1. b - a \in Nat /\ first + a \in Int /\ first \in Int
      BY <2>3
    <3>2. Len(s) = a /\ Len(t) = b - a
      <4>1. Len(Bytes(val, first, a)) = a /\ Len(Bytes(val, first + a, b - a)) = b - a
        BY <2>3, <3>1, BytesAre
      <4>2. QED
        BY <2>10, <4>1
    <3>3. s \o t = Bytes(val, first, Len(s) + Len(t))
      <4>1. s = Bytes(val, first, Len(s)) /\ t = Bytes(val, first + Len(s), Len(t))
        BY <2>10, <3>2
      <4> HIDE DEF s, t
      <4>2. QED
        BY <2>2, <3>1, <4>1, BytesJoin
    <3>4. Len(s) + Len(t) = b
      BY <2>3, <3>2
    <3>5. QED
      BY <3>3, <3>4
  <2>11. G(j) = Bytes(val, first, b) <=> \A h \in 1 .. j : Right(h)
    BY <2>2, <2>4, <2>5, <2>6, <2>9, <2>10
  <2>12. Len(G(j)) \in 0 .. b
    BY <2>2, <2>7, <2>8
  <2>13. QED
    BY <2>1, <2>11, <2>12 DEF b
<1> HIDE DEF H
<1>9. 0 .. F \subseteq H
  BY <1>1, <1>7, <1>8, UpTo
<1>10. k \in H
  BY <1>9 DEF F
<1>11. QED
  BY <1>10 DEF H, G, c, Right

\* What lies within the torrent.
LEMMA GatheredRight ==
  ASSUME NEW val \in Contents,
         NEW m, WellFormed(m), NEW d, IsDisk(m, d), NEW first \in Nat, NEW n \in Nat,
         first + n <= m.totalSize
  PROVE  Gathered(m, d, first, n)[Len(m.files)] = Bytes(val, first, n) <=> There(val, m, d, first, n)
<1>1. Len(m.files) \in 0 .. Len(m.files)
  <2>1. Len(m.files) \in Nat
    BY FileLies
  <2>2. QED
    BY <2>1
<1>2. Covered(m, Len(m.files), first, n) = n
  BY CoveredAtTheEnds
<1>3. QED
  BY <1>1, <1>2, GatheredIs DEF There

\* When no file is short nothing is missing.
LEMMA GatheredLength ==
  ASSUME NEW m, WellFormed(m), NEW d, IsDisk(m, d), Whole(m, d),
         NEW first \in Nat, NEW n \in Nat, first + n <= m.totalSize
  PROVE  Len(Gathered(m, d, first, n)[Len(m.files)]) = n
<1> DEFINE F == Len(m.files)
           G(j) == Gathered(m, d, first, n)[j]
           c(j) == Covered(m, j, first, n)
           part(j) == Part(m.files[j], d[j], first, n)
           H == {j \in 0 .. F : Len(G(j)) = c(j)}
<1>1. F \in Nat /\ DOMAIN m.files = 1 .. F
  BY FileLies
<1>2. /\ \A j \in 0 .. F : G(j) \in Seq(Int)
      /\ G(0) = <<>> /\ \A j \in 1 .. F : G(j) = G(j - 1) \o part(j)
  <2>1. /\ Gathered(m, d, first, n) \in [0 .. F -> Seq(Int)] /\ G(0) = <<>>
        /\ \A j \in 1 .. F : G(j) = G(j - 1) \o part(j)
    BY GatheredTurns, ZenonT(60)
  <2>2. QED
    BY <2>1, Zenon
<1>3. \A j \in 1 .. F : c(j - 1) \in 0 .. n /\ c(j) \in 0 .. n /\ c(j - 1) <= c(j)
  BY CoveredGrows
<1>4. c(0) = 0 /\ c(F) = n
  BY CoveredAtTheEnds
<1>5. ASSUME NEW j \in 1 .. F PROVE part(j) \in Seq(Int) /\ Len(part(j)) = c(j) - c(j - 1)
  <2>1. /\ part(j) \in Seq(Int)
        /\ Len(part(j)) = c(j) - c(j - 1)
           \/ (Len(d[j]) < first + c(j) - EndOf(m, j - 1) /\ c(j - 1) < c(j))
    BY PartLies
  <2>2. j - 1 \in 0 .. F /\ j \in 0 .. F
    BY <1>1
  <2>3. /\ EndOf(m, j - 1) \in Nat /\ EndOf(m, j) \in Nat
        /\ EndOf(m, j) = EndOf(m, j - 1) + m.files[j].length
        /\ m.files[j].length \in Nat
    BY <2>2, FileLies
  <2>4. Len(d[j]) = m.files[j].length
    BY <1>1 DEF Whole
  <2>5. c(j - 1) < c(j) => first + c(j) = Smaller(EndOf(m, j), first + n)
    BY CoveredGrows
  <2>6. c(j - 1) \in 0 .. n /\ c(j) \in 0 .. n
    BY <1>3
  <2> HIDE DEF c, part
  <2>7. c(j - 1) < c(j) => first + c(j) <= EndOf(m, j)
    BY <2>3, <2>5, <2>6 DEF Smaller
  <2>8. QED
    BY <2>1, <2>3, <2>4, <2>6, <2>7, SMTT(30)
<1> HIDE DEF F, G, c, part
<1>6. 0 \in H
  BY <1>1, <1>2, <1>4, EmptySeq
<1>7. ASSUME NEW j \in 1 .. F, j - 1 \in H PROVE j \in H
  <2>1. j \in 0 .. F /\ j - 1 \in 0 .. F
    BY <1>1
  <2>2. G(j - 1) \in Seq(Int) /\ part(j) \in Seq(Int) /\ Len(part(j)) = c(j) - c(j - 1)
    BY <1>2, <1>5, <2>1
  <2>3. Len(G(j)) = Len(G(j - 1)) + Len(part(j))
    BY <1>2, <2>2, ConcatProperties
  <2>4. Len(G(j - 1)) = c(j - 1)
    BY <1>7
  <2>5. c(j - 1) \in Int /\ c(j) \in Int
    BY <1>3
  <2>6. QED
    BY <2>1, <2>2, <2>3, <2>4, <2>5
<1> HIDE DEF H
<1>8. 0 .. F \subseteq H
  BY <1>1, <1>6, <1>7, UpTo
<1>9. F \in 0 .. F
  BY <1>1
<1>10. F \in H
  BY <1>8, <1>9
<1>11. QED
  BY <1>4, <1>10 DEF H, G, F
------------------------------------------------------------------------------
(* What is written to the files *)

\* An fwrite leaves the new bytes at their position and the others as they were.
LEMMA FwriteGives ==
  ASSUME NEW data \in Seq(Int), NEW p \in Nat, NEW new \in Seq(Int)
  PROVE  LET after == Fwrite(data, p, new)
         IN  /\ after \in Seq(Int)
             /\ Len(after) = IF new = <<>> THEN Len(data) ELSE Larger(Len(data), p + Len(new))
             /\ \A k \in 1 .. Len(after) :
                    after[k] = IF k - p \in 1 .. Len(new) THEN new[k - p]
                               ELSE IF k \in 1 .. Len(data) THEN data[k] ELSE Hole
<1> DEFINE e == Larger(Len(data), p + Len(new))
           At(k) == IF k - p \in 1 .. Len(new) THEN new[k - p]
                    ELSE IF k \in 1 .. Len(data) THEN data[k] ELSE Hole
<1>1. /\ Len(data) \in Nat /\ Len(new) \in Nat
      /\ DOMAIN data = 1 .. Len(data) /\ DOMAIN new = 1 .. Len(new)
  BY LenProperties
<1>2. CASE new = <<>>
  <2>1. Fwrite(data, p, new) = data
    BY <1>2 DEF Fwrite
  <2>2. Len(new) = 0
    BY <1>2, EmptySeq
  <2>3. QED
    BY <1>1, <1>2, <2>1, <2>2
<1>3. CASE new # <<>>
  <2>1. e \in Nat
    BY <1>1 DEF Larger
  <2>2. \A k \in 1 .. e : At(k) \in Int
    <3>1. \A k \in 1 .. Len(new) : new[k] \in Int
      BY ElementOfSeq
    <3>2. \A k \in 1 .. Len(data) : data[k] \in Int
      BY ElementOfSeq
    <3>3. QED
      BY <3>1, <3>2 DEF Hole
  <2>3. Fwrite(data, p, new) = [k \in 1 .. e |-> At(k)]
    <3>1. \A k \in 1 .. e :
              (CASE k - p \in DOMAIN new -> new[k - p]
                 [] k \in DOMAIN data /\ k - p \notin DOMAIN new -> data[k]
                 [] OTHER -> Hole) = At(k)
      BY <1>1
    <3>2. QED
      BY <1>3, <3>1, Zenon DEF Fwrite
  <2> HIDE DEF At, e
  <2>4. Fwrite(data, p, new) \in [1 .. e -> Int]
    BY <2>2, <2>3
  <2>5. Fwrite(data, p, new) \in Seq(Int) /\ Len(Fwrite(data, p, new)) = e
    BY <2>1, <2>4
  <2>6. QED
    BY <1>3, <2>3, <2>5 DEF At, e
<1>4. QED
  BY <1>2, <1>3

\* What write number k of the loop comes to: the loop has got as far as the files
\* before cover, and file k gets its part if it has one.
FileAfter(val, m, d, first, n, k) ==
    LET a == Covered(m, k - 1, first, n)
        b == Covered(m, k, first, n)
    IN  IF a < b THEN Fwrite(d[k], first + a - EndOf(m, k - 1), Bytes(val, first + a, b - a))
        ELSE d[k]

\* It has the bytes it should have of those written; the others are as before.
LEMMA FileAfterGives ==
  ASSUME NEW val \in Contents,
         NEW m, WellFormed(m), NEW d, IsDisk(m, d), NEW first \in Nat, NEW n \in Nat,
         NEW k \in 1 .. Len(m.files)
  PROVE  LET after == FileAfter(val, m, d, first, n, k)
         IN  /\ after \in Seq(Int) /\ Len(after) <= m.files[k].length
             /\ Len(d[k]) <= Len(after)
             /\ Has(val, m, after, k, first, n)
             /\ \A o \in Nat :
                    ~(first <= o /\ o < first + n) /\ o - EndOf(m, k - 1) + 1 \in 1 .. Len(d[k])
                    => after[o - EndOf(m, k - 1) + 1] = d[k][o - EndOf(m, k - 1) + 1]
<1> DEFINE data == d[k]
           begin == EndOf(m, k - 1)
           end == EndOf(m, k)
           a == Covered(m, k - 1, first, n)
           b == Covered(m, k, first, n)
           after == FileAfter(val, m, d, first, n, k)
           p == first + a - begin
           new == Bytes(val, first + a, b - a)
           length == m.files[k].length
<1>1. begin \in Nat /\ end \in Nat /\ length \in Nat /\ end = begin + length
      /\ data \in Seq(Int) /\ Len(data) \in Nat /\ Len(data) <= length
  <2>1. k - 1 \in 0 .. Len(m.files) /\ k \in 0 .. Len(m.files)
        /\ DOMAIN m.files = 1 .. Len(m.files)
    BY FileLies
  <2>2. data \in Seq(Int) /\ Len(data) <= length
    BY <2>1 DEF IsDisk
  <2>3. Len(data) \in Nat
    BY <2>2, LenProperties
  <2>4. QED
    BY <2>1, <2>2, <2>3, FileLies
<1>2. /\ a \in 0 .. n /\ b \in 0 .. n /\ a <= b
      /\ a < b => first + a = Larger(begin, first) /\ first + b = Smaller(end, first + n)
      /\ a = b => Smaller(end, first + n) <= Larger(begin, first)
  BY CoveredGrows, ZenonT(60)
<1>3. after = IF a < b THEN Fwrite(data, p, new) ELSE data
  BY DEF FileAfter
<1>4. CASE ~(a < b)
  <2> HIDE DEF a, b, begin, end, data, after, length
  <2>1. after = data /\ a = b
    BY <1>2, <1>3, <1>4
  <2>2. ASSUME NEW o \in Nat, first <= o, o < first + n, begin <= o, o < end PROVE FALSE
    BY <1>1, <1>2, <2>1, <2>2 DEF Larger, Smaller
  <2>3. QED
    BY <1>1, <2>1, <2>2 DEF Has, after, data, begin, end, length
<1>5. CASE a < b
  <2>1. first + a \in Int /\ b - a \in Nat \ {0} /\ p \in Nat /\ p + (b - a) <= length
        /\ first + a = Larger(begin, first) /\ first + b = Smaller(end, first + n)
    <3> HIDE DEF a, b, begin, end, length
    <3>1. QED
      BY <1>1, <1>2, <1>5 DEF Larger, Smaller, p
  <2>2. /\ new \in Seq(Int) /\ Len(new) = b - a
        /\ \A j \in 1 .. b - a : new[j] = val[first + a + j - 1]
    BY <2>1, BytesAre
  <2>3. new # <<>>
    BY <2>1, <2>2, EmptySeq
  <2> HIDE DEF a, b, begin, end, data, p, new, after, length
  <2>4. after = Fwrite(data, p, new)
    BY <1>3, <1>5
  <2>5. /\ after \in Seq(Int) /\ Len(after) = Larger(Len(data), p + (b - a))
        /\ \A j \in 1 .. Len(after) :
               after[j] = IF j - p \in 1 .. b - a THEN new[j - p]
                          ELSE IF j \in 1 .. Len(data) THEN data[j] ELSE Hole
    <3>1. /\ after \in Seq(Int) /\ Len(after) = Larger(Len(data), p + Len(new))
          /\ \A j \in 1 .. Len(after) :
                 after[j] = IF j - p \in 1 .. Len(new) THEN new[j - p]
                            ELSE IF j \in 1 .. Len(data) THEN data[j] ELSE Hole
      <4>1. data \in Seq(Int) /\ p \in Nat /\ new \in Seq(Int)
        BY <1>1, <2>1, <2>2
      <4> DEFINE w == Fwrite(data, p, new)
      <4>2. /\ w \in Seq(Int)
            /\ Len(w) = IF new = <<>> THEN Len(data) ELSE Larger(Len(data), p + Len(new))
            /\ \A j \in 1 .. Len(w) :
                   w[j] = IF j - p \in 1 .. Len(new) THEN new[j - p]
                          ELSE IF j \in 1 .. Len(data) THEN data[j] ELSE Hole
        BY <4>1, FwriteGives
      <4>3. after = w
        BY <2>4
      <4> HIDE DEF w
      <4>4. QED
        BY <2>3, <4>2, <4>3
    <3>2. QED
      BY <2>2, <3>1
  <2>6. Len(after) <= length /\ Len(data) <= Len(after) /\ Len(after) \in Nat
        /\ p + (b - a) <= Len(after)
    BY <1>1, <2>1, <2>5 DEF Larger
  <2>7. ASSUME NEW o \in Nat, first <= o, o < first + n, begin <= o, o < end
        PROVE  o - begin + 1 \in 1 .. Len(after) /\ after[o - begin + 1] = val[o]
    <3> DEFINE j == o - begin + 1
    <3>1. first + a <= o /\ o < first + b
      BY <1>1, <1>2, <2>1, <2>7 DEF Larger, Smaller
    <3>2. j - p \in 1 .. b - a /\ first + a + (j - p) - 1 = o /\ j \in 1 .. p + (b - a)
      BY <1>1, <1>2, <2>1, <2>7, <3>1 DEF p
    <3> HIDE DEF j
    <3>3. j \in 1 .. Len(after)
      BY <2>1, <2>6, <3>2
    <3>4. after[j] = new[j - p]
      BY <2>5, <3>2, <3>3
    <3>5. QED
      BY <2>2, <3>2, <3>3, <3>4 DEF j
  <2>8. ASSUME NEW o \in Nat, ~(first <= o /\ o < first + n), o - begin + 1 \in 1 .. Len(data)
        PROVE  after[o - begin + 1] = data[o - begin + 1]
    <3> DEFINE j == o - begin + 1
    <3>1. ~(j - p \in 1 .. b - a)
      BY <1>1, <1>2, <2>8 DEF p
    <3>2. j \in 1 .. Len(after)
      BY <1>1, <2>6, <2>8
    <3> HIDE DEF j
    <3>3. QED
      BY <2>5, <2>8, <3>1, <3>2 DEF j
  <2>9. QED
    BY <2>5, <2>6, <2>7, <2>8 DEF Has, after, data, begin, end, length
<1>6. QED
  BY <1>4, <1>5
\* The disk after k turns, and what else there is then.
DiskAfter(val, m, d, first, n, k) ==
    [f \in DOMAIN m.files |-> IF f <= k THEN FileAfter(val, m, d, first, n, f) ELSE d[f]]

Reached(val, m, d, first, n, k) ==
    [disk |-> DiskAfter(val, m, d, first, n, k), off |-> Covered(m, k, first, n),
     pos |-> first + Covered(m, k, first, n), length |-> n - Covered(m, k, first, n)]

\* A turn of the loop.
LEMMA WriteTurn ==
  ASSUME NEW val \in Contents,
         NEW m, WellFormed(m), NEW d, IsDisk(m, d), NEW first \in Nat, NEW n \in Nat,
         NEW k \in 1 .. Len(m.files)
  PROVE  /\ Reached(val, m, d, first, n, k - 1) \in Progress(m)
         /\ WriteFile(m, Bytes(val, first, n), k, Reached(val, m, d, first, n, k - 1))
                = Reached(val, m, d, first, n, k)
<1> DEFINE F == Len(m.files)
           begin == EndOf(m, k - 1)
           end == EndOf(m, k)
           a == Covered(m, k - 1, first, n)
           b == Covered(m, k, first, n)
           w == Reached(val, m, d, first, n, k - 1)
           data == Bytes(val, first, n)
           amount == Smaller(end - (first + a), n - a)
           before == DiskAfter(val, m, d, first, n, k - 1)
           after == DiskAfter(val, m, d, first, n, k)
<1>1. /\ F \in Nat /\ DOMAIN m.files = 1 .. F /\ begin \in Nat /\ end \in Nat /\ begin <= end
      /\ m.files[k].begin = begin /\ End(m.files[k]) = end
  <2>1. k - 1 \in 0 .. F /\ k \in 0 .. F
    OBVIOUS
  <2>2. QED
    BY <2>1, FileLies, SMTT(30)
<1>2. /\ a \in 0 .. n /\ b \in 0 .. n /\ a <= b
      /\ a < b => first + a = Larger(begin, first) /\ first + b = Smaller(end, first + n)
      /\ a = b => Smaller(end, first + n) <= Larger(begin, first)
  BY CoveredGrows, ZenonT(60)
<1>3. b = Smaller(Larger(end - first, 0), n)
  BY DEF Covered
<1>4. w = [disk |-> before, off |-> a, pos |-> first + a, length |-> n - a]
  BY DEF Reached
<1>5. Reached(val, m, d, first, n, k)
        = [disk |-> after, off |-> b, pos |-> first + b, length |-> n - b]
  BY DEF Reached
<1>6. \A f \in 1 .. F : d[f] \in Seq(Int) /\ FileAfter(val, m, d, first, n, f) \in Seq(Int)
  BY <1>1, FileAfterGives DEF IsDisk
<1>7. /\ before \in [1 .. F -> Seq(Int)] /\ before[k] = d[k]
      /\ after = [before EXCEPT ![k] = FileAfter(val, m, d, first, n, k)]
  <2>1. before \in [1 .. F -> Seq(Int)]
    BY <1>1, <1>6 DEF DiskAfter
  <2>2. before[k] = d[k] /\ after[k] = FileAfter(val, m, d, first, n, k)
    BY <1>1 DEF DiskAfter
  <2>3. \A f \in 1 .. F : f # k => after[f] = before[f]
    BY <1>1 DEF DiskAfter
  <2>4. after = [f \in 1 .. F |-> after[f]]
    BY <1>1 DEF DiskAfter
  <2> HIDE DEF before, after
  <2>5. QED
    BY <2>1, <2>2, <2>3, <2>4
<1>8. FileAfter(val, m, d, first, n, k)
        = IF a < b THEN Fwrite(d[k], first + a - begin, Bytes(val, first + a, b - a)) ELSE d[k]
  BY DEF FileAfter
<1>9. WriteFile(m, data, k, w)
        = IF first + a < begin \/ first + a >= end THEN w
          ELSE [disk |-> [before EXCEPT ![k] =
                             Fwrite(@, first + a - begin, SubSeq(data, a + 1, a + amount))],
                off |-> a + amount, pos |-> first + a + amount, length |-> n - a - amount]
  <2> HIDE DEF before, a, begin, end, data
  <2>1. w.disk = before /\ w.off = a /\ w.pos = first + a /\ w.length = n - a
    BY <1>4
  <2> HIDE DEF w
  <2> DEFINE take == Smaller(End(m.files[k]) - w.pos, w.length)
  <2>2. WriteFile(m, data, k, w)
          = IF w.pos < m.files[k].begin \/ w.pos >= End(m.files[k]) THEN w
            ELSE [disk |-> [w.disk EXCEPT ![k] =
                               Fwrite(@, w.pos - m.files[k].begin,
                                      SubSeq(data, w.off + 1, w.off + take))],
                  off |-> w.off + take, pos |-> w.pos + take, length |-> w.length - take]
    BY DEF WriteFile
  <2>3. take = amount
    BY <1>1, <2>1
  <2> HIDE DEF take, amount
  <2>4. /\ w.pos < m.files[k].begin <=> first + a < begin
        /\ w.pos >= End(m.files[k]) <=> first + a >= end
    BY <1>1, <2>1
  <2>5. [w.disk EXCEPT ![k] =
             Fwrite(@, w.pos - m.files[k].begin, SubSeq(data, w.off + 1, w.off + take))]
          = [before EXCEPT ![k] =
                 Fwrite(@, first + a - begin, SubSeq(data, a + 1, a + amount))]
    <3> DEFINE old == Fwrite(w.disk[k], w.pos - m.files[k].begin,
                             SubSeq(data, w.off + 1, w.off + take))
               new == Fwrite(before[k], first + a - begin, SubSeq(data, a + 1, a + amount))
    <3>1. old = new
      <4>1. /\ w.disk[k] = before[k] /\ w.pos - m.files[k].begin = first + a - begin
            /\ w.off + 1 = a + 1 /\ w.off + take = a + amount
        BY <1>1, <1>2, <2>1, <2>3
      <4>2. QED
        BY <4>1, Zenon
    <3> HIDE DEF old, new
    <3>2. [w.disk EXCEPT ![k] = old] = [before EXCEPT ![k] = new]
      BY <2>1, <3>1
    <3>3. QED
      BY <3>2 DEF old, new
  <2>6. /\ w.off + take = a + amount /\ w.pos + take = first + a + amount
        /\ w.length - take = n - a - amount
    BY <2>1, <2>3
  <2>7. QED
    BY <2>2, <2>4, <2>5, <2>6, Zenon
<1> HIDE DEF F, begin, end, a, b, w, data, amount, before, after
<1>10. w \in Progress(m)
  <2>1. first + a \in Nat /\ n - a \in Nat /\ a \in Nat
    BY <1>2
  <2>2. before \in [DOMAIN m.files -> Seq(Int)]
    BY <1>1, <1>7
  <2>3. QED
    BY <1>4, <2>1, <2>2 DEF Progress
<1>11. CASE first + a < begin \/ first + a >= end
  <2>1. a = b
    BY <1>1, <1>2, <1>11 DEF Larger, Smaller
  <2>2. after = before
    <3>1. FileAfter(val, m, d, first, n, k) = before[k]
      BY <1>2, <1>7, <1>8, <2>1
    <3>2. QED
      BY <1>7, <3>1
  <2>3. WriteFile(m, data, k, w) = w
    BY <1>9, <1>11
  <2>4. QED
    BY <1>4, <1>5, <1>10, <2>1, <2>2, <2>3 DEF w, data
<1>12. CASE ~(first + a < begin \/ first + a >= end)
  <2>1. amount = b - a /\ amount \in Nat
    BY <1>1, <1>2, <1>3, <1>12, SMTT(30) DEF amount, Larger, Smaller
  <2>2. SubSeq(data, a + 1, a + amount) = Bytes(val, first + a, amount)
    <3>1. /\ data \in Seq(Int) /\ Len(data) = n
          /\ \A j \in 1 .. n : data[j] = val[first + j - 1]
      <4>1. first \in Int
        OBVIOUS
      <4>2. QED
        BY <4>1, BytesAre DEF data
    <3>2. a + 1 \in Int /\ a + amount \in Int /\ a + amount <= n /\ a \in Nat
      BY <1>2, <2>1
    <3>3. \A j \in a + 1 .. a + amount : data[j] \in Int
      BY <3>1, <3>2
    <3> DEFINE t == SubSeq(data, a + 1, a + amount)
    <3>4. /\ t \in Seq(Int)
          /\ Len(t) = IF a + 1 <= a + amount THEN (a + amount) - (a + 1) + 1 ELSE 0
          /\ \A j \in 1 .. (a + amount) - (a + 1) + 1 : t[j] = data[(a + 1) + j - 1]
      BY <3>1, <3>2, <3>3, SubSeqProperties
    <3> HIDE DEF t
    <3>5. Len(t) = amount
      BY <2>1, <3>2, <3>4
    <3>6. ASSUME NEW j \in 1 .. Len(t) PROVE t[j] = val[first + a + j - 1]
      <4>1. j \in 1 .. (a + amount) - (a + 1) + 1 /\ (a + 1) + j - 1 = a + j
            /\ a + j \in 1 .. n
        BY <2>1, <3>2, <3>5
      <4>2. t[j] = data[a + j]
        BY <3>4, <4>1
      <4>3. data[a + j] = val[first + (a + j) - 1]
        BY <3>1, <4>1
      <4>4. QED
        BY <3>2, <4>2, <4>3
    <3>7. first + a \in Int
      BY <3>2
    <3>8. t = Bytes(val, first + a, Len(t))
      BY <3>4, <3>6, <3>7, AreBytes
    <3>9. QED
      BY <3>5, <3>8 DEF t
  <2>3. Fwrite(d[k], first + a - begin, Bytes(val, first + a, amount)) = FileAfter(val, m, d, first, n, k)
    <3>1. CASE a < b
      BY <1>8, <2>1, <3>1
    <3>2. CASE ~(a < b)
      <4>1. amount = 0 /\ first + a \in Int
        BY <1>2, <2>1, <3>2
      <4>2. Bytes(val, first + a, amount) = <<>>
        <5>1. Bytes(val, first + a, 0) \in Seq(Int) /\ Len(Bytes(val, first + a, 0)) = 0
          BY <4>1, BytesAre
        <5>2. QED
          BY <4>1, <5>1, EmptySeq
      <4>3. QED
        BY <1>8, <3>2, <4>2 DEF Fwrite
    <3>3. QED
      BY <3>1, <3>2
  <2>4. [before EXCEPT ![k] = Fwrite(@, first + a - begin, SubSeq(data, a + 1, a + amount))] = after
    BY <1>7, <2>2, <2>3
  <2>5. a + amount = b /\ first + a + amount = first + b /\ n - a - amount = n - b
    BY <1>2, <2>1
  <2>6. WriteFile(m, data, k, w) = [disk |-> after, off |-> b, pos |-> first + b, length |-> n - b]
    BY <1>9, <1>12, <2>4, <2>5
  <2>7. QED
    BY <1>5, <1>10, <2>6 DEF w, data
<1>13. QED
  BY <1>11, <1>12

\* What process_write comes to: each file gets its part.
LEMMA WrittenIs ==
  ASSUME NEW val \in Contents,
         NEW m, WellFormed(m), NEW d, IsDisk(m, d), NEW first \in Nat, NEW n \in Nat
  PROVE  Written(m, d, first, Bytes(val, first, n))[Len(m.files)].disk
             = [f \in DOMAIN m.files |-> FileAfter(val, m, d, first, n, f)]
<1> DEFINE F == Len(m.files)
           data == Bytes(val, first, n)
           turn == [f \in DOMAIN m.files |-> [w \in Progress(m) |-> WriteFile(m, data, f, w)]]
           start == [disk |-> d, off |-> 0, pos |-> first, length |-> Len(data)]
           R == [k \in 0 .. F |-> Reached(val, m, d, first, n, k)]
<1>1. F \in Nat /\ DOMAIN m.files = 1 .. F
  BY FileLies
<1>2. R[0] = start
  <2>1. Covered(m, 0, first, n) = 0
    <3>1. EndOf(m, 0) = 0
      BY FileLies
    <3>2. QED
      BY <3>1 DEF Covered, Smaller, Larger
  <2>2. Len(data) = n
    BY BytesAre
  <2>3. DiskAfter(val, m, d, first, n, 0) = d
    <3>1. \A f \in DOMAIN m.files : ~(f <= 0)
      BY <1>1
    <3>2. DiskAfter(val, m, d, first, n, 0) = [f \in DOMAIN m.files |-> d[f]]
      BY <3>1 DEF DiskAfter
    <3>3. QED
      BY <3>2 DEF IsDisk
  <2>4. R[0] = [disk |-> d, off |-> 0, pos |-> first + 0, length |-> n - 0]
    BY <1>1, <2>1, <2>3 DEF Reached
  <2> HIDE DEF R, data
  <2>5. QED
    BY <2>2, <2>4
<1>3. ASSUME NEW k \in 1 .. F PROVE turn[k][R[k - 1]] = R[k]
  <2>1. k - 1 \in 0 .. F /\ k \in 0 .. F
    BY <1>1
  <2>2. R[k - 1] = Reached(val, m, d, first, n, k - 1) /\ R[k] = Reached(val, m, d, first, n, k)
    BY <2>1
  <2>3. R[k - 1] \in Progress(m) /\ WriteFile(m, data, k, R[k - 1]) = R[k]
    BY <2>2, WriteTurn
  <2>4. \A w \in Progress(m) : turn[k][w] = WriteFile(m, data, k, w)
    BY <1>1
  <2> HIDE DEF R, turn, data
  <2>5. QED
    BY <2>3, <2>4
<1>4. R \in [0 .. F -> {Reached(val, m, d, first, n, k) : k \in 0 .. F}]
  OBVIOUS
<1>5. Written(m, d, first, data) = Loop(turn, start, F)
  BY DEF Written
<1>6. Written(m, d, first, data) = R
  <2> HIDE DEF R, turn, start, F, data
  <2>1. LoopGives(turn, start, F, R)
    BY <1>1, <1>2, <1>3, <1>4, LoopIs
  <2>2. QED
    BY <1>5, <2>1 DEF LoopGives
<1>7. R[F].disk = DiskAfter(val, m, d, first, n, F)
  BY <1>1 DEF Reached
<1>8. DiskAfter(val, m, d, first, n, F) = [f \in DOMAIN m.files |-> FileAfter(val, m, d, first, n, f)]
  <2>1. \A f \in DOMAIN m.files : f <= F
    BY <1>1
  <2>2. QED
    BY <2>1 DEF DiskAfter
<1>9. QED
  <2> HIDE DEF R
  <2>1. QED
    BY <1>6, <1>7, <1>8

\* After it the files have what was written, and what they had of the rest.
LEMMA WriteStores ==
  ASSUME NEW val \in Contents,
         NEW m, WellFormed(m), NEW d, IsDisk(m, d), NEW first \in Nat, NEW n \in Nat,
         NEW e, e = Written(m, d, first, Bytes(val, first, n))[Len(m.files)].disk
  PROVE  /\ IsDisk(m, e) /\ There(val, m, e, first, n)
         /\ \A f \in DOMAIN m.files : Len(d[f]) <= Len(e[f])
         /\ \A was \in Contents, p \in Nat, q \in Nat :
                (p + q <= first \/ first + n <= p) /\ There(was, m, d, p, q) => There(was, m, e, p, q)
<1> DEFINE F == Len(m.files)
<1>1. F \in Nat /\ DOMAIN m.files = 1 .. F
  BY FileLies
<1>2. e = [f \in 1 .. F |-> FileAfter(val, m, d, first, n, f)]
  <2>1. Written(m, d, first, Bytes(val, first, n))[Len(m.files)].disk
            = [f \in DOMAIN m.files |-> FileAfter(val, m, d, first, n, f)]
    BY WrittenIs
  <2>2. QED
    BY <1>1, <2>1, Zenon
<1>3. \A f \in 1 .. F : e[f] = FileAfter(val, m, d, first, n, f)
  BY <1>2
<1> DEFINE is(f) == FileAfter(val, m, d, first, n, f)
           begin(f) == EndOf(m, f - 1)
<1>4. ASSUME NEW f \in 1 .. F
      PROVE  /\ e[f] \in Seq(Int) /\ Len(e[f]) <= m.files[f].length /\ Len(d[f]) <= Len(e[f])
             /\ RightIn(val, m, e, f, first, n)
  <2>1. is(f) \in Seq(Int) /\ Len(is(f)) <= m.files[f].length /\ Len(d[f]) <= Len(is(f))
    BY FileAfterGives
  <2>2. Has(val, m, is(f), f, first, n)
    BY FileAfterGives
  <2>3. e[f] = is(f)
    BY <1>3
  <2> HIDE DEF is
  <2>4. RightIn(val, m, e, f, first, n)
    BY <2>2, <2>3 DEF RightIn
  <2>5. QED
    BY <2>1, <2>3, <2>4
<1>5. ASSUME NEW f \in 1 .. F, NEW o \in Nat, ~(first <= o /\ o < first + n),
             o - EndOf(m, f - 1) + 1 \in 1 .. Len(d[f])
      PROVE  e[f][o - EndOf(m, f - 1) + 1] = d[f][o - EndOf(m, f - 1) + 1]
  <2>1. \A i \in Nat :
            ~(first <= i /\ i < first + n) /\ i - begin(f) + 1 \in 1 .. Len(d[f])
            => is(f)[i - begin(f) + 1] = d[f][i - begin(f) + 1]
    BY FileAfterGives
  <2>2. e[f] = is(f)
    BY <1>3
  <2> HIDE DEF is
  <2>3. QED
    BY <1>5, <2>1, <2>2
<1> HIDE DEF is
<1>6. IsDisk(m, e)
  BY <1>1, <1>2, <1>3, <1>4 DEF IsDisk
<1>7. ASSUME NEW was \in Contents, NEW p \in Nat, NEW q \in Nat, p + q <= first \/ first + n <= p,
             NEW f \in 1 .. F, RightIn(was, m, d, f, p, q)
      PROVE  RightIn(was, m, e, f, p, q)
  <2>1. ASSUME NEW o \in Nat, p <= o, o < p + q, EndOf(m, f - 1) <= o, o < EndOf(m, f)
        PROVE  /\ o - EndOf(m, f - 1) + 1 \in 1 .. Len(e[f])
               /\ e[f][o - EndOf(m, f - 1) + 1] = was[o]
    <3>1. /\ o - EndOf(m, f - 1) + 1 \in 1 .. Len(d[f])
          /\ d[f][o - EndOf(m, f - 1) + 1] = was[o]
      BY <1>7, <2>1 DEF RightIn, Has
    <3>2. ~(first <= o /\ o < first + n)
      BY <1>7, <2>1
    <3>3. Len(d[f]) \in Nat /\ Len(e[f]) \in Nat
      <4>1. d[f] \in Seq(Int) /\ e[f] \in Seq(Int)
        BY <1>1, <1>4 DEF IsDisk
      <4>2. QED
        BY <4>1, LenProperties
    <3>4. Len(d[f]) <= Len(e[f])
      BY <1>4
    <3>5. e[f][o - EndOf(m, f - 1) + 1] = was[o]
      BY <1>5, <3>1, <3>2
    <3>6. o - EndOf(m, f - 1) + 1 \in 1 .. Len(e[f])
      BY <3>1, <3>3, <3>4, SMTT(30)
    <3>7. QED
      BY <3>5, <3>6
  <2>2. QED
    BY <2>1 DEF RightIn, Has
<1>8. QED
  BY <1>1, <1>4, <1>6, <1>7 DEF There
------------------------------------------------------------------------------
(* What the scan finds *)

\* A byte is in one file only.
LEMMA OneFile ==
  ASSUME NEW m, WellFormed(m), NEW f \in 1 .. Len(m.files), NEW k \in 1 .. Len(m.files),
         NEW o \in Nat, EndOf(m, f - 1) <= o, o < EndOf(m, f),
         EndOf(m, k - 1) <= o, o < EndOf(m, k)
  PROVE  f = k
<1>1. Len(m.files) \in Nat /\ \A j \in 0 .. Len(m.files) : EndOf(m, j) \in Nat
  BY FileLies
<1>2. ASSUME NEW a \in 1 .. Len(m.files), NEW b \in 1 .. Len(m.files), a < b,
             o < EndOf(m, a), EndOf(m, b - 1) <= o
      PROVE  FALSE
  <2>1. b - 1 \in 0 .. Len(m.files) /\ a \in 0 .. b - 1 /\ a \in 0 .. Len(m.files)
    BY <1>1, <1>2
  <2>2. EndOf(m, a) <= EndOf(m, b - 1)
    BY <2>1, EndsGrow
  <2>3. EndOf(m, a) \in Nat /\ EndOf(m, b - 1) \in Nat
    BY <1>1, <2>1
  <2>4. o < EndOf(m, a) /\ EndOf(m, b - 1) <= o
    BY <1>2
  <2>5. QED
    BY <2>2, <2>3, <2>4
<1>3. QED
  BY <1>1, <1>2

\* What is read of one file is right exactly when it is there and lies in that file.
LEMMA FreadRight ==
  ASSUME NEW val \in Contents,
         NEW m, WellFormed(m), NEW d, IsDisk(m, d), NEW f \in 1 .. Len(m.files),
         NEW p \in Nat, NEW n \in Nat \ {0}, m.files[f].begin <= p
  PROVE  Fread(d[f], p - m.files[f].begin, n) = Bytes(val, p, n)
         <=> There(val, m, d, p, n) /\ p + n <= End(m.files[f])
<1> DEFINE data == d[f]
           begin == EndOf(m, f - 1)
           end == EndOf(m, f)
           got == Fread(data, p - begin, n)
<1>1. /\ begin \in Nat /\ end \in Nat /\ m.files[f].begin = begin /\ End(m.files[f]) = end
      /\ data \in Seq(Int) /\ Len(data) \in Nat /\ Len(data) <= end - begin /\ begin <= p
  <2>1. f - 1 \in 0 .. Len(m.files) /\ f \in 0 .. Len(m.files)
        /\ DOMAIN m.files = 1 .. Len(m.files)
    BY FileLies
  <2>2. data \in Seq(Int) /\ Len(data) <= m.files[f].length
    BY <2>1 DEF IsDisk
  <2>3. Len(data) \in Nat
    BY <2>2, LenProperties
  <2>4. begin \in Nat /\ end \in Nat /\ m.files[f].begin = begin /\ End(m.files[f]) = end
        /\ end = begin + m.files[f].length /\ m.files[f].length \in Nat
    BY <2>1, FileLies
  <2>5. QED
    BY <2>2, <2>3, <2>4
<1> HIDE DEF data, begin, end
<1>2. p - begin \in Nat /\ n \in Int /\ n \in Nat /\ p \in Int
  BY <1>1
<1>3. /\ got \in Seq(Int)
      /\ Len(got) = Larger(Smaller(n, Len(data) - (p - begin)), 0)
      /\ \A j \in 1 .. Len(got) :
             (p - begin) + j \in 1 .. Len(data) /\ got[j] = data[(p - begin) + j]
  BY <1>1, <1>2, FreadGives
<1>4. /\ Len(Bytes(val, p, n)) = n /\ \A j \in 1 .. n : Bytes(val, p, n)[j] = val[p + j - 1]
  BY <1>2, BytesAre
<1> HIDE DEF got
<1>5. ASSUME got = Bytes(val, p, n) PROVE There(val, m, d, p, n) /\ p + n <= end
  <2>1. ASSUME NEW o \in Nat, p <= o, o < p + n
        PROVE  o - begin + 1 \in 1 .. Len(data) /\ data[o - begin + 1] = val[o]
    <3> DEFINE j == o - p + 1
    <3>1. j \in 1 .. n /\ (p - begin) + j = o - begin + 1 /\ p + j - 1 = o
      BY <1>1, <2>1
    <3> HIDE DEF j
    <3>2. (p - begin) + j \in 1 .. Len(data) /\ got[j] = data[(p - begin) + j] /\ got[j] = val[p + j - 1]
      BY <1>3, <1>4, <1>5, <3>1
    <3>3. QED
      BY <3>1, <3>2
  <2>2. p + n <= end
    <3>1. p + n - 1 \in Nat /\ p <= p + n - 1 /\ p + n - 1 < p + n
      OBVIOUS
    <3>2. (p + n - 1) - begin + 1 \in 1 .. Len(data)
      BY <2>1, <3>1
    <3>3. QED
      BY <1>1, <3>2
  <2>3. ASSUME NEW k \in 1 .. Len(m.files), NEW o \in Nat, p <= o, o < p + n,
               EndOf(m, k - 1) <= o, o < EndOf(m, k)
        PROVE  o - EndOf(m, k - 1) + 1 \in 1 .. Len(d[k]) /\ d[k][o - EndOf(m, k - 1) + 1] = val[o]
    <3>1. EndOf(m, f - 1) <= o /\ o < EndOf(m, f)
      BY <1>1, <2>2, <2>3 DEF begin, end
    <3>2. f = k
      BY <2>3, <3>1, OneFile
    <3>3. QED
      BY <2>1, <2>3, <3>2 DEF data, begin
  <2>4. There(val, m, d, p, n)
    BY <2>3 DEF There, RightIn, Has
  <2>5. QED
    BY <2>2, <2>4
<1>6. ASSUME There(val, m, d, p, n), p + n <= end PROVE got = Bytes(val, p, n)
  <2>1. ASSUME NEW o \in Nat, p <= o, o < p + n
        PROVE  o - begin + 1 \in 1 .. Len(data) /\ data[o - begin + 1] = val[o]
    <3>1. begin <= o /\ o < end
      BY <1>1, <1>6, <2>1
    <3>2. QED
      BY <1>6, <2>1, <3>1 DEF There, RightIn, Has, data, begin, end
  <2>2. Len(got) = n
    <3>1. p + n - 1 \in Nat /\ p <= p + n - 1 /\ p + n - 1 < p + n
      OBVIOUS
    <3>2. (p + n - 1) - begin + 1 \in 1 .. Len(data)
      BY <2>1, <3>1
    <3>3. n <= Len(data) - (p - begin)
      BY <1>1, <3>2
    <3>4. Smaller(n, Len(data) - (p - begin)) = n
      BY <1>1, <3>3, SMTT(30) DEF Smaller
    <3>5. QED
      BY <1>3, <3>4 DEF Larger
  <2>3. ASSUME NEW j \in 1 .. Len(got) PROVE got[j] = val[p + j - 1]
    <3> DEFINE o == p + j - 1
    <3>1. o \in Nat /\ p <= o /\ o < p + n /\ o - begin + 1 = (p - begin) + j
      BY <1>1, <2>2
    <3> HIDE DEF o
    <3>2. data[o - begin + 1] = val[o]
      BY <2>1, <3>1
    <3>3. got[j] = data[(p - begin) + j]
      BY <1>3
    <3>4. QED
      BY <3>1, <3>2, <3>3 DEF o
  <2>4. QED
    BY <1>2, <1>3, <2>2, <2>3, AreBytes
<1>7. QED
  BY <1>1, <1>5, <1>6 DEF got, data

\* The piece a file begins in.
LEMMA FirstPieceLies ==
  ASSUME NEW m, WellFormed(m), NEW f \in 1 .. Len(m.files)
  PROVE  /\ FirstPiece(m, f) \in Nat
         /\ FirstPiece(m, f) * m.pieceLength \in Nat
         /\ FirstPiece(m, f) * m.pieceLength <= m.files[f].begin
         /\ m.files[f].begin < FirstPiece(m, f) * m.pieceLength + m.pieceLength
<1>1. m.files[f].begin \in Nat /\ m.pieceLength \in Nat \ {0}
  BY DEF WellFormed
<1> DEFINE t == m.files[f].begin
           P == m.pieceLength
           q == t \div P
           r == t % P
<1>2. q \in Nat /\ r \in 0 .. P - 1 /\ q * P + r = t
  BY <1>1, Division
<1>3. FirstPiece(m, f) = q
  BY DEF FirstPiece
<1> HIDE DEF t, P, q, r
<1>4. q * P \in Nat
  BY <1>1, <1>2 DEF P
<1>5. q * P <= t /\ t < q * P + P
  <2> DEFINE x == q * P
  <2>1. x \in Nat /\ x + r = t /\ r \in 0 .. P - 1 /\ P \in Nat \ {0}
    BY <1>1, <1>2, <1>4 DEF P
  <2> HIDE DEF x
  <2>2. x <= t /\ t < x + P
    BY <2>1
  <2>3. QED
    BY <2>2 DEF x
<1>6. QED
  BY <1>2, <1>3, <1>4, <1>5 DEF t, P

\* A piece from there on begins in the file or after, unless it is that one.
LEMMA BeginsInFile ==
  ASSUME NEW m, WellFormed(m), NEW f \in 1 .. Len(m.files), NEW i \in Nat,
         FirstPiece(m, f) <= i, ~(Split(m, f) /\ i = FirstPiece(m, f))
  PROVE  m.files[f].begin <= PieceBegin(m, i) /\ PieceBegin(m, i) \in Nat
<1> DEFINE q == FirstPiece(m, f)
           P == m.pieceLength
           t == m.files[f].begin
<1>1. /\ q \in Nat /\ q * P \in Nat /\ q * P <= t /\ t < q * P + P
  BY FirstPieceLies
<1>2. t \in Nat /\ P \in Nat \ {0}
  BY DEF WellFormed
<1>3. Split(m, f) <=> q * P < t
  BY DEF Split, PieceBegin
<1>4. i * P \in Nat
  BY <1>2
<1> HIDE DEF q, P, t
<1>5. CASE i = q
  BY <1>1, <1>2, <1>3, <1>4, <1>5 DEF q, t, P, PieceBegin
<1>6. CASE i # q
  <2>1. q < i
    BY <1>1, <1>6 DEF q
  <2>2. q * P + P <= i * P
    BY <1>1, <1>2, <2>1, Steps
  <2>3. QED
    BY <1>1, <1>2, <1>4, <2>2, SMTT(30) DEF t, P, PieceBegin
<1>7. QED
  BY <1>5, <1>6

\* The bytes of a sequence, from `first' on, as what belongs in the torrent.
ContentOf(b, first) ==
    [o \in Int |-> IF o - first + 1 \in 1 .. Len(b) THEN b[o - first + 1] ELSE Hole]

LEMMA ContentHas ==
  ASSUME NEW b \in Seq(Int), NEW first \in Int
  PROVE  /\ ContentOf(b, first) \in Contents
         /\ Bytes(ContentOf(b, first), first, Len(b)) = b
         /\ \A n \in 0 .. Len(b) : Bytes(ContentOf(b, first), first, n) = SubSeq(b, 1, n)
<1> DEFINE v == ContentOf(b, first)
<1>1. Len(b) \in Nat /\ \A k \in 1 .. Len(b) : b[k] \in Int
  BY LenProperties, ElementOfSeq
<1>2. v \in Contents
  <2>1. \A o \in Int : (IF o - first + 1 \in 1 .. Len(b) THEN b[o - first + 1] ELSE Hole) \in Int
    BY <1>1 DEF Hole
  <2>2. QED
    BY <2>1 DEF Contents, ContentOf
<1>3. ASSUME NEW k \in 1 .. Len(b) PROVE v[first + k - 1] = b[k]
  <2>1. first + k - 1 \in Int /\ (first + k - 1) - first + 1 = k
    BY <1>1
  <2>2. QED
    BY <2>1 DEF ContentOf
<1> HIDE DEF v
<1>4. b = Bytes(v, first, Len(b))
  BY <1>2, <1>3, AreBytes
<1>5. ASSUME NEW n \in 0 .. Len(b) PROVE Bytes(v, first, n) = SubSeq(b, 1, n)
  <2> DEFINE t == SubSeq(b, 1, n)
  <2>1. \A k \in 1 .. n : b[k] \in Int
    BY <1>1
  <2>2. /\ t \in Seq(Int) /\ Len(t) = IF 1 <= n THEN n - 1 + 1 ELSE 0
        /\ \A k \in 1 .. n - 1 + 1 : t[k] = b[1 + k - 1]
    <3>1. 1 \in Int /\ n \in Int
      BY <1>1
    <3>2. QED
      BY <2>1, <3>1, SubSeqProperties
  <2> HIDE DEF t
  <2>3. Len(t) = n
    BY <1>1, <2>2
  <2>4. ASSUME NEW k \in 1 .. Len(t) PROVE t[k] = v[first + k - 1]
    <3>1. k \in 1 .. n - 1 + 1 /\ 1 + k - 1 = k /\ k \in 1 .. Len(b)
      BY <1>1, <2>3
    <3>2. QED
      BY <1>3, <2>2, <3>1
  <2>5. t = Bytes(v, first, Len(t))
    BY <1>2, <2>2, <2>4, AreBytes
  <2>6. QED
    BY <2>3, <2>5 DEF t
<1>6. QED
  BY <1>2, <1>4, <1>5 DEF v

\* What is read over the beginning of a buffer and what stays behind it.
LEMMA ReadOver ==
  ASSUME NEW first \in Seq(Int), NEW got \in Seq(Int), NEW n \in Nat,
         Len(got) <= n, n <= Len(first)
  PROVE  LET b == SubSeq(Fwrite(first, 0, got), 1, n)
         IN  /\ b \in Seq(Int) /\ Len(b) = n
             /\ SubSeq(b, 1, Len(got)) = got
             /\ Len(got) = n => b = got
<1> DEFINE p == 0
           w == Fwrite(first, p, got)
           b == SubSeq(w, 1, n)
           g == Len(got)
<1>1. g \in Nat /\ Len(first) \in Nat
  BY LenProperties
<1>2. /\ w \in Seq(Int)
      /\ Len(w) = IF got = <<>> THEN Len(first) ELSE Larger(Len(first), p + Len(got))
      /\ \A k \in 1 .. Len(w) :
             w[k] = IF k - p \in 1 .. Len(got) THEN got[k - p]
                    ELSE IF k \in 1 .. Len(first) THEN first[k] ELSE Hole
  <2>1. p \in Nat
    OBVIOUS
  <2> HIDE DEF p
  <2>2. QED
    BY <2>1, FwriteGives
<1> HIDE DEF w
<1>3. Len(w) = Len(first)
  BY <1>1, <1>2 DEF Larger
<1>4. \A k \in 1 .. g : w[k] = got[k]
  <2>1. ASSUME NEW k \in 1 .. g PROVE w[k] = got[k]
    <3>1. k \in 1 .. Len(w) /\ k - p = k
      BY <1>1, <1>3
    <3>2. QED
      BY <1>2, <3>1
  <2>2. QED
    BY <2>1
<1>5. \A k \in 1 .. n : w[k] \in Int
  BY <1>1, <1>2, <1>3, ElementOfSeq
<1>6. /\ b \in Seq(Int) /\ Len(b) = IF 1 <= n THEN n - 1 + 1 ELSE 0
      /\ \A k \in 1 .. n - 1 + 1 : b[k] = w[1 + k - 1]
  <2>1. 1 \in Int /\ n \in Int
    OBVIOUS
  <2>2. QED
    BY <1>2, <1>5, <2>1, SubSeqProperties
<1> HIDE DEF b
<1>7. Len(b) = n
  BY <1>6
<1>8. \A k \in 1 .. g : b[k] = got[k]
  <2>1. ASSUME NEW k \in 1 .. g PROVE b[k] = got[k]
    <3>1. k \in 1 .. n - 1 + 1 /\ 1 + k - 1 = k
      BY <1>1
    <3>2. QED
      BY <1>4, <1>6, <3>1
  <2>2. QED
    BY <2>1
<1>9. SubSeq(b, 1, g) = got
  <2> DEFINE t == SubSeq(b, 1, g)
  <2>1. \A k \in 1 .. g : b[k] \in Int
    BY <1>1, <1>6, <1>7, ElementOfSeq
  <2>2. /\ t \in Seq(Int) /\ Len(t) = IF 1 <= g THEN g - 1 + 1 ELSE 0
        /\ \A k \in 1 .. g - 1 + 1 : t[k] = b[1 + k - 1]
    <3>1. 1 \in Int /\ g \in Int
      BY <1>1
    <3>2. QED
      BY <1>6, <2>1, <3>1, SubSeqProperties
  <2> HIDE DEF t
  <2>3. Len(t) = g
    BY <1>1, <2>2
  <2>4. ASSUME NEW k \in 1 .. g PROVE t[k] = got[k]
    <3>1. k \in 1 .. g - 1 + 1 /\ 1 + k - 1 = k
      BY <1>1
    <3>2. QED
      BY <1>8, <2>2, <3>1
  <2>5. t = got
    BY <2>2, <2>3, <2>4, SeqEqual
  <2>6. QED
    BY <2>5 DEF t
<1>10. g = n => b = got
  BY <1>6, <1>7, <1>8, SeqEqual
<1>11. QED
  BY <1>6, <1>7, <1>9, <1>10 DEF b, w, p

\* A scan looks at no more of a piece than there is.
LEMMA LookedLies ==
  ASSUME NEW m, WellFormed(m), NEW i \in 0 .. m.numPieces - 1, NEW n \in Looked(m, i)
  PROVE  n \in 0 .. PieceLength(m, i)
<1>1. /\ PieceLength(m, i) \in Nat /\ PieceBegin(m, i) \in Nat
      /\ PieceEnd(m, i) = PieceBegin(m, i) + PieceLength(m, i)
  BY PieceLies
<1>2. CASE n = PieceLength(m, i)
  BY <1>1, <1>2
<1>3. CASE n # PieceLength(m, i)
  <2>1. PICK f \in DOMAIN m.files :
               /\ n = End(m.files[f]) - PieceBegin(m, i)
               /\ PieceBegin(m, i) <= End(m.files[f]) /\ End(m.files[f]) < PieceEnd(m, i)
    BY <1>3 DEF Looked
  <2>2. End(m.files[f]) \in Nat
    <3>1. f \in 1 .. Len(m.files) /\ f \in 0 .. Len(m.files)
      BY FileLies
    <3>2. QED
      BY <3>1, FileLies
  <2>3. QED
    BY <1>1, <2>1, <2>2
<1>4. QED
  BY <1>2, <1>3

\* What the scan finds is a piece, and what matches it is there as far as it looks.
LEMMA ScanIsSound ==
  ASSUME NEW m \in Torrents, NEW d, IsDisk(m, d), NEW i \in ScanPieces(m, d)
  PROVE  /\ i \in 0 .. m.numPieces - 1
         /\ \E b \in Matching(m, i), n \in Looked(m, i) :
                There(ContentOf(b, PieceBegin(m, i)), m, d, PieceBegin(m, i), n)
<1> DEFINE N == m.numPieces
           P == m.pieceLength
<1>0. WellFormed(m)
  BY StorageAssumption
<1>1. PICK f \in DOMAIN m.files : i \in ScanFile(m, d, f)
  BY DEF ScanPieces
<1>2. f \in 1 .. Len(m.files)
  BY <1>0, FileLies
<1> DEFINE q == FirstPiece(m, f)
           begin == m.files[f].begin
           end == End(m.files[f])
<1>3. /\ ~NotScanned(m, d, f) /\ i \in LookedAt(m, f)
      /\ ScanBuffer(m, d, f, i) \in Matching(m, i)
  BY <1>1 DEF ScanFile
<1>4. /\ N \in Nat \ {0} /\ P \in Nat \ {0} /\ m.totalSize \in Nat /\ m.totalSize <= N * P
      /\ N * P \in Nat
  <2>1. N \in Nat \ {0} /\ P \in Nat \ {0} /\ m.totalSize <= N * P
    BY <1>0 DEF WellFormed
  <2>2. m.totalSize \in Nat
    <3>1. /\ Len(m.files) \in Nat \ {0} /\ EndOf(m, Len(m.files)) = m.totalSize
          /\ \A k \in 0 .. Len(m.files) : EndOf(m, k) \in Nat
      BY <1>0, FileLies
    <3>2. QED
      BY <3>1
  <2> HIDE DEF N, P
  <2>3. N * P \in Nat
    BY <2>1
  <2>4. QED
    BY <2>1, <2>2, <2>3
<1>5. q \in Nat /\ q * P \in Nat /\ q * P <= begin /\ begin < q * P + P
  BY <1>0, <1>2, FirstPieceLies
<1>6. begin \in Nat /\ end \in Nat /\ begin <= end /\ end <= m.totalSize
  <2>1. /\ f \in 0 .. Len(m.files) /\ Len(m.files) \in 0 .. Len(m.files)
        /\ f \in 0 .. Len(m.files) /\ f - 1 \in 0 .. Len(m.files)
    BY <1>2
  <2>2. EndOf(m, f) <= EndOf(m, Len(m.files)) /\ EndOf(m, Len(m.files)) = m.totalSize
    BY <1>0, <2>1, FileLies, EndsGrow
  <2>3. /\ m.files[f].begin = EndOf(m, f - 1) /\ End(m.files[f]) = EndOf(m, f)
        /\ m.files[f].length \in Nat /\ EndOf(m, f) = EndOf(m, f - 1) + m.files[f].length
        /\ EndOf(m, f - 1) \in Nat
    BY <1>0, <1>2, <2>1, FileLies
  <2>4. QED
    BY <2>2, <2>3
<1>7. q \in 0 .. N - 1
  <2>1. CASE Split(m, f)
    <3>1. q * P < begin
      BY <2>1 DEF Split, PieceBegin
    <3>2. N <= q => N * P <= q * P
      <4>1. N < q => N * P + P <= q * P
        BY <1>4, <1>5, Steps
      <4>2. N = q => N * P = q * P
        OBVIOUS
      <4> HIDE DEF N, P, q
      <4>3. N <= q => N < q \/ N = q
        BY <1>4, <1>5
      <4>4. QED
        BY <1>4, <1>5, <4>1, <4>2, <4>3
    <3> HIDE DEF N, P, q, begin, end
    <3>3. QED
      BY <1>4, <1>5, <1>6, <3>1, <3>2
  <2>2. CASE ~Split(m, f)
    <3>1. PieceEnd(m, q) <= end
      <4>1. ~(PieceEnd(m, q) > end)
        BY <1>3 DEF NotScanned
      <4>2. PieceEnd(m, q) \in Int
        <5>1. PieceLength(m, q) \in Int
          <6>1. m.totalSize % P \in Int
            <7>1. m.totalSize \in Int /\ P \in Nat \ {0}
              BY <1>4
            <7> HIDE DEF P
            <7>2. QED
              BY <7>1
          <6>2. QED
            BY <1>4, <6>1 DEF PieceLength
        <5>2. QED
          BY <1>5, <5>1 DEF PieceEnd, PieceBegin
      <4>3. QED
        BY <1>6, <4>1, <4>2
    <3>2. q >= N => PieceEnd(m, q) = q * P + P
      <4>1. q >= N => ~(q = N - 1)
        BY <1>4, <1>5
      <4>2. QED
        BY <4>1 DEF PieceEnd, PieceBegin, PieceLength
    <3>3. N <= q => N * P <= q * P
      <4>1. N < q => N * P + P <= q * P
        BY <1>4, <1>5, Steps
      <4>2. N = q => N * P = q * P
        OBVIOUS
      <4> HIDE DEF N, P, q
      <4>3. N <= q => N < q \/ N = q
        BY <1>4, <1>5
      <4>4. QED
        BY <1>4, <1>5, <4>1, <4>2, <4>3
    <3> HIDE DEF N, P, q, begin, end
    <3>4. QED
      BY <1>4, <1>5, <1>6, <3>1, <3>2, <3>3
  <2>3. QED
    BY <2>1, <2>2
<1>8. /\ i \in 0 .. N - 1 /\ q <= i
  <2> DEFINE start == IF Split(m, f) THEN q + 1 ELSE q
             last == N - 1
  <2>1. i = q \/ i \in start .. last - 1 \/ (i = last /\ i = start)
    BY <1>3 DEF LookedAt
  <2>2. start \in Nat /\ q <= start
    BY <1>5
  <2> HIDE DEF start, N, q
  <2>3. QED
    BY <1>4, <1>5, <1>7, <2>1, <2>2
<1>9. /\ PieceBegin(m, i) \in Nat /\ PieceLength(m, i) \in Nat \ {0}
      /\ PieceBegin(m, i) + PieceLength(m, i) <= m.totalSize /\ i \in Nat
  <2>1. /\ PieceBegin(m, i) \in Nat /\ PieceLength(m, i) \in 1 .. m.pieceLength
        /\ PieceEnd(m, i) = PieceBegin(m, i) + PieceLength(m, i) /\ PieceEnd(m, i) <= m.totalSize
        /\ i \in Nat
    BY <1>0, <1>8, PieceLies
  <2>2. QED
    BY <1>4, <2>1
<1> DEFINE L == PieceLength(m, i)
           p == PieceBegin(m, i)
           b == ScanBuffer(m, d, f, i)
           v == ContentOf(b, p)
           got == Fread(d[f], p - begin, L)
<1>10. /\ b \in Matching(m, i) /\ b \in Seq(Int) /\ Len(b) = L
       /\ v \in Contents /\ Bytes(v, p, L) = b
       /\ \A n \in 0 .. L : Bytes(v, p, n) = SubSeq(b, 1, n)
  <2>1. b \in Matching(m, i) /\ b \in Seq(Int) /\ Len(b) = L
    BY <1>3, <1>8, StorageAssumption
  <2>2. p \in Int
    BY <1>9
  <2> HIDE DEF b, L, p
  <2>3. /\ v \in Contents /\ Bytes(v, p, Len(b)) = b
        /\ \A n \in 0 .. Len(b) : Bytes(v, p, n) = SubSeq(b, 1, n)
    BY <2>1, <2>2, ContentHas
  <2>4. QED
    BY <2>1, <2>3
<1>11. L \in Looked(m, i)
  BY DEF Looked
<1>12. CASE Split(m, f) /\ i = q
  <2>1. Gathered(m, d, p, L)[Len(m.files)] = Bytes(v, p, L)
    <3>1. Stored(m, d, i) = b
      BY <1>12 DEF ScanBuffer
    <3>2. QED
      BY <1>10, <3>1 DEF Stored, Held
  <2>2. p \in Nat /\ L \in Nat /\ p + L <= m.totalSize
    BY <1>9
  <2> HIDE DEF p, L, v, b
  <2>3. There(v, m, d, p, L)
    BY <1>0, <1>10, <2>1, <2>2, GatheredRight
  <2>4. QED
    BY <1>8, <1>10, <1>11, <2>3 DEF v, p
<1>13. CASE ~(Split(m, f) /\ i = q)
  <2>1. begin <= p
    BY <1>0, <1>2, <1>8, <1>9, <1>13, BeginsInFile
  <2>2. CASE got = b
    <3>1. p \in Nat /\ L \in Nat \ {0}
      BY <1>9
    <3>2. got = Bytes(v, p, L)
      BY <1>10, <2>2
    <3> HIDE DEF p, L, v, b
    <3>3. There(v, m, d, p, L)
      BY <1>0, <1>2, <1>10, <2>1, <3>1, <3>2, FreadRight
    <3>4. QED
      BY <1>8, <1>10, <1>11, <3>3 DEF v, p
  <2>3. CASE got # b
    <3> DEFINE n == Len(got)
               all == Stored(m, d, q)
    <3>1. Split(m, f) /\ b = SubSeq(Fwrite(all, 0, got), 1, L)
      BY <1>13, <2>3 DEF ScanBuffer
    <3>2. Len(all) = P
      BY <1>3, <3>1 DEF NotScanned
    <3>3. all \in Seq(Int)
      <4>1. /\ PieceBegin(m, q) \in Nat /\ PieceLength(m, q) \in Nat
        BY <1>0, <1>7, PieceLies
      <4>2. Gathered(m, d, PieceBegin(m, q), PieceLength(m, q)) \in [0 .. Len(m.files) -> Seq(Int)]
        BY <1>0, <4>1, GatheredTurns
      <4>3. Len(m.files) \in 0 .. Len(m.files)
        <5>1. Len(m.files) \in Nat
          BY <1>0, FileLies
        <5>2. QED
          BY <5>1
      <4>4. QED
        BY <4>2, <4>3 DEF Stored, Held
    <3>4. /\ got \in Seq(Int) /\ n = Larger(Smaller(L, Len(d[f]) - (p - begin)), 0)
      <4>1. d[f] \in Seq(Int)
        BY <1>1 DEF IsDisk
      <4>2. p - begin \in Nat /\ L \in Int
        BY <1>6, <1>9, <2>1
      <4> HIDE DEF p, L, begin
      <4>3. QED
        BY <4>1, <4>2, FreadGives
    <3>5. Len(d[f]) = end - begin
      <4>1. Len(d[f]) <= m.files[f].length /\ d[f] \in Seq(Int)
        BY <1>1 DEF IsDisk
      <4>2. ~(m.files[f].length > Len(d[f]))
        BY <1>3 DEF NotScanned
      <4>3. Len(d[f]) \in Nat
        BY <4>1, LenProperties
      <4>4. m.files[f].length \in Nat /\ end = begin + m.files[f].length
        BY <1>0, <1>1 DEF WellFormed, End
      <4>5. QED
        BY <1>6, <4>1, <4>2, <4>3, <4>4
    <3>6. n = Larger(Smaller(L, end - p), 0)
      BY <1>6, <1>9, <3>4, <3>5
    <3>7. p + L = PieceEnd(m, i) /\ L \in 1 .. P /\ p \in Nat
      BY <1>0, <1>8, PieceLies
    <3>8. p <= end
      <4>1. CASE i \in q + 1 .. N - 2 /\ PieceBegin(m, i + 1) < end
        <5>1. PieceEnd(m, i) = PieceBegin(m, i + 1) /\ PieceEnd(m, i) \in Nat
          BY <1>0, <1>4, <1>8, <4>1, PieceLies
        <5>2. PieceEnd(m, i) = p + L
          BY <1>0, <1>8, PieceLies
        <5>3. p \in Nat /\ L \in Nat
          BY <1>9
        <5> HIDE DEF p, L, end
        <5>4. QED
          BY <1>6, <4>1, <5>1, <5>2, <5>3
      <4>2. CASE i = q + 1
        <5>1. PieceEnd(m, q) = PieceBegin(m, q + 1) /\ PieceEnd(m, q) \in Nat
          <6>1. q # N - 1
            BY <1>4, <1>8, <4>2
          <6>2. QED
            BY <1>0, <1>7, <6>1, PieceLies
        <5>2. ~(PieceEnd(m, q) > end)
          BY <1>3 DEF NotScanned
        <5>3. p = PieceEnd(m, q)
          BY <4>2, <5>1
        <5>4. QED
          BY <1>6, <5>1, <5>2, <5>3
      <4>3. QED
        <5>1. \/ i = q
              \/ i \in q + 1 .. (N - 1) - 1 /\ PieceBegin(m, i + 1) < end
              \/ i = N - 1 /\ i = q + 1
          BY <1>3, <3>1 DEF LookedAt
        <5>2. i # q
          BY <1>13, <3>1
        <5>3. (N - 1) - 1 = N - 2
          BY <1>4
        <5>4. QED
          BY <4>1, <4>2, <5>1, <5>2, <5>3
    <3>9. n \in 0 .. L /\ (n = L \/ (n = end - p /\ end < p + L))
      <4>1. end \in Nat /\ p \in Nat /\ L \in Nat /\ p <= end
            /\ n = Larger(Smaller(L, end - p), 0)
        BY <1>6, <1>9, <3>6, <3>8
      <4> HIDE DEF p, L, end, n, got
      <4>2. QED
        BY <4>1, SMTT(30) DEF Larger, Smaller
    <3>10. n # L
      <4>1. n <= L /\ L <= Len(all) /\ L \in Nat
        BY <1>4, <3>2, <3>7, <3>9
      <4> HIDE DEF n, L, all, got, b
      <4>2. Len(got) = L => SubSeq(Fwrite(all, 0, got), 1, L) = got
        BY <3>3, <3>4, <4>1, ReadOver DEF n
      <4>3. QED
        BY <2>3, <3>1, <4>2 DEF n
    <3>11. i = N - 1 /\ i = q + 1
      <4>1. CASE i \in q + 1 .. (N - 1) - 1 /\ PieceBegin(m, i + 1) < end
        <5>1. PieceEnd(m, i) = PieceBegin(m, i + 1) /\ PieceEnd(m, i) \in Nat
          BY <1>0, <1>4, <1>8, <4>1, PieceLies
        <5>2. p + L < end /\ p + L \in Nat
          BY <3>7, <4>1, <5>1
        <5> HIDE DEF p, L, end, n
        <5>3. QED
          BY <1>6, <3>9, <3>10, <5>2
      <4>2. QED
        <5>1. \/ i = q
              \/ i \in q + 1 .. (N - 1) - 1 /\ PieceBegin(m, i + 1) < end
              \/ i = N - 1 /\ i = q + 1
          BY <1>3, <3>1 DEF LookedAt
        <5>2. i # q
          BY <1>13, <3>1
        <5>3. QED
          BY <4>1, <5>1, <5>2
    <3>12. n \in Looked(m, i)
      <4>1. n = end - p /\ end < PieceEnd(m, i) /\ p <= end
        BY <3>7, <3>8, <3>9, <3>10
      <4>2. FirstPiece(m, f) + 1 = i /\ f \in DOMAIN m.files
        BY <1>1, <3>11
      <4>3. f \in {g \in DOMAIN m.files :
                      /\ i = m.numPieces - 1
                      /\ Split(m, g) /\ FirstPiece(m, g) + 1 = i
                      /\ PieceBegin(m, i) <= End(m.files[g])
                      /\ End(m.files[g]) < PieceEnd(m, i)}
        BY <3>1, <3>11, <4>1, <4>2
      <4> HIDE DEF n
      <4>4. QED
        BY <4>1, <4>3 DEF Looked
    <3>13. got = Bytes(v, p, n)
      <4>1. n <= L /\ L <= Len(all) /\ L \in Nat
        BY <1>4, <3>2, <3>7, <3>9
      <4> HIDE DEF n, L, all, got, b, v
      <4>2. SubSeq(b, 1, n) = got
        BY <3>1, <3>3, <3>4, <4>1, ReadOver DEF n
      <4>3. QED
        BY <1>10, <3>9, <4>2
    <3>14. There(v, m, d, p, n)
      <4>1. CASE n = 0
        <5>1. \A o \in Nat : ~(p <= o /\ o < p + n)
          BY <1>9, <4>1
        <5> HIDE DEF v, p, n
        <5>2. QED
          BY <5>1 DEF There, RightIn, Has
      <4>2. CASE n # 0
        <5>1. n \in Nat \ {0} /\ p \in Nat /\ n = end - p /\ end < p + L
          BY <3>7, <3>9, <3>10, <4>2
        <5>2. Fread(d[f], p - begin, n) = got
          <6>1. Smaller(p - begin + n, Len(d[f])) = end - begin
            BY <1>6, <3>5, <5>1 DEF Smaller
          <6>2. Smaller(p - begin + L, Len(d[f])) = end - begin
            BY <1>6, <3>5, <3>7, <5>1 DEF Smaller
          <6> HIDE DEF p, n, L, begin, end
          <6>3. QED
            BY <6>1, <6>2 DEF Fread, got
        <5>3. Fread(d[f], p - begin, n) = Bytes(v, p, n)
          BY <3>13, <5>2
        <5> HIDE DEF v, p, n, b
        <5>4. QED
          BY <1>0, <1>2, <1>10, <2>1, <5>1, <5>3, FreadRight
      <4>3. QED
        BY <4>1, <4>2
    <3>15. QED
      <4> HIDE DEF n, b
      <4>1. QED
        BY <1>8, <1>10, <3>12, <3>14 DEF v, p
  <2>4. QED
    BY <2>2, <2>3
<1>14. QED
  BY <1>12, <1>13

\* When no file is short it finds every piece that is there, unless a file ends where
\* the piece does.
LEMMA ScanIsComplete ==
  ASSUME NEW m, WellFormed(m), NEW d, IsDisk(m, d), Whole(m, d),
         NEW i \in 0 .. m.numPieces - 1, Stored(m, d, i) \in Matching(m, i),
         \A f \in DOMAIN m.files : PieceEnd(m, i) # End(m.files[f])
  PROVE  i \in ScanPieces(m, d)
<1> DEFINE N == m.numPieces
           P == m.pieceLength
           o == PieceEnd(m, i) - 1
<1>1. /\ i \in Nat /\ m.totalSize \in Nat /\ P \in Nat \ {0}
      /\ PieceBegin(m, i) \in Nat /\ PieceEnd(m, i) \in Nat
      /\ PieceLength(m, i) \in 1 .. P
      /\ PieceEnd(m, i) = PieceBegin(m, i) + PieceLength(m, i)
      /\ PieceEnd(m, i) <= m.totalSize
      /\ i # N - 1 => PieceLength(m, i) = P /\ PieceEnd(m, i) = PieceBegin(m, i + 1)
      /\ i = N - 1 => PieceEnd(m, i) = m.totalSize
  BY PieceLies
<1>2. o \in Nat /\ o < m.totalSize /\ PieceBegin(m, i) <= o /\ o < PieceBegin(m, i) + P
  BY <1>1
<1>3. PICK f \in 1 .. Len(m.files) : EndOf(m, f - 1) <= o /\ o < EndOf(m, f)
  BY <1>2, ByteIsInAFile
<1> DEFINE q == FirstPiece(m, f)
           begin == m.files[f].begin
           end == End(m.files[f])
<1>4. /\ f \in DOMAIN m.files /\ begin = EndOf(m, f - 1) /\ end = EndOf(m, f)
      /\ begin \in Nat /\ end \in Nat /\ end <= m.totalSize
  <2>1. /\ f \in 0 .. Len(m.files) /\ Len(m.files) \in 0 .. Len(m.files)
        /\ f - 1 \in 0 .. Len(m.files)
    BY <1>3
  <2>2. EndOf(m, f) <= EndOf(m, Len(m.files)) /\ EndOf(m, Len(m.files)) = m.totalSize
    BY <2>1, FileLies, EndsGrow
  <2>3. QED
    BY <2>1, <2>2, FileLies
<1>5. PieceEnd(m, i) < end
  <2>1. PieceEnd(m, i) # end
    BY <1>4
  <2> HIDE DEF begin, end
  <2>2. QED
    BY <1>1, <1>2, <1>3, <1>4, <2>1
<1>6. i # N - 1 /\ N \in Nat \ {0} /\ i < N - 1
  <2>1. i # N - 1
    BY <1>1, <1>4, <1>5
  <2>2. N \in Nat \ {0}
    BY DEF WellFormed
  <2>3. QED
    BY <1>1, <2>1, <2>2
<1>7. /\ q \in Nat /\ q * P \in Nat /\ q * P <= begin /\ begin < q * P + P
  BY FirstPieceLies
<1>8. q <= i
  <2>1. i < q => i * P + P <= q * P
    <3>1. i \in Int /\ q \in Int /\ P \in Nat
      BY <1>1, <1>7
    <3> HIDE DEF q, P
    <3>2. QED
      BY <3>1, Steps
  <2>2. PieceBegin(m, i) = i * P
    BY DEF PieceBegin
  <2> DEFINE x == q * P
             y == i * P
  <2>3. begin <= o /\ o < y + P /\ x <= begin /\ x \in Nat /\ y \in Nat
    BY <1>1, <1>2, <1>3, <1>4, <1>7, <2>2
  <2>4. i < q => y + P <= x
    BY <2>1
  <2> HIDE DEF x, y, begin, o, q, P
  <2>5. QED
    BY <1>1, <1>2, <1>4, <1>7, <2>3, <2>4
<1>9. q \in 0 .. N - 1 /\ q # N - 1
  <2> HIDE DEF q, N
  <2>1. QED
    BY <1>1, <1>6, <1>7, <1>8
<1>10. PieceEnd(m, q) \in Nat /\ PieceEnd(m, q) <= PieceEnd(m, i)
  <2>1. PieceEnd(m, q) \in Nat
    BY <1>9, PieceLies
  <2>2. q < i => PieceEnd(m, q) <= PieceBegin(m, i)
    BY <1>9, PiecesApart
  <2>3. CASE q = i
    <3>1. PieceEnd(m, q) = PieceEnd(m, i)
      BY <2>3
    <3>2. QED
      BY <1>1, <3>1
  <2>4. CASE q # i
    <3> HIDE DEF q
    <3>1. QED
      BY <1>1, <1>7, <1>8, <2>1, <2>2, <2>4
  <2>5. QED
    BY <2>3, <2>4
<1>11. Len(Stored(m, d, q)) = P
  <2>1. /\ PieceBegin(m, q) \in Nat /\ PieceLength(m, q) \in 1 .. P
          /\ PieceEnd(m, q) = PieceBegin(m, q) + PieceLength(m, q)
          /\ PieceEnd(m, q) <= m.totalSize
          /\ PieceLength(m, q) = P
    BY <1>9, PieceLies
  <2>2. /\ P \in Nat /\ PieceBegin(m, q) + P <= m.totalSize
    BY <1>1, <2>1
  <2>3. Len(Gathered(m, d, PieceBegin(m, q), P)[Len(m.files)]) = P
    BY <2>1, <2>2, GatheredLength
  <2>4. QED
    BY <2>1, <2>3 DEF Stored, Held
<1>12. ~NotScanned(m, d, f)
  <2>1. ~(m.files[f].length > Len(d[f]))
    <3>1. Len(d[f]) = m.files[f].length /\ m.files[f].length \in Nat
      BY <1>4, FileLies DEF Whole
    <3>2. QED
      BY <3>1
  <2>2. ~(PieceEnd(m, q) > end)
    <3> HIDE DEF q, end
    <3>1. QED
      BY <1>1, <1>4, <1>5, <1>10
  <2>3. QED
    BY <1>11, <2>1, <2>2 DEF NotScanned
<1>13. i \in LookedAt(m, f)
  <2>1. CASE Split(m, f) /\ i = q
    BY <2>1 DEF LookedAt
  <2>2. CASE ~(Split(m, f) /\ i = q)
    <3> DEFINE start == IF Split(m, f) THEN q + 1 ELSE q
               last == N - 1
    <3>1. i \in start .. last - 1
      <4> HIDE DEF q, N
      <4>1. QED
        BY <1>1, <1>6, <1>7, <1>8, <2>2
    <3>2. PieceBegin(m, i + 1) < end
      BY <1>1, <1>5, <1>6
    <3>3. i \in {j \in start .. last - 1 : PieceBegin(m, j + 1) < end}
      BY <3>1, <3>2
    <3>4. QED
      BY <3>3 DEF LookedAt
  <2>3. QED
    BY <2>1, <2>2
<1>14. ScanBuffer(m, d, f, i) = Stored(m, d, i)
  <2>1. CASE Split(m, f) /\ i = q
    BY <2>1 DEF ScanBuffer
  <2>2. CASE ~(Split(m, f) /\ i = q)
    <3> DEFINE p == PieceBegin(m, i)
               L == PieceLength(m, i)
               b == Stored(m, d, i)
               v == ContentOf(b, p)
               got == Fread(d[f], p - begin, L)
    <3>1. begin <= p
      BY <1>1, <1>8, <2>2, BeginsInFile
    <3>2. L \in Nat \ {0} /\ p \in Nat /\ p + L <= m.totalSize /\ p + L <= end
      <4> HIDE DEF end, P
      <4>1. QED
        BY <1>1, <1>4, <1>5
    <3>3. b \in Seq(Int) /\ Len(b) = L
      <4>1. Gathered(m, d, p, L) \in [0 .. Len(m.files) -> Seq(Int)]
        BY <3>2, GatheredTurns
      <4>2. Len(m.files) \in 0 .. Len(m.files)
        <5>1. Len(m.files) \in Nat
          BY FileLies
        <5>2. QED
          BY <5>1
      <4>3. Len(Gathered(m, d, p, L)[Len(m.files)]) = L
        BY <3>2, GatheredLength
      <4>4. QED
        BY <4>1, <4>2, <4>3 DEF Stored, Held
    <3>4. v \in Contents /\ Bytes(v, p, L) = b
      <4> HIDE DEF b, L, p
      <4>1. p \in Int
        BY <3>2
      <4>2. QED
        BY <3>3, <4>1, ContentHas
    <3>5. There(v, m, d, p, L)
      <4>1. Gathered(m, d, p, L)[Len(m.files)] = Bytes(v, p, L)
        BY <3>4 DEF Stored, Held
      <4> HIDE DEF v, p, L
      <4>2. QED
        BY <3>2, <3>4, <4>1, GatheredRight
    <3>6. got = b
      <4>1. got = Bytes(v, p, L)
        <5> HIDE DEF v, p, L
        <5>1. QED
          BY <3>1, <3>2, <3>4, <3>5, FreadRight
      <4>2. QED
        BY <3>4, <4>1
    <3>7. CASE ~Split(m, f)
      BY <3>6, <3>7 DEF ScanBuffer
    <3>8. CASE Split(m, f)
      <4> DEFINE all == Stored(m, d, q)
      <4>1. ScanBuffer(m, d, f, i) = SubSeq(Fwrite(all, 0, got), 1, L)
        BY <2>2, <3>8 DEF ScanBuffer
      <4>2. all \in Seq(Int)
        <5>1. PieceBegin(m, q) \in Nat /\ PieceLength(m, q) \in Nat
          BY <1>9, PieceLies
        <5>2. Gathered(m, d, PieceBegin(m, q), PieceLength(m, q)) \in [0 .. Len(m.files) -> Seq(Int)]
          BY <5>1, GatheredTurns
        <5>3. Len(m.files) \in 0 .. Len(m.files)
          <6>1. Len(m.files) \in Nat
            BY FileLies
          <6>2. QED
            BY <6>1
        <5>4. QED
          BY <5>2, <5>3 DEF Stored, Held
      <4>3. Len(all) = P /\ L <= P /\ L \in Nat
        BY <1>1, <1>11
      <4> HIDE DEF all, L, got, b
      <4>4. got \in Seq(Int) /\ Len(got) = L
        BY <3>3, <3>6
      <4>5. Len(got) <= L /\ L <= Len(all)
        BY <4>3, <4>4
      <4>6. SubSeq(Fwrite(all, 0, got), 1, L) = got
        BY <4>2, <4>3, <4>4, <4>5, ReadOver
      <4>7. QED
        BY <3>6, <4>1, <4>6 DEF b
    <3>9. QED
      BY <3>7, <3>8
  <2>3. QED
    BY <2>1, <2>2
<1>15. i \in ScanFile(m, d, f)
  BY <1>12, <1>13, <1>14 DEF ScanFile
<1>16. QED
  BY <1>4, <1>15 DEF ScanPieces
------------------------------------------------------------------------------
(* What is read from the files *)

\* What is converted to an int never grows, and stays what it is if it is small.
LEMMA AsIntGives ==
  ASSUME NEW n \in Nat
  PROVE  /\ AsInt(n) \in Int /\ AsInt(n) <= n
         /\ 2 * n < IntSpace => AsInt(n) = n
<1> DEFINE I == IntSpace
           w == n % I
           q == n \div I
<1>1. I \in Nat \ {0}
  BY StorageAssumption
<1> HIDE DEF I
<1>2. q \in Nat /\ w \in 0 .. I - 1 /\ q * I + w = n
  BY <1>1, Division
<1>3. q * I \in Nat
  BY <1>1, <1>2
<1>4. w <= n
  <2> DEFINE x == q * I
  <2>1. x \in Nat /\ x + w = n /\ w \in Int
    BY <1>1, <1>2, <1>3
  <2> HIDE DEF x, w
  <2>2. QED
    BY <2>1
<1>5. n < I => w = n
  BY <1>1
<1>6. AsInt(n) = IF 2 * w < I THEN w ELSE w - I
  BY DEF AsInt, I
<1>7. w \in Nat
  BY <1>1, <1>2
<1> HIDE DEF w
<1>8. AsInt(n) \in Int /\ AsInt(n) <= n
  BY <1>1, <1>4, <1>6, <1>7
<1>9. 2 * n < I => AsInt(n) = n
  BY <1>1, <1>5, <1>6, <1>7
<1>10. QED
  BY <1>8, <1>9 DEF I

\* What has been read stays: the first bytes of the block, up to where writePos was.
Keeps(x, y) ==
    /\ x.pos <= y.pos /\ Len(x.block) <= Len(y.block)
    /\ \A j \in 1 .. Len(x.block) : j <= x.pos => y.block[j] = x.block[j]

\* writePos goes on by no more than has been read, and if it does by that then what
\* is new in the block is what is in the file.
Reads(data, x, y) ==
    /\ x.at <= y.at /\ y.at <= Larger(Len(data), x.at)
    /\ y.pos - x.pos <= y.at - x.at
    /\ y.pos - x.pos = y.at - x.at =>
           \A j \in 1 .. y.pos - x.pos :
               /\ x.pos + j \in 1 .. Len(y.block) /\ x.at + j \in 1 .. Len(data)
               /\ y.block[x.pos + j] = data[x.at + j]

\* The parts of a result.
LEMMA ResultIs ==
  ASSUME NEW x \in Result
  PROVE  /\ x.ok \in BOOLEAN /\ x.pos \in Nat /\ x.at \in Nat /\ x.block \in Seq(Int)
         /\ Len(x.block) \in Nat
<1>1. x.ok \in BOOLEAN /\ x.pos \in Nat /\ x.at \in Nat /\ x.block \in Seq(Int)
  BY DEF Result
<1>2. QED
  BY <1>1, LenProperties

\* What is the same keeps everything and has read nothing.
LEMMA KeepsSame ==
  ASSUME NEW data \in Seq(Int), NEW x \in Result, NEW y \in Result, y.pos = x.pos,
         y.block = x.block, y.at = x.at
  PROVE  Keeps(x, y) /\ Reads(data, x, y)
<1>1. x.pos \in Nat /\ x.at \in Nat /\ Len(x.block) \in Nat /\ Len(data) \in Nat
  BY ResultIs, LenProperties
<1>2. x.at <= Larger(Len(data), x.at)
  BY <1>1 DEF Larger
<1>3. QED
  BY <1>1, <1>2 DEF Keeps, Reads

\* What is kept twice is kept, and so is what is read in two turns.
LEMMA KeepsOn ==
  ASSUME NEW x \in Result, NEW y \in Result, NEW z \in Result, Keeps(x, y), Keeps(y, z)
  PROVE  Keeps(x, z)
<1>1. /\ x.pos \in Nat /\ y.pos \in Nat /\ z.pos \in Nat
      /\ Len(x.block) \in Nat /\ Len(y.block) \in Nat /\ Len(z.block) \in Nat
  BY ResultIs
<1>2. /\ x.pos <= y.pos /\ y.pos <= z.pos
      /\ Len(x.block) <= Len(y.block) /\ Len(y.block) <= Len(z.block)
  BY DEF Keeps
<1>3. ASSUME NEW j \in 1 .. Len(x.block), j <= x.pos PROVE z.block[j] = x.block[j]
  <2>1. j \in 1 .. Len(y.block) /\ j <= y.pos
    BY <1>1, <1>2, <1>3
  <2>2. QED
    BY <1>3, <2>1 DEF Keeps
<1>4. QED
  BY <1>1, <1>2, <1>3 DEF Keeps

LEMMA ReadsOn ==
  ASSUME NEW data \in Seq(Int), NEW x \in Result, NEW y \in Result, NEW z \in Result,
         Reads(data, x, y), Reads(data, y, z), Keeps(x, y), Keeps(y, z)
  PROVE  Reads(data, x, z)
<1> DEFINE n == Len(data)
           m == Len(y.block)
           l == Len(z.block)
           xp == x.pos
           yp == y.pos
           zp == z.pos
           xa == x.at
           ya == y.at
           za == z.at
<1>1. /\ xp \in Nat /\ yp \in Nat /\ zp \in Nat /\ xa \in Nat /\ ya \in Nat /\ za \in Nat
      /\ n \in Nat /\ m \in Nat /\ l \in Nat
  BY ResultIs, LenProperties
<1>2. /\ xa <= ya /\ ya <= Larger(n, xa) /\ yp - xp <= ya - xa
      /\ ya <= za /\ za <= Larger(n, ya) /\ zp - yp <= za - ya
  BY DEF Reads
<1>3. m <= l /\ xp <= yp /\ yp <= zp
  BY DEF Keeps
<1>4. yp - xp = ya - xa =>
         \A j \in 1 .. yp - xp : /\ xp + j \in 1 .. m /\ xa + j \in 1 .. n
                                 /\ y.block[xp + j] = data[xa + j]
  BY DEF Reads
<1>5. zp - yp = za - ya =>
         \A j \in 1 .. zp - yp : /\ yp + j \in 1 .. l /\ ya + j \in 1 .. n
                                 /\ z.block[yp + j] = data[ya + j]
  BY DEF Reads
<1>6. \A j \in 1 .. m : j <= yp => z.block[j] = y.block[j]
  BY DEF Keeps
<1>7. Reads(data, x, z) <=>
         /\ xa <= za /\ za <= Larger(n, xa)
         /\ zp - xp <= za - xa
         /\ zp - xp = za - xa =>
                \A j \in 1 .. zp - xp : /\ xp + j \in 1 .. l /\ xa + j \in 1 .. n
                                        /\ z.block[xp + j] = data[xa + j]
  BY DEF Reads
<1> HIDE DEF n, m, l, xp, yp, zp, xa, ya, za
<1>8. xa <= za /\ za <= Larger(n, xa) /\ zp - xp <= za - xa
  BY <1>1, <1>2 DEF Larger
<1>9. ASSUME zp - xp = za - xa, NEW j \in 1 .. zp - xp
      PROVE  /\ xp + j \in 1 .. l /\ xa + j \in 1 .. n /\ z.block[xp + j] = data[xa + j]
  <2>1. yp - xp = ya - xa /\ zp - yp = za - ya /\ j \in Nat /\ j >= 1 /\ j <= zp - xp
    BY <1>1, <1>2, <1>9
  <2>2. CASE j <= yp - xp
    <3>1. j \in 1 .. yp - xp
      BY <1>1, <2>1, <2>2
    <3>2. xp + j \in 1 .. m /\ xa + j \in 1 .. n /\ y.block[xp + j] = data[xa + j]
      BY <1>4, <2>1, <3>1
    <3>3. xp + j <= yp /\ xp + j \in 1 .. l
      BY <1>1, <1>3, <2>1, <2>2, <3>2, SMTT(30)
    <3>4. z.block[xp + j] = y.block[xp + j]
      BY <1>6, <3>2, <3>3
    <3>5. QED
      BY <3>2, <3>3, <3>4
  <2>3. CASE ~(j <= yp - xp)
    <3> DEFINE h == j - (yp - xp)
    <3>1. h \in 1 .. zp - yp /\ yp + h = xp + j /\ ya + h = xa + j
      BY <1>1, <2>1, <2>3
    <3> HIDE DEF h
    <3>2. yp + h \in 1 .. l /\ ya + h \in 1 .. n /\ z.block[yp + h] = data[ya + h]
      BY <1>5, <2>1, <3>1
    <3>3. QED
      BY <3>1, <3>2
  <2>4. QED
    BY <2>2, <2>3
<1>10. QED
  BY <1>7, <1>8, <1>9

\* A turn of the inner loop.
LEMMA ReadOnceGives ==
  ASSUME AddressSpace \in Nat \ {0}, NEW data \in Seq(Int), NEW readSize \in Int,
         NEW maxRead \in Int, NEW huge, NEW x \in Result
  PROVE  LET y == ReadOnce(data, readSize, maxRead, huge, x)
         IN  /\ y \in Result /\ Keeps(x, y) /\ Reads(data, x, y)
             /\ y.ok => x.ok /\ (y.pos >= maxRead \/ y.at > x.at)
<1> DEFINE ask == Less(readSize, x.pos)
           got == IF ask > AddressSpace \div 2 /\ ~huge THEN <<>> ELSE Fread(data, x.at, ask)
           g == Len(got)
           read == AsInt(g)
           more == Larger(read, 0)
           block == Fwrite(x.block, x.pos, got)
           y == ReadOnce(data, readSize, maxRead, huge, x)
<1>1. /\ x.ok \in BOOLEAN /\ x.pos \in Nat /\ x.at \in Nat /\ x.block \in Seq(Int)
      /\ Len(x.block) \in Nat /\ Len(data) \in Nat
  BY ResultIs, LenProperties
<1>2. ask \in Int
  <2> DEFINE z == readSize - x.pos + AddressSpace
  <2>1. z \in Int
    BY <1>1
  <2>2. ask = z % AddressSpace
    BY DEF Less
  <2> HIDE DEF z, ask
  <2>3. QED
    BY <2>1, <2>2
<1>3. y = IF ~x.ok \/ x.pos >= maxRead THEN x
          ELSE [ok |-> read > 0, pos |-> x.pos + more, at |-> x.at + g, block |-> block]
  BY DEF ReadOnce
<1>4. /\ got \in Seq(Int) /\ g \in Nat /\ g <= Larger(Len(data) - x.at, 0)
      /\ \A j \in 1 .. g : x.at + j \in 1 .. Len(data) /\ got[j] = data[x.at + j]
  <2> HIDE DEF ask
  <2>1. CASE got = <<>>
    <3> HIDE DEF got
    <3>1. got \in Seq(Int) /\ g = 0
      BY <2>1, EmptySeq
    <3>2. QED
      BY <1>1, <3>1 DEF Larger
  <2>2. CASE got = Fread(data, x.at, ask)
    <3> DEFINE f == Fread(data, x.at, ask)
    <3>1. /\ f \in Seq(Int) /\ Len(f) = Larger(Smaller(ask, Len(data) - x.at), 0)
          /\ \A j \in 1 .. Len(f) : x.at + j \in 1 .. Len(data) /\ f[j] = data[x.at + j]
      BY <1>1, <1>2, FreadGives
    <3> HIDE DEF f, got
    <3>2. Len(f) \in Nat /\ Len(f) <= Larger(Len(data) - x.at, 0)
      BY <1>1, <1>2, <3>1 DEF Larger, Smaller
    <3>3. got = f
      BY <2>2 DEF f
    <3>4. QED
      BY <3>1, <3>2, <3>3
  <2>3. QED
    BY <2>1, <2>2
<1> HIDE DEF ask, got, y
<1>5. CASE ~x.ok \/ x.pos >= maxRead
  <2>1. y = x
    BY <1>3, <1>5
  <2>2. y \in Result /\ y.pos = x.pos /\ y.block = x.block /\ y.at = x.at
    BY <2>1
  <2>3. Keeps(x, y) /\ Reads(data, x, y)
    BY <2>2, KeepsSame
  <2>4. y.ok => x.ok /\ y.pos >= maxRead
    BY <1>1, <1>5, <2>1
  <2>5. QED
    BY <2>2, <2>3, <2>4 DEF y
<1>6. CASE ~(~x.ok \/ x.pos >= maxRead)
  <2> DEFINE p == x.pos
             a == x.at
             l == Len(x.block)
             n == Len(data)
  <2>1. y = [ok |-> read > 0, pos |-> p + more, at |-> a + g, block |-> block]
    BY <1>3, <1>6
  <2>2. read \in Int /\ read <= g
    BY <1>4, AsIntGives
  <2>3. /\ block \in Seq(Int)
        /\ Len(block) = IF got = <<>> THEN Len(x.block)
                        ELSE Larger(Len(x.block), x.pos + Len(got))
        /\ \A k \in 1 .. Len(block) :
               block[k] = IF k - x.pos \in 1 .. Len(got) THEN got[k - x.pos]
                          ELSE IF k \in 1 .. Len(x.block) THEN x.block[k] ELSE Hole
    <3> DEFINE s == x.block
    <3>1. s \in Seq(Int) /\ p \in Nat /\ got \in Seq(Int) /\ block = Fwrite(s, p, got)
      BY <1>1, <1>4
    <3> HIDE DEF s, p, block
    <3>2. /\ block \in Seq(Int)
          /\ Len(block) = IF got = <<>> THEN Len(s) ELSE Larger(Len(s), p + Len(got))
          /\ \A k \in 1 .. Len(block) :
                 block[k] = IF k - p \in 1 .. Len(got) THEN got[k - p]
                            ELSE IF k \in 1 .. Len(s) THEN s[k] ELSE Hole
      BY <3>1, FwriteGives
    <3>3. QED
      BY <3>2 DEF s, p
  <2>4. got = <<>> => g = 0
    BY EmptySeq
  <2>5. Len(block) \in Nat
    BY <2>3, LenProperties
  <2> DEFINE e == Len(block)
  <2>6. p \in Nat /\ a \in Nat /\ l \in Nat /\ n \in Nat /\ g \in Nat /\ e \in Nat
    BY <1>1, <1>4, <2>5
  <2>7. /\ e = IF got = <<>> THEN l ELSE Larger(l, p + g)
        /\ g <= Larger(n - a, 0)
        /\ \A k \in 1 .. e : block[k] = IF k - p \in 1 .. g THEN got[k - p]
                                        ELSE IF k \in 1 .. l THEN x.block[k] ELSE Hole
        /\ \A j \in 1 .. g : a + j \in 1 .. n /\ got[j] = data[a + j]
    BY <1>4, <2>3
  <2>8. block \in Seq(Int)
    BY <2>3
  <2>9. more = Larger(read, 0)
    OBVIOUS
  <2> HIDE DEF read, more, block, g, e, p, a, l, n
  <2>10. more \in Nat /\ more <= g /\ (read > 0 => g > 0)
    BY <2>2, <2>6, <2>9 DEF Larger
  <2>11. l <= e /\ (g > 0 => p + g <= e)
    BY <2>4, <2>6, <2>7 DEF Larger
  <2>12. p + more \in Nat /\ a + g \in Nat /\ (read > 0) \in BOOLEAN
    BY <2>6, <2>10
  <2>13. /\ y \in Result /\ y.pos = p + more /\ y.at = a + g /\ y.block = block
         /\ y.ok = (read > 0)
    BY <2>1, <2>8, <2>12 DEF Result
  <2>14. Keeps(x, y) <=>
            /\ p <= p + more /\ l <= e
            /\ \A j \in 1 .. l : j <= p => block[j] = x.block[j]
    BY <2>13 DEF Keeps, p, l, e
  <2>15. Reads(data, x, y) <=>
            /\ a <= a + g /\ a + g <= Larger(n, a)
            /\ (p + more) - p <= (a + g) - a
            /\ (p + more) - p = (a + g) - a =>
                   \A j \in 1 .. (p + more) - p :
                       p + j \in 1 .. e /\ a + j \in 1 .. n /\ block[p + j] = data[a + j]
    BY <2>13 DEF Reads, p, a, n, e
  <2>16. ASSUME NEW j \in 1 .. l, j <= p PROVE block[j] = x.block[j]
    <3>1. j \in 1 .. e /\ ~(j - p \in 1 .. g)
      BY <2>6, <2>11, <2>16
    <3>2. QED
      BY <2>7, <3>1
  <2>17. Keeps(x, y)
    BY <2>6, <2>10, <2>11, <2>14, <2>16
  <2>18. a <= a + g /\ a + g <= Larger(n, a) /\ (p + more) - p = more /\ (a + g) - a = g
    BY <2>6, <2>7, <2>10 DEF Larger
  <2>19. ASSUME NEW j \in 1 .. g
         PROVE  p + j \in 1 .. e /\ a + j \in 1 .. n /\ block[p + j] = data[a + j]
    <3>1. p + j \in 1 .. e /\ (p + j) - p = j
      BY <2>6, <2>11
    <3>2. block[p + j] = got[j]
      BY <2>7, <3>1
    <3>3. QED
      BY <2>7, <3>1, <3>2
  <2>20. Reads(data, x, y)
    BY <2>10, <2>15, <2>18, <2>19
  <2>21. y.ok => y.at > x.at
    <3>1. read > 0 => a + g > a
      BY <2>6, <2>10
    <3>2. QED
      BY <2>13, <3>1 DEF a
  <2>22. QED
    BY <1>1, <1>6, <2>13, <2>17, <2>20, <2>21 DEF y
<1>7. QED
  BY <1>5, <1>6

\* The inner loop: it keeps what there is, reads on in the file, and succeeds only when
\* writePos is where it should be; as each turn reads something it is over in time.
LEMMA ReadUpToGives ==
  ASSUME AddressSpace \in Nat \ {0}, NEW data \in Seq(Int), NEW readSize \in Int,
         NEW maxRead \in Int, NEW huge, NEW r \in Result
  PROVE  LET out == ReadUpTo(data, readSize, maxRead, huge, r)
         IN  /\ out \in Result /\ Keeps(r, out) /\ Reads(data, r, out)
             /\ out.ok => r.ok /\ out.pos >= maxRead
<1> DEFINE n == Len(data) + 1
           turn == [k \in 1 .. Len(data) + 1 |->
                       [x \in Result |-> ReadOnce(data, readSize, maxRead, huge, x)]]
           L == Loop(turn, r, n)
           H == {k \in 0 .. n :
                    /\ Keeps(r, L[k]) /\ Reads(data, r, L[k])
                    /\ L[k].ok => r.ok /\ (L[k].pos >= maxRead \/ L[k].at >= r.at + k)}
<1>1. n \in Nat /\ Len(data) \in Nat
  BY LenProperties
<1>2. ASSUME NEW x \in Result
      PROVE  LET y == ReadOnce(data, readSize, maxRead, huge, x)
             IN  /\ y \in Result /\ Keeps(x, y) /\ Reads(data, x, y)
                 /\ y.ok => x.ok /\ (y.pos >= maxRead \/ y.at > x.at)
  BY ReadOnceGives
<1>3. \A k \in 1 .. n : \A x \in Result : turn[k][x] = ReadOnce(data, readSize, maxRead, huge, x)
  OBVIOUS
<1>4. \A k \in 1 .. n : \A x \in Result : turn[k][x] \in Result
  <2> HIDE DEF turn, n
  <2>1. QED
    BY <1>2, <1>3
<1>5. ReadUpTo(data, readSize, maxRead, huge, r) = L[n]
  BY DEF ReadUpTo, ReadTurns
<1> HIDE DEF turn, n, L
<1>6. /\ L \in [0 .. n -> Result] /\ L[0] = r
      /\ \A k \in 1 .. n : L[k] = turn[k][L[k - 1]]
  <2>1. TurnByTurn(Result, turn, r, n)
    BY <1>1, <1>4, LoopTurns
  <2>2. QED
    BY <2>1 DEF TurnByTurn, L
<1>7. 0 \in H
  <2>1. Keeps(r, r) /\ Reads(data, r, r)
    BY KeepsSame
  <2>2. r.at >= r.at + 0
    BY ResultIs
  <2>3. QED
    BY <1>1, <1>6, <2>1, <2>2
<1>8. ASSUME NEW k \in 1 .. n, k - 1 \in H PROVE k \in H
  <2> DEFINE x == L[k - 1]
             y == L[k]
  <2>1. k \in 0 .. n /\ k - 1 \in 0 .. n /\ k \in Nat
    BY <1>1
  <2>2. x \in Result
    BY <1>6, <2>1
  <2>3. y = ReadOnce(data, readSize, maxRead, huge, x)
    BY <1>3, <1>6, <2>2
  <2>4. /\ Keeps(r, x) /\ Reads(data, r, x)
        /\ x.ok => r.ok /\ (x.pos >= maxRead \/ x.at >= r.at + (k - 1))
    BY <1>8
  <2> HIDE DEF x, y
  <2>5. /\ y \in Result /\ Keeps(x, y) /\ Reads(data, x, y)
        /\ y.ok => x.ok /\ (y.pos >= maxRead \/ y.at > x.at)
    BY <1>2, <2>2, <2>3
  <2>6. Keeps(r, y) /\ Reads(data, r, y)
    BY <2>2, <2>4, <2>5, KeepsOn, ReadsOn
  <2>7. /\ x.pos \in Nat /\ y.pos \in Nat /\ x.at \in Nat /\ y.at \in Nat /\ r.at \in Nat
        /\ x.pos <= y.pos
    <3>1. x.pos <= y.pos
      BY <2>5 DEF Keeps
    <3>2. QED
      BY <2>2, <2>5, <3>1, ResultIs
  <2>8. y.ok => r.ok /\ (y.pos >= maxRead \/ y.at >= r.at + k)
    BY <2>1, <2>4, <2>5, <2>7, SMTT(30)
  <2>9. QED
    BY <2>1, <2>6, <2>8 DEF y
<1> HIDE DEF H
<1>9. 0 .. n \subseteq H
  BY <1>1, <1>7, <1>8, UpTo
<1> DEFINE out == L[n]
<1>10. /\ out \in Result /\ Keeps(r, out) /\ Reads(data, r, out)
       /\ out.ok => r.ok /\ (out.pos >= maxRead \/ out.at >= r.at + n)
  <2>1. n \in 0 .. n
    BY <1>1
  <2>2. n \in H
    BY <1>9, <2>1
  <2>3. QED
    BY <1>6, <2>1, <2>2 DEF H
<1> HIDE DEF out
<1>11. ~(out.at >= r.at + n)
  <2>1. out.at \in Nat /\ r.at \in Nat
    BY <1>10, ResultIs
  <2>2. out.at <= Larger(Len(data), r.at)
    BY <1>10 DEF Reads
  <2>3. QED
    BY <1>1, <2>1, <2>2 DEF n, Larger
<1>12. QED
  BY <1>5, <1>10, <1>11 DEF out

\* Nothing is read when there is as much already.
LEMMA ReadUpToNothing ==
  ASSUME NEW data \in Seq(Int), NEW readSize, NEW maxRead, NEW huge, NEW r \in Result,
         r.pos >= maxRead
  PROVE  ReadUpTo(data, readSize, maxRead, huge, r) = r
<1> DEFINE n == Len(data) + 1
           turn == [k \in 1 .. Len(data) + 1 |->
                       [x \in Result |-> ReadOnce(data, readSize, maxRead, huge, x)]]
           R == [k \in 0 .. n |-> r]
<1>1. n \in Nat
  BY LenProperties
<1>2. ReadOnce(data, readSize, maxRead, huge, r) = r
  BY DEF ReadOnce
<1>3. R \in [0 .. n -> {r}] /\ R[0] = r /\ \A k \in 1 .. n : turn[k][R[k - 1]] = R[k]
  BY <1>1, <1>2
<1>4. R[n] = r
  BY <1>1
<1>5. ReadUpTo(data, readSize, maxRead, huge, r) = Loop(turn, r, n)[n]
  BY DEF ReadUpTo, ReadTurns
<1> HIDE DEF R, turn, n
<1>6. LoopGives(turn, r, n, R)
  BY <1>1, <1>3, LoopIs
<1>7. QED
  BY <1>4, <1>5, <1>6 DEF LoopGives

\* All the rest of a file is read, if an int can count it.
LEMMA ReadUpToAll ==
  ASSUME AddressSpace \in Nat \ {0}, NEW data \in Seq(Int), NEW r \in Result, r.ok, r.pos = 0,
         NEW n \in Nat, r.at + n = Len(data), 2 * n < AddressSpace, 2 * n < IntSpace, NEW huge
  PROVE  LET out == ReadUpTo(data, n, n, huge, r)
         IN  out \in Result /\ out.ok /\ out.pos = n
<1> DEFINE turns == Len(data) + 1
           turn == [k \in 1 .. Len(data) + 1 |->
                       [x \in Result |-> ReadOnce(data, n, n, huge, x)]]
           S == {x \in Result : x.ok /\ x.pos <= n /\ x.at = r.at + x.pos}
           out == ReadUpTo(data, n, n, huge, r)
<1>1. turns \in Nat /\ Len(data) \in Nat /\ r.at \in Nat
  BY LenProperties, ResultIs
<1>2. r \in S
  BY <1>1
<1>3. ASSUME NEW x \in S PROVE ReadOnce(data, n, n, huge, x) \in S
  <2> DEFINE ask == Less(n, x.pos)
             g == Fread(data, x.at, ask)
             got == IF ask > AddressSpace \div 2 /\ ~huge THEN <<>> ELSE g
             y == ReadOnce(data, n, n, huge, x)
  <2>1. x \in Result /\ x.ok /\ x.pos \in Nat /\ x.pos <= n /\ x.at = r.at + x.pos /\ x.at \in Nat
    BY ResultIs
  <2>2. y = IF ~x.ok \/ x.pos >= n THEN x
            ELSE [ok |-> AsInt(Len(got)) > 0, pos |-> x.pos + Larger(AsInt(Len(got)), 0),
                  at |-> x.at + Len(got), block |-> Fwrite(x.block, x.pos, got)]
    BY DEF ReadOnce
  <2>3. y \in Result
    <3>1. n \in Int
      OBVIOUS
    <3>2. QED
      BY <2>1, <3>1, ReadOnceGives
  <2> HIDE DEF ask, g, y
  <2>4. CASE x.pos >= n
    BY <2>1, <2>2, <2>4 DEF y
  <2>5. CASE x.pos < n
    <3>1. ask = n - x.pos
      <4>1. Less(n, x.pos) = (n - x.pos + AddressSpace) % AddressSpace
        BY DEF Less
      <4> DEFINE w == n - x.pos
      <4>2. w \in Nat /\ w < AddressSpace
        BY <2>1, <2>5
      <4> HIDE DEF w
      <4>3. (w + AddressSpace) % AddressSpace = w
        BY <4>2
      <4>4. QED
        BY <4>1, <4>3 DEF w, ask
    <3>2. ~(ask > AddressSpace \div 2)
      BY <2>1, <2>5, <3>1
    <3>3. Len(g) = n - x.pos
      <4>1. Len(g) = Larger(Smaller(ask, Len(data) - x.at), 0)
        <5>1. x.at \in Nat /\ ask \in Int
          BY <2>1, <3>1
        <5>2. QED
          BY <5>1, FreadGives DEF g
      <4>2. Len(data) - x.at = n - x.pos
        BY <1>1, <2>1
      <4>3. QED
        BY <2>1, <2>5, <3>1, <4>1, <4>2 DEF Larger, Smaller
    <3>4. got = g
      BY <3>2
    <3> HIDE DEF got
    <3>5. AsInt(Len(got)) = n - x.pos
      <4>1. Len(got) \in Nat /\ 2 * Len(got) < IntSpace
        <5>1. IntSpace \in Nat
          BY StorageAssumption
        <5>2. QED
          BY <2>1, <2>5, <3>3, <3>4, <5>1
      <4>2. QED
        BY <3>3, <3>4, <4>1, AsIntGives
    <3>6. y = [ok |-> n - x.pos > 0, pos |-> x.pos + Larger(n - x.pos, 0),
               at |-> x.at + (n - x.pos), block |-> Fwrite(x.block, x.pos, got)]
      <4>1. ~(~x.ok \/ x.pos >= n)
        BY <2>1, <2>5
      <4>2. QED
        BY <2>2, <3>3, <3>4, <3>5, <4>1
    <3>7. y.ok /\ y.pos = n /\ y.at = r.at + n
      <4>1. y.ok = (n - x.pos > 0) /\ y.pos = x.pos + Larger(n - x.pos, 0)
            /\ y.at = x.at + (n - x.pos)
        BY <3>6
      <4> DEFINE p == x.pos
                 b == r.at
      <4>2. p \in Nat /\ p < n /\ b \in Nat /\ x.at = b + p
        BY <1>1, <2>1, <2>5
      <4> HIDE DEF p, b
      <4>3. n - p > 0 /\ p + Larger(n - p, 0) = n /\ (b + p) + (n - p) = b + n
        BY <4>2 DEF Larger
      <4>4. QED
        BY <4>1, <4>2, <4>3 DEF p, b
    <3>8. QED
      BY <2>3, <3>7 DEF y
  <2>6. QED
    BY <2>1, <2>4, <2>5
<1>4. \A k \in 1 .. turns : \A x \in S : turn[k][x] = ReadOnce(data, n, n, huge, x)
  OBVIOUS
<1>5. \A k \in 1 .. turns : \A x \in S : turn[k][x] \in S
  <2> HIDE DEF S, turn, turns
  <2>1. QED
    BY <1>3, <1>4
<1>6. out = Loop(turn, r, turns)[turns]
  BY DEF ReadUpTo, ReadTurns
<1>7. out \in Result /\ (out.ok => out.pos >= n)
  <2>1. n \in Int
    OBVIOUS
  <2>2. QED
    BY <2>1, ReadUpToGives
<1> HIDE DEF turn, S, turns, out
<1>8. out \in S
  <2>1. TurnByTurn(S, turn, r, turns)
    BY <1>1, <1>2, <1>5, LoopTurns
  <2>2. turns \in 0 .. turns
    BY <1>1
  <2>3. QED
    BY <1>6, <2>1, <2>2 DEF TurnByTurn
<1>9. out.ok /\ out.pos <= n
  BY <1>8 DEF S
<1>10. out.pos = n
  <2>1. out.pos \in Nat
    BY <1>7, ResultIs
  <2>2. QED
    BY <1>7, <1>9, <2>1
<1>11. QED
  BY <1>7, <1>9, <1>10 DEF out
------------------------------------------------------------------------------
\* What does not overflow.
LEMMA NoOverflow ==
  ASSUME NEW a \in Nat, a < AddressSpace, AddressSpace \in Nat
  PROVE  a % AddressSpace = a /\ (a + AddressSpace) % AddressSpace = a
  OBVIOUS

\* What wraps is a number still.
LEMMA WrapsToInt ==
  ASSUME NEW a \in Int, AddressSpace \in Nat \ {0}
  PROVE  a % AddressSpace \in Int
  OBVIOUS

\* The sizes are far from overflowing.
LEMMA Sizes ==
  ASSUME NEW m, WellFormed(m)
  PROVE  /\ AddressSpace \in Nat \ {0} /\ m.totalSize \in Nat /\ m.pieceLength \in Nat \ {0}
         /\ 2 * (m.totalSize + m.pieceLength) < AddressSpace
         /\ \A k \in 1 .. Len(m.files) : EndOf(m, k) <= m.totalSize
<1>1. /\ Len(m.files) \in Nat \ {0} /\ EndOf(m, Len(m.files)) = m.totalSize
      /\ \A k \in 0 .. Len(m.files) : EndOf(m, k) \in Nat
  BY FileLies
<1>2. m.totalSize \in Nat
  BY <1>1
<1>3. m.pieceLength \in Nat \ {0} /\ 2 * (m.totalSize + m.pieceLength) < AddressSpace
  BY DEF WellFormed
<1>4. AddressSpace \in Nat \ {0}
  BY <1>2, <1>3, StorageAssumption
<1>5. ASSUME NEW k \in 1 .. Len(m.files) PROVE EndOf(m, k) <= m.totalSize
  <2>1. Len(m.files) \in 0 .. Len(m.files) /\ k \in 0 .. Len(m.files)
    BY <1>1
  <2>2. QED
    BY <1>1, <2>1, EndsGrow
<1>6. QED
  BY <1>2, <1>3, <1>4, <1>5

\* What has been read stays, and the turn of a file fails if one before did.
LEMMA ReadFileKeeps ==
  ASSUME NEW m, WellFormed(m), NEW d, IsDisk(m, d), NEW k \in 1 .. Len(m.files),
         NEW from \in Nat, NEW size \in Nat, NEW huge, NEW r \in Result
  PROVE  LET x == ReadFile(m, d, k, from, size, huge, r)
         IN  x \in Result /\ (x.ok => r.ok /\ Keeps(r, x))
<1> DEFINE begin == m.files[k].begin
           end == End(m.files[k])
           s == r.pos
           filePos == from + s
           readSize == ReadSize(end - filePos, Less(size, s))
           maxRead == Plus(s, readSize)
           there == [r EXCEPT !.at = filePos - begin]
           out == ReadUpTo(d[k], readSize, maxRead, huge, there)
           x == ReadFile(m, d, k, from, size, huge, r)
<1>1. x = IF ~r.ok \/ filePos < begin THEN [r EXCEPT !.ok = FALSE]
          ELSE IF filePos > end THEN r ELSE out
  BY DEF ReadFile
<1>2. s \in Nat /\ r.ok \in BOOLEAN /\ r.at \in Nat /\ r.block \in Seq(Int)
      /\ Len(r.block) \in Nat
  BY ResultIs
<1>3. AddressSpace \in Nat \ {0} /\ begin \in Nat /\ end \in Nat /\ d[k] \in Seq(Int)
  <2>1. k \in DOMAIN m.files /\ k - 1 \in 0 .. Len(m.files) /\ k \in 0 .. Len(m.files)
    BY FileLies
  <2>2. d[k] \in Seq(Int)
    BY <2>1 DEF IsDisk
  <2>3. begin \in Nat /\ end \in Nat
    BY <2>1, FileLies
  <2>4. QED
    BY <2>2, <2>3, Sizes
<1>4. Keeps(r, r)
  BY <1>2 DEF Keeps
<1> HIDE DEF begin, end
<1>5. readSize \in Int /\ maxRead \in Int
  <2> HIDE DEF s
  <2> DEFINE toGo == Less(size, s)
  <2>1. toGo \in Int
    <3>1. size - s + AddressSpace \in Int
      BY <1>2, <1>3
    <3>2. QED
      BY <1>3, <3>1, WrapsToInt DEF Less
  <2> HIDE DEF toGo
  <2>2. ReadSize(end - filePos, toGo) \in Int
    BY <1>2, <1>3, <2>1 DEF ReadSize, Larger
  <2>3. readSize \in Int
    BY <2>2 DEF toGo
  <2> HIDE DEF readSize
  <2>4. maxRead \in Int
    <3>1. s + readSize \in Int
      BY <1>2, <2>3
    <3>2. QED
      BY <1>3, <3>1, WrapsToInt DEF Plus
  <2>5. QED
    BY <2>3, <2>4
<1> HIDE DEF readSize, maxRead
<1>6. CASE ~r.ok \/ filePos < begin
  <2>1. x = [r EXCEPT !.ok = FALSE]
    BY <1>1, <1>6
  <2> HIDE DEF x
  <2>2. x \in Result /\ ~x.ok
    BY <1>2, <2>1 DEF Result
  <2>3. QED
    BY <2>2 DEF x
<1>7. CASE ~(~r.ok \/ filePos < begin) /\ filePos > end
  <2>1. x = r
    BY <1>1, <1>7
  <2>2. QED
    BY <1>4, <1>7, <2>1 DEF x
<1>8. CASE ~(~r.ok \/ filePos < begin) /\ ~(filePos > end)
  <2>1. x = out
    BY <1>1, <1>8
  <2>2. filePos - begin \in Nat
    BY <1>2, <1>3, <1>8
  <2>3. there \in Result /\ there.ok = r.ok /\ there.pos = r.pos /\ there.block = r.block
    BY <1>2, <2>2 DEF Result
  <2> HIDE DEF there, x
  <2>4. out \in Result /\ Keeps(there, out) /\ (out.ok => there.ok)
    BY <1>3, <1>5, <2>3, ReadUpToGives
  <2>5. Keeps(r, out)
    BY <2>3, <2>4 DEF Keeps
  <2>6. QED
    BY <2>1, <2>3, <2>4, <2>5 DEF x
<1>9. QED
  BY <1>6, <1>7, <1>8

\* Nothing has been read at first.
LEMMA NothingReadIs ==
  /\ NothingRead \in Result /\ NothingRead.ok /\ NothingRead.pos = 0 /\ NothingRead.at = 0
  /\ NothingRead.block = <<>>
BY EmptySeq DEF NothingRead, Result

\* The first file that is not over where the block begins gives all of it or fails.
LEMMA ReadFileBegins ==
  ASSUME NEW m, WellFormed(m), NEW d, IsDisk(m, d), NEW k \in 1 .. Len(m.files),
         NEW from \in Nat, NEW size \in 1 .. m.pieceLength, from + size <= m.totalSize, NEW huge,
         EndOf(m, k - 1) <= from
  PROVE  LET x == ReadFile(m, d, k, from, size, huge, NothingRead)
         IN  IF from > EndOf(m, k) THEN x = NothingRead
             ELSE x.ok => /\ from + size <= EndOf(m, k)
                          /\ x.pos >= size /\ Len(x.block) >= size
                          /\ \A j \in 1 .. size :
                                 /\ from + j - EndOf(m, k - 1) \in 1 .. Len(d[k])
                                 /\ x.block[j] = d[k][from + j - EndOf(m, k - 1)]
<1> DEFINE begin == m.files[k].begin
           end == End(m.files[k])
           r == NothingRead
           s == r.pos
           filePos == from + s
           readSize == ReadSize(end - filePos, Less(size, s))
           maxRead == Plus(s, readSize)
           there == [r EXCEPT !.at = filePos - begin]
           out == ReadUpTo(d[k], readSize, maxRead, huge, there)
           x == ReadFile(m, d, k, from, size, huge, r)
           toRead == Larger(end - from, size)
<1>1. x = IF ~r.ok \/ filePos < begin THEN [r EXCEPT !.ok = FALSE]
          ELSE IF filePos > end THEN r ELSE out
  BY DEF ReadFile
<1>2. r.ok /\ r.block = <<>> /\ s = 0 /\ r \in Result
  BY NothingReadIs
<1>3. /\ AddressSpace \in Nat \ {0} /\ begin \in Nat /\ end \in Nat /\ d[k] \in Seq(Int)
      /\ begin = EndOf(m, k - 1) /\ end = EndOf(m, k) /\ end <= m.totalSize
      /\ m.totalSize \in Nat /\ m.pieceLength \in Nat \ {0}
      /\ 2 * (m.totalSize + m.pieceLength) < AddressSpace
      /\ Len(d[k]) <= end - begin /\ Len(d[k]) \in Nat
  <2>1. k \in DOMAIN m.files /\ k - 1 \in 0 .. Len(m.files) /\ k \in 0 .. Len(m.files)
    BY FileLies
  <2>2. d[k] \in Seq(Int) /\ Len(d[k]) <= m.files[k].length
    BY <2>1 DEF IsDisk
  <2>3. /\ begin \in Nat /\ end \in Nat /\ begin = EndOf(m, k - 1) /\ end = EndOf(m, k)
        /\ m.files[k].length \in Nat /\ EndOf(m, k) = EndOf(m, k - 1) + m.files[k].length
    BY <2>1, FileLies
  <2>4. Len(d[k]) \in Nat
    BY <2>2, LenProperties
  <2>5. end <= m.totalSize
    BY <2>3, Sizes
  <2>6. Len(d[k]) <= end - begin
    <3> HIDE DEF begin, end
    <3>1. QED
      BY <2>2, <2>3, <2>4, SMTT(30)
  <2>7. QED
    BY <2>2, <2>3, <2>4, <2>5, <2>6, Sizes
<1> HIDE DEF begin, end, r, s
<1>4. filePos = from /\ begin <= from /\ size \in Nat /\ size >= 1 /\ size <= m.pieceLength
  BY <1>2, <1>3
<1>5. CASE from > end
  BY <1>1, <1>2, <1>3, <1>4, <1>5 DEF r
<1>6. CASE ~(from > end)
  <2>1. Less(size, s) = size
    <3>1. size < AddressSpace /\ size - s + AddressSpace = size + AddressSpace
      BY <1>2, <1>3, <1>4, SMTT(30)
    <3>2. QED
      BY <1>3, <1>4, <3>1, NoOverflow DEF Less
  <2>2. readSize = toRead
    BY <1>4, <2>1 DEF ReadSize
  <2>3. toRead \in Nat /\ toRead < AddressSpace /\ size <= toRead /\ end - from <= toRead
    <3> DEFINE rest == end - from
    <3>1. rest \in Nat /\ rest <= m.totalSize
      BY <1>3, <1>6, SMTT(30)
    <3>2. toRead = rest \/ toRead = size
      BY DEF Larger
    <3>3. size <= toRead /\ rest <= toRead
      BY <1>4, <3>1 DEF Larger
    <3> HIDE DEF toRead
    <3>4. toRead \in Nat
      BY <1>4, <3>1, <3>2
    <3>5. toRead <= m.totalSize + m.pieceLength
      <4> HIDE DEF rest
      <4>1. QED
        BY <1>3, <1>4, <3>1, <3>2, SMTT(30)
    <3>6. m.totalSize + m.pieceLength < AddressSpace
      BY <1>3, SMTT(30)
    <3>7. QED
      <4> HIDE DEF rest
      <4>1. toRead < AddressSpace
        BY <1>3, <3>4, <3>5, <3>6, SMTT(30)
      <4>2. QED
        BY <3>3, <3>4, <4>1 DEF rest
  <2> HIDE DEF readSize, toRead
  <2>4. maxRead = toRead
    <3>1. s + readSize = toRead
      BY <1>2, <2>2, <2>3
    <3>2. QED
      BY <1>3, <2>3, <3>1, NoOverflow DEF Plus
  <2> HIDE DEF maxRead
  <2>5. x = out
    BY <1>1, <1>2, <1>3, <1>4, <1>6
  <2> DEFINE p == from - begin
  <2>6. p \in Nat
    BY <1>3, <1>4, SMTT(30)
  <2>7. there \in Result /\ there.at = p /\ there.pos = 0
    <3>1. filePos - begin = p
      BY <1>4
    <3>2. QED
      BY <1>2, <2>6, <3>1 DEF Result, s
  <2> HIDE DEF there, out, x
  <2>8. out \in Result /\ Reads(d[k], there, out) /\ (out.ok => out.pos >= toRead)
    <3>1. readSize \in Int /\ maxRead \in Int
      BY <2>2, <2>3, <2>4
    <3>2. out \in Result /\ Reads(d[k], there, out) /\ (out.ok => out.pos >= maxRead)
      BY <1>3, <2>7, <3>1, ReadUpToGives DEF out
    <3>3. QED
      BY <2>4, <3>2
  <2> DEFINE t == out.block
             e == Len(t)
             q == out.pos
             a == out.at
             data == d[k]
             n == Len(data)
  <2>9. e \in Nat /\ q \in Nat /\ a \in Nat /\ n \in Nat /\ n <= end - begin
    BY <1>3, <2>8, ResultIs
  <2>10. /\ p <= a /\ a <= Larger(n, p) /\ q - 0 <= a - p
         /\ q - 0 = a - p =>
                \A j \in 1 .. q - 0 : 0 + j \in 1 .. e /\ p + j \in 1 .. n /\ t[0 + j] = data[p + j]
    BY <2>7, <2>8 DEF Reads
  <2> HIDE DEF t, e, q, a, data, n
  <2>11. ASSUME out.ok
         PROVE  /\ from + size <= end /\ q >= size /\ e >= size
                /\ \A j \in 1 .. size :
                       from + j - begin \in 1 .. n /\ t[j] = data[from + j - begin]
    <3>1. q >= toRead
      BY <2>8, <2>11 DEF q
    <3>2. end - from \in Nat /\ p + (end - from) = end - begin
      BY <1>3, <1>6, SMTT(30)
    <3> DEFINE rest == end - from
    <3>3. a <= p + rest
      BY <2>6, <2>9, <2>10, <3>2 DEF Larger
    <3>4. rest \in Nat /\ rest <= toRead
      BY <2>3, <3>2
    <3> HIDE DEF rest
    <3>5. q = a - p /\ q >= size /\ size <= rest
      <4> HIDE DEF p
      <4>1. QED
        BY <1>4, <2>3, <2>6, <2>9, <2>10, <3>1, <3>3, <3>4
    <3>6. \A j \in 1 .. q : j \in 1 .. e /\ p + j \in 1 .. n /\ t[j] = data[p + j]
      <4> HIDE DEF p
      <4>1. q - 0 = q /\ \A j \in 1 .. q : 0 + j = j
        BY <2>9
      <4>2. QED
        BY <2>10, <3>5, <4>1
    <3>7. size \in 1 .. q
      BY <1>4, <2>9, <3>5
    <3>8. e >= size
      BY <1>4, <2>9, <3>6, <3>7
    <3>9. from + size <= end
      BY <1>3, <1>4, <3>5 DEF rest
    <3>10. ASSUME NEW j \in 1 .. size
           PROVE  from + j - begin \in 1 .. n /\ t[j] = data[from + j - begin]
      <4>1. j \in 1 .. q
        BY <1>4, <2>9, <3>5
      <4>2. p + j = from + j - begin
        BY <1>3
      <4>3. QED
        BY <3>6, <4>1, <4>2
    <3>11. QED
      BY <3>5, <3>8, <3>9, <3>10
  <2>12. QED
    BY <1>3, <1>6, <2>5, <2>11 DEF x, t, e, q, n, data, r
<1>7. QED
  BY <1>5, <1>6
------------------------------------------------------------------------------
\* The loop over the files.
LEMMA ReadTurnsAre ==
  ASSUME NEW m, WellFormed(m), NEW d, IsDisk(m, d), NEW from \in Nat, NEW size \in Nat, NEW huge
  PROVE  LET L == ReadFiles(m, d, from, size, huge)
         IN  /\ \A k \in 0 .. Len(m.files) : L[k] \in Result
             /\ L[0] = NothingRead
             /\ \A k \in 1 .. Len(m.files) : L[k] = ReadFile(m, d, k, from, size, huge, L[k - 1])
<1> DEFINE F == Len(m.files)
           turn == [f \in DOMAIN m.files |->
                       [r \in Result |-> ReadFile(m, d, f, from, size, huge, r)]]
           start == NothingRead
           L == ReadFiles(m, d, from, size, huge)
<1>1. F \in Nat /\ DOMAIN m.files = 1 .. F
  BY FileLies
<1>2. start \in Result
  BY NothingReadIs
<1>3. \A k \in 1 .. F : \A r \in Result : turn[k][r] = ReadFile(m, d, k, from, size, huge, r)
  BY <1>1
<1>4. \A k \in 1 .. F : \A r \in Result : ReadFile(m, d, k, from, size, huge, r) \in Result
  BY ReadFileKeeps
<1>5. L = Loop(turn, start, F)
  BY DEF ReadFiles
<1> HIDE DEF F, turn, start, L
<1>6. TurnByTurn(Result, turn, start, F)
  <2>1. \A k \in 1 .. F : \A r \in Result : turn[k][r] \in Result
    BY <1>3, <1>4
  <2>2. QED
    BY <1>1, <1>2, <2>1, LoopTurns
<1>7. /\ L \in [0 .. F -> Result] /\ L[0] = start
      /\ \A k \in 1 .. F : L[k] = turn[k][L[k - 1]]
  BY <1>5, <1>6 DEF TurnByTurn
<1>8. ASSUME NEW k \in 1 .. F PROVE L[k] = ReadFile(m, d, k, from, size, huge, L[k - 1])
  <2>1. k - 1 \in 0 .. F
    BY <1>1
  <2>2. L[k - 1] \in Result
    BY <1>7, <2>1
  <2>3. QED
    BY <1>3, <1>7, <2>2
<1>9. QED
  BY <1>7, <1>8 DEF L, F, start

\* The bytes asked for are at the start of the block, and all from one file.
Serves(m, d, from, size, r) ==
    /\ r.pos >= size /\ Len(r.block) >= size
    /\ \E f \in 1 .. Len(m.files) :
           /\ EndOf(m, f - 1) <= from /\ from + size <= EndOf(m, f)
           /\ \A j \in 1 .. size : /\ from + j - EndOf(m, f - 1) \in 1 .. Len(d[f])
                                   /\ r.block[j] = d[f][from + j - EndOf(m, f - 1)]

\* A read serves what it was asked for, if it succeeds.
LEMMA ReadIsSound ==
  ASSUME NEW m, WellFormed(m), NEW d, IsDisk(m, d), NEW from \in Nat,
         NEW size \in 1 .. m.pieceLength, from + size <= m.totalSize, NEW huge,
         ReadFiles(m, d, from, size, huge)[Len(m.files)].ok
  PROVE  /\ ReadFiles(m, d, from, size, huge)[Len(m.files)] \in Result
         /\ Serves(m, d, from, size, ReadFiles(m, d, from, size, huge)[Len(m.files)])
<1> DEFINE F == Len(m.files)
           L == ReadFiles(m, d, from, size, huge)
           H == {k \in 0 .. F : L[k].ok => \/ L[k] = NothingRead /\ EndOf(m, k) <= from
                                           \/ Serves(m, d, from, size, L[k])}
<1>1. F \in Nat /\ EndOf(m, 0) = 0 /\ EndOf(m, F) = m.totalSize
      /\ \A k \in 0 .. F : EndOf(m, k) \in Nat
  BY FileLies
<1>2. size \in Nat /\ size >= 1
  BY Sizes
<1>3. /\ \A k \in 0 .. F : L[k] \in Result
      /\ L[0] = NothingRead
      /\ \A k \in 1 .. F : L[k] = ReadFile(m, d, k, from, size, huge, L[k - 1])
  BY <1>2, ReadTurnsAre
<1> HIDE DEF L
<1>4. 0 \in H
  BY <1>1, <1>3
<1>5. ASSUME NEW k \in 1 .. F, k - 1 \in H PROVE k \in H
  <2> DEFINE r == L[k - 1]
             x == L[k]
  <2>1. k \in 0 .. F /\ k - 1 \in 0 .. F
    BY <1>1
  <2>2. x = ReadFile(m, d, k, from, size, huge, r) /\ r \in Result /\ x \in Result
    BY <1>3, <2>1
  <2>3. r.ok => \/ r = NothingRead /\ EndOf(m, k - 1) <= from
                \/ Serves(m, d, from, size, r)
    BY <1>5
  <2> HIDE DEF r, x
  <2>4. x.ok => r.ok /\ Keeps(r, x)
    BY <1>2, <2>2, ReadFileKeeps
  <2>5. CASE ~x.ok
    BY <2>1, <2>5 DEF x
  <2>6. CASE x.ok /\ Serves(m, d, from, size, r)
    <3> DEFINE l == Len(r.block)
               e == Len(x.block)
               p == r.pos
               q == x.pos
    <3>1. l \in Nat /\ e \in Nat /\ p \in Nat /\ q \in Nat
      BY <2>2, ResultIs
    <3>2. p <= q /\ l <= e /\ \A j \in 1 .. l : j <= p => x.block[j] = r.block[j]
      BY <2>4, <2>6 DEF Keeps
    <3>3. p >= size /\ l >= size
      BY <2>6 DEF Serves
    <3> HIDE DEF p, q, l, e
    <3>4. q >= size /\ e >= size /\ \A j \in 1 .. size : j \in 1 .. l /\ j <= p
      BY <1>2, <3>1, <3>2, <3>3
    <3>5. \A j \in 1 .. size : x.block[j] = r.block[j]
      BY <3>2, <3>4
    <3>6. Serves(m, d, from, size, x)
      BY <2>6, <3>4, <3>5 DEF Serves, q, e
    <3>7. QED
      BY <2>1, <3>6 DEF x
  <2>7. CASE x.ok /\ r = NothingRead /\ EndOf(m, k - 1) <= from
    <3>1. IF from > EndOf(m, k) THEN x = NothingRead
          ELSE x.ok => /\ from + size <= EndOf(m, k)
                       /\ x.pos >= size /\ Len(x.block) >= size
                       /\ \A j \in 1 .. size :
                              /\ from + j - EndOf(m, k - 1) \in 1 .. Len(d[k])
                              /\ x.block[j] = d[k][from + j - EndOf(m, k - 1)]
      <4>1. x = ReadFile(m, d, k, from, size, huge, NothingRead)
        BY <2>2, <2>7
      <4>2. EndOf(m, k - 1) <= from
        BY <2>7
      <4>3. QED
        BY <4>1, <4>2, ReadFileBegins, SMTT(30)
    <3>2. CASE from > EndOf(m, k)
      <4>1. x = NothingRead
        BY <3>1, <3>2
      <4>2. EndOf(m, k) <= from
        BY <1>1, <2>1, <3>2
      <4>3. QED
        BY <2>1, <4>1, <4>2 DEF x
    <3>3. CASE ~(from > EndOf(m, k))
      <4>1. Serves(m, d, from, size, x)
        BY <2>7, <3>1, <3>3 DEF Serves
      <4>2. QED
        BY <2>1, <4>1 DEF x
    <3>4. QED
      BY <3>2, <3>3
  <2>8. QED
    BY <2>3, <2>4, <2>5, <2>6, <2>7
<1> HIDE DEF H
<1>6. 0 .. F \subseteq H
  BY <1>1, <1>4, <1>5, UpTo
<1>7. F \in 0 .. F
  BY <1>1
<1>8. \/ L[F] = NothingRead /\ EndOf(m, F) <= from
      \/ Serves(m, d, from, size, L[F])
  <2>1. F \in H
    BY <1>6, <1>7
  <2>2. L[F].ok
    BY DEF L
  <2>3. QED
    BY <2>1, <2>2 DEF H
<1>9. ~(EndOf(m, F) <= from)
  BY <1>1, <1>2
<1>10. QED
  BY <1>3, <1>7, <1>8, <1>9 DEF L

\* What is sent is the start of it, and what the disk holds there.
LEMMA ServesGives ==
  ASSUME NEW m, WellFormed(m), NEW d, IsDisk(m, d), NEW from \in Nat, NEW size \in Nat \ {0},
         from + size <= m.totalSize, NEW r \in Result, Serves(m, d, from, size, r)
  PROVE  LET sent == SubSeq(r.block, 1, Smaller(size, Len(r.block)))
         IN  Len(sent) = size /\ sent = Held(m, d, from, size)
<1> DEFINE t == r.block
           u == SubSeq(t, 1, size)
<1>1. t \in Seq(Int) /\ Len(t) \in Nat /\ \A j \in 1 .. Len(t) : t[j] \in Int
  <2>1. t \in Seq(Int) /\ Len(t) \in Nat
    BY ResultIs
  <2>2. QED
    BY <2>1, ElementOfSeq
<1> HIDE DEF t
<1>2. PICK f \in 1 .. Len(m.files) :
             /\ EndOf(m, f - 1) <= from /\ from + size <= EndOf(m, f)
             /\ \A j \in 1 .. size : /\ from + j - EndOf(m, f - 1) \in 1 .. Len(d[f])
                                     /\ t[j] = d[f][from + j - EndOf(m, f - 1)]
  BY DEF Serves, t
<1>3. Len(t) >= size
  BY DEF Serves, t
<1>4. Smaller(size, Len(t)) = size
  BY <1>1, <1>3 DEF Smaller
<1>5. /\ u \in Seq(Int) /\ Len(u) = size /\ \A j \in 1 .. size : u[j] = t[j]
  <2>1. \A j \in 1 .. size : t[j] \in Int
    BY <1>1, <1>3
  <2>2. /\ u \in Seq(Int) /\ Len(u) = IF 1 <= size THEN size - 1 + 1 ELSE 0
        /\ \A j \in 1 .. size - 1 + 1 : u[j] = t[1 + j - 1]
    BY <1>1, <2>1, SubSeqProperties
  <2> HIDE DEF u
  <2>3. Len(u) = size
    BY <2>2
  <2>4. \A j \in 1 .. size : j \in 1 .. size - 1 + 1 /\ 1 + j - 1 = j
    OBVIOUS
  <2>5. QED
    BY <2>2, <2>3, <2>4
<1> HIDE DEF u
<1> DEFINE v == ContentOf(u, from)
<1>6. v \in Contents /\ Bytes(v, from, size) = u
  BY <1>5, ContentHas
<1>7. ASSUME NEW o \in Nat, from <= o, o < from + size PROVE v[o] = t[o - from + 1]
  <2> DEFINE j == o - from + 1
  <2>1. j \in 1 .. size
    BY <1>7
  <2>2. v[o] = IF j \in 1 .. Len(u) THEN u[j] ELSE Hole
    BY DEF ContentOf
  <2> HIDE DEF j, v
  <2>3. QED
    BY <1>5, <2>1, <2>2 DEF j
<1> HIDE DEF v
<1>8. ASSUME NEW k \in 1 .. Len(m.files), NEW o \in Nat, from <= o, o < from + size,
             EndOf(m, k - 1) <= o, o < EndOf(m, k)
      PROVE  o - EndOf(m, k - 1) + 1 \in 1 .. Len(d[k]) /\ d[k][o - EndOf(m, k - 1) + 1] = v[o]
  <2> DEFINE begin == EndOf(m, f - 1)
             end == EndOf(m, f)
             j == o - from + 1
  <2>1. begin \in Nat /\ end \in Nat
    <3>1. f - 1 \in 0 .. Len(m.files) /\ f \in 0 .. Len(m.files)
      BY FileLies
    <3>2. QED
      BY <3>1, FileLies
  <2>2. begin <= from /\ from + size <= end
    BY <1>2
  <2>3. begin <= o /\ o < end /\ from + j - begin = o - begin + 1 /\ j \in 1 .. size
    <3> HIDE DEF begin, end
    <3>1. QED
      BY <1>8, <2>1, <2>2
  <2>4. f = k
    BY <1>8, <2>3, OneFile
  <2>5. from + j - begin \in 1 .. Len(d[f]) /\ t[j] = d[f][from + j - begin]
    BY <1>2, <2>3
  <2>6. v[o] = t[j]
    BY <1>7, <1>8
  <2> HIDE DEF j
  <2>7. QED
    BY <2>3, <2>4, <2>5, <2>6
<1>9. There(v, m, d, from, size)
  BY <1>8 DEF There, RightIn, Has
<1>10. Held(m, d, from, size) = Bytes(v, from, size)
  <2>1. size \in Nat
    OBVIOUS
  <2>2. QED
    BY <1>6, <1>9, <2>1, GatheredRight DEF Held
<1>11. QED
  BY <1>4, <1>5, <1>6, <1>10 DEF u, t

\* A read within one of the last two files, not at an edge it shares, succeeds, when an
\* int can count what is left of the file.
LEMMA ReadIsServed ==
  ASSUME NEW m, WellFormed(m), NEW d, IsDisk(m, d), Whole(m, d), NEW from \in Nat,
         NEW size \in 1 .. m.pieceLength, NEW huge, NEW f \in 1 .. Len(m.files),
         f \in {Len(m.files) - 1, Len(m.files)},
         EndOf(m, f - 1) <= from, from + size <= EndOf(m, f),
         2 * (EndOf(m, f) - from) < IntSpace,
         f > 1 => from > EndOf(m, f - 1),
         f < Len(m.files) => from + size < EndOf(m, f)
  PROVE  ReadFiles(m, d, from, size, huge)[Len(m.files)].ok
<1> DEFINE F == Len(m.files)
           start == NothingRead
           L == ReadFiles(m, d, from, size, huge)
           n == EndOf(m, f) - from
           H == {k \in 0 .. F : k < f => L[k] = start}
<1>1. F \in Nat /\ EndOf(m, 0) = 0 /\ EndOf(m, F) = m.totalSize
      /\ \A k \in 0 .. F : EndOf(m, k) \in Nat
  BY FileLies
<1>2. /\ size \in Nat /\ size >= 1 /\ size <= m.pieceLength
      /\ AddressSpace \in Nat \ {0} /\ m.totalSize \in Nat /\ m.pieceLength \in Nat \ {0}
      /\ 2 * (m.totalSize + m.pieceLength) < AddressSpace
  BY Sizes
<1>3. /\ \A k \in 0 .. F : L[k] \in Result
      /\ L[0] = start
      /\ \A k \in 1 .. F : L[k] = ReadFile(m, d, k, from, size, huge, L[k - 1])
  BY <1>2, ReadTurnsAre
<1>4. EndOf(m, f) <= m.totalSize /\ f \in 0 .. F /\ f - 1 \in 0 .. F
      /\ EndOf(m, f) \in Nat /\ EndOf(m, f - 1) \in Nat
  <2>1. f \in 0 .. F /\ f - 1 \in 0 .. F
    BY <1>1
  <2>2. QED
    BY <1>1, <2>1, Sizes
<1>5. n \in Nat /\ n >= size /\ n <= m.totalSize /\ from + size <= m.totalSize
      /\ 2 * n < IntSpace
  BY <1>2, <1>4, SMTT(30)
<1> HIDE DEF L, n
<1>6. \A k \in 1 .. F : /\ m.files[k].begin = EndOf(m, k - 1) /\ End(m.files[k]) = EndOf(m, k)
                        /\ d[k] \in Seq(Int) /\ Len(d[k]) = EndOf(m, k) - EndOf(m, k - 1)
  <2>1. ASSUME NEW k \in 1 .. F
        PROVE  d[k] \in Seq(Int) /\ Len(d[k]) = EndOf(m, k) - EndOf(m, k - 1)
    <3>1. k \in DOMAIN m.files /\ k - 1 \in 0 .. F /\ k \in 0 .. F
      BY <1>1, FileLies
    <3>2. d[k] \in Seq(Int) /\ Len(d[k]) = m.files[k].length
      BY <3>1 DEF IsDisk, Whole
    <3>3. m.files[k].length \in Nat /\ EndOf(m, k) = EndOf(m, k - 1) + m.files[k].length
      BY FileLies
    <3>4. EndOf(m, k - 1) \in Nat
      BY <1>1, <3>1
    <3>5. QED
      BY <3>2, <3>3, <3>4
  <2>2. QED
    BY <2>1, FileLies
<1>7. 0 \in H
  BY <1>1, <1>3
<1>8. ASSUME NEW k \in 1 .. F, k - 1 \in H PROVE k \in H
  <2>1. CASE ~(k < f)
    BY <1>1, <2>1
  <2>2. CASE k < f
    <3>1. k - 1 < f /\ k \in 0 .. f - 1 /\ k - 1 \in 0 .. k /\ k \in 0 .. F /\ f > 1
      BY <1>1, <2>2
    <3>2. L[k - 1] = start
      BY <1>8, <3>1
    <3>3. EndOf(m, k) <= EndOf(m, f - 1)
      BY <1>4, <3>1, EndsGrow
    <3>4. EndOf(m, k - 1) <= EndOf(m, k) /\ EndOf(m, k) \in Nat /\ EndOf(m, k - 1) \in Nat
      <4>1. k - 1 \in 0 .. F
        BY <1>1
      <4>2. QED
        BY <1>1, <3>1, <4>1, EndsGrow
    <3>5. from > EndOf(m, k) /\ EndOf(m, k - 1) <= from
      BY <1>4, <3>1, <3>3, <3>4
    <3>6. ReadFile(m, d, k, from, size, huge, start) = start
      BY <1>5, <3>5, ReadFileBegins
    <3>7. L[k] = start
      BY <1>3, <3>2, <3>6
    <3>8. QED
      BY <3>1, <3>7
  <2>3. QED
    BY <2>1, <2>2
<1> HIDE DEF H
<1>9. 0 .. F \subseteq H
  BY <1>1, <1>7, <1>8, UpTo
<1>10. L[f - 1] = start
  <2>1. f - 1 \in H /\ f - 1 < f
    BY <1>4, <1>9
  <2>2. QED
    BY <2>1 DEF H
<1>11. L[f] \in Result /\ L[f].ok /\ L[f].pos = n
  <2> DEFINE begin == m.files[f].begin
             end == End(m.files[f])
             s == start.pos
             filePos == from + s
             readSize == ReadSize(end - filePos, Less(size, s))
             maxRead == Plus(s, readSize)
             there == [start EXCEPT !.at = filePos - begin]
             data == d[f]
             out == ReadUpTo(data, readSize, maxRead, huge, there)
  <2>1. ReadFile(m, d, f, from, size, huge, start)
          = IF ~start.ok \/ filePos < begin THEN [start EXCEPT !.ok = FALSE]
            ELSE IF filePos > end THEN start ELSE out
    BY DEF ReadFile
  <2>2. start.ok /\ s = 0 /\ start \in Result
    BY NothingReadIs
  <2>3. begin = EndOf(m, f - 1) /\ end = EndOf(m, f) /\ begin \in Nat /\ end \in Nat
    BY <1>4, <1>6
  <2> HIDE DEF start, s, begin, end
  <2>4. Less(size, s) = size
    <3>1. size \in Nat /\ size < AddressSpace /\ size - s + AddressSpace = size + AddressSpace
      BY <1>2, <2>2
    <3>2. QED
      BY <1>2, <3>1, NoOverflow DEF Less
  <2>5. end - filePos = n /\ filePos = from
    BY <2>2, <2>3 DEF n
  <2>6. readSize = n
    BY <1>2, <1>5, <2>4, <2>5 DEF ReadSize, Larger
  <2> HIDE DEF readSize
  <2>7. maxRead = n
    <3>1. s + readSize = n /\ n < AddressSpace
      BY <1>2, <1>5, <2>2, <2>6
    <3>2. QED
      BY <1>2, <1>5, <3>1, NoOverflow DEF Plus
  <2> HIDE DEF maxRead
  <2>8. ReadFile(m, d, f, from, size, huge, start) = out
    <3>1. ~(filePos < begin) /\ ~(filePos > end)
      BY <1>2, <1>4, <2>2, <2>3, SMTT(30)
    <3>2. QED
      BY <2>1, <2>2, <3>1
  <2>9. out \in Result /\ out.ok /\ out.pos = n
    <3>1. from - begin \in Nat /\ (from - begin) + n = Len(data)
      <4>1. Len(data) = end - begin
        BY <1>6, <2>3
      <4>2. begin <= from /\ n = end - from
        BY <2>3 DEF n
      <4> HIDE DEF data
      <4>3. QED
        BY <2>3, <4>1, <4>2, SMTT(30)
    <3>2. 2 * n < AddressSpace /\ data \in Seq(Int)
      BY <1>2, <1>5, <1>6
    <3> HIDE DEF data
    <3>3. there \in Result /\ there.ok /\ there.pos = 0 /\ there.at = from - begin
      BY <2>2, <2>5, <3>1 DEF Result, s
    <3> HIDE DEF there
    <3>4. out = ReadUpTo(data, n, n, huge, there)
      BY <2>6, <2>7
    <3> HIDE DEF out
    <3>5. LET all == ReadUpTo(data, n, n, huge, there)
          IN  all \in Result /\ all.ok /\ all.pos = n
      <4>1. there.at + n = Len(data)
        BY <3>1, <3>3
      <4>2. AddressSpace \in Nat \ {0} /\ n \in Nat /\ 2 * n < AddressSpace /\ 2 * n < IntSpace
        BY <1>2, <1>5, <3>2
      <4>3. QED
        BY <3>2, <3>3, <4>1, <4>2, ReadUpToAll
    <3>6. QED
      BY <3>4, <3>5
  <2>10. L[f] = out
    BY <1>3, <1>10, <2>8
  <2>11. QED
    BY <2>9, <2>10
<1>12. CASE f = F
  BY <1>11, <1>12 DEF L
<1>13. CASE f # F
  <2>1. f = F - 1 /\ f < F /\ F \in 1 .. F /\ F - 1 = f
    BY <1>1, <1>13
  <2> DEFINE r == L[f]
             begin == m.files[F].begin
             end == End(m.files[F])
             s == r.pos
             filePos == from + s
             readSize == ReadSize(end - filePos, Less(size, s))
             maxRead == Plus(s, readSize)
             there == [r EXCEPT !.at = filePos - begin]
             out == ReadUpTo(d[F], readSize, maxRead, huge, there)
  <2>2. ReadFile(m, d, F, from, size, huge, r)
          = IF ~r.ok \/ filePos < begin THEN [r EXCEPT !.ok = FALSE]
            ELSE IF filePos > end THEN r ELSE out
    BY DEF ReadFile
  <2>3. r \in Result /\ r.ok /\ s = n
    BY <1>11
  <2>4. /\ begin = EndOf(m, f) /\ end = m.totalSize /\ d[F] \in Seq(Int)
    BY <1>1, <1>6, <2>1
  <2> HIDE DEF r, s, begin, end
  <2>5. filePos = begin /\ filePos <= end /\ filePos \in Nat
    BY <1>4, <2>3, <2>4 DEF n
  <2>6. n > size
    BY <1>2, <1>4, <2>1 DEF n
  <2>7. Less(size, s) = AddressSpace - (n - size)
    <3> DEFINE w == AddressSpace - (n - size)
    <3>1. w \in Nat /\ w < AddressSpace /\ size - s + AddressSpace = w
      BY <1>2, <1>5, <2>3, <2>6
    <3> HIDE DEF w
    <3>2. w % AddressSpace = w
      BY <1>2, <3>1, NoOverflow
    <3>3. QED
      BY <3>1, <3>2 DEF Less, w
  <2>8. readSize = AddressSpace - (n - size)
    <3>1. end - filePos \in Int /\ end - filePos < AddressSpace - (n - size)
      BY <1>2, <1>5, <2>4, <2>5, <2>6, SMTT(30)
    <3>2. QED
      BY <2>7, <3>1 DEF ReadSize, Larger
  <2> HIDE DEF readSize
  <2>9. maxRead = size
    <3>1. s + readSize = size + AddressSpace
      BY <1>2, <1>5, <2>3, <2>8
    <3>2. size < AddressSpace
      BY <1>2
    <3>3. QED
      BY <1>2, <3>1, <3>2, NoOverflow DEF Plus
  <2> HIDE DEF maxRead
  <2>10. there \in Result /\ there.ok = r.ok /\ there.pos = r.pos
    <3>1. filePos - begin \in Nat
      BY <2>5
    <3> HIDE DEF filePos
    <3>2. QED
      BY <2>3, <3>1 DEF Result
  <2>11. out = there
    <3>1. there.pos >= maxRead
      BY <1>2, <1>5, <2>3, <2>6, <2>9, <2>10 DEF s
    <3> HIDE DEF there
    <3>2. QED
      BY <2>4, <2>10, <3>1, ReadUpToNothing
  <2>12. ReadFile(m, d, F, from, size, huge, r) = there
    <3>1. ~(filePos < begin) /\ ~(filePos > end)
      BY <1>1, <1>2, <2>4, <2>5, SMTT(30)
    <3> HIDE DEF filePos, out, there
    <3>2. QED
      BY <2>2, <2>3, <2>11, <3>1
  <2> HIDE DEF there
  <2>13. L[F] = there
    BY <1>3, <2>1, <2>12 DEF r
  <2>14. QED
    BY <2>3, <2>10, <2>13 DEF L
<1>14. QED
  BY <1>12, <1>13
------------------------------------------------------------------------------
(* What is counted *)

\* count() reads the bytes of the set, and one more when their number is odd
\* (the loop and the three `if's of bitset::count).
THEOREM CountReadsOneTooMany ==
    \A size \in Nat : BytesRead(size) = size + (size % 2)
  BY SMTT(30) DEF BytesRead, AfterOne, AfterTwo, AfterFour, AfterEights

\* For an even size count() is the number of bits set, whatever memory follows.
THEOREM CountIsExact ==
    ASSUME NEW size \in Nat, size % 2 = 0,
           NEW have \in SUBSET (0 .. size - 1), NEW behind \in Nat
    PROVE  BitCount(have, size, behind) = Cardinality(have)
<1> DEFINE counted == {i \in have : i \div 8 < BytesRead(size)}
<1>1. BytesRead(size) = size
  BY CountReadsOneTooMany
<1>2. counted = have
  <2>1. \A i \in 0 .. size - 1 : i \div 8 < size
    OBVIOUS
  <2> QED BY <1>1, <2>1
<1>3. Cardinality(have) \in Nat
  <2>1. IsFiniteSet(0 .. size - 1)
    BY FS_Interval
  <2> QED BY <2>1, FS_Subset, FS_CardinalityType
<1>4. ~(BytesRead(size) > size)
  BY <1>1
<1>5. BitCount(have, size, behind) = Cardinality(counted) + 0
  BY <1>4, Zenon DEF BitCount
<1> HIDE DEF counted
<1> QED BY <1>2, <1>3, <1>5

\* The bytes missing of the first k pieces.
LEMMA MissingTurns ==
  ASSUME NEW m, WellFormed(m), NEW have
  PROVE  LET M == Missing(m, have)
         IN  /\ \A k \in 0 .. m.numPieces : M[k] \in Nat
             /\ M[0] = 0
             /\ \A k \in 1 .. m.numPieces :
                    M[k] = IF k - 1 \in have THEN M[k - 1] ELSE M[k - 1] + PieceLength(m, k - 1)
<1> DEFINE N == m.numPieces
           turn == [k \in 1 .. m.numPieces |->
                       [sum \in Nat |-> IF k - 1 \in have THEN sum
                                        ELSE sum + PieceLength(m, k - 1)]]
           M == Missing(m, have)
<1>1. N \in Nat
  BY DEF WellFormed
<1>2. \A k \in 1 .. N : PieceLength(m, k - 1) \in Nat
  <2>1. ASSUME NEW k \in 1 .. N PROVE PieceLength(m, k - 1) \in Nat
    <3>1. k - 1 \in 0 .. N - 1
      BY <1>1
    <3>2. PieceLength(m, k - 1) \in 1 .. m.pieceLength /\ m.pieceLength \in Nat
      BY <3>1, PieceLies
    <3>3. QED
      BY <3>2
  <2>2. QED
    BY <2>1
<1>3. \A k \in 1 .. N : \A x \in Nat :
          turn[k][x] = IF k - 1 \in have THEN x ELSE x + PieceLength(m, k - 1)
  OBVIOUS
<1>4. M = Loop(turn, 0, N)
  BY DEF Missing
<1> HIDE DEF N, turn, M
<1>5. \A k \in 1 .. N : \A x \in Nat : turn[k][x] \in Nat
  BY <1>2, <1>3
<1>6. TurnByTurn(Nat, turn, 0, N)
  BY <1>1, <1>5, LoopTurns
<1>7. /\ M \in [0 .. N -> Nat] /\ M[0] = 0
      /\ \A k \in 1 .. N : M[k] = turn[k][M[k - 1]]
  BY <1>4, <1>6 DEF TurnByTurn
<1>8. ASSUME NEW k \in 1 .. N
      PROVE  M[k] = IF k - 1 \in have THEN M[k - 1] ELSE M[k - 1] + PieceLength(m, k - 1)
  <2>1. k - 1 \in 0 .. N
    BY <1>1
  <2>2. M[k - 1] \in Nat
    BY <1>7, <2>1
  <2>3. QED
    BY <1>3, <1>7, <2>2
<1>9. QED
  BY <1>7, <1>8 DEF M, N

\* A product with one more.
LEMMA OneMore ==
  ASSUME NEW p \in Nat, NEW c \in Int
  PROVE  p * c \in Int /\ (c + 1) * p = c * p + p /\ p * (c + 1) = p * c + p /\ p * 0 = 0
         /\ p * c = c * p
  OBVIOUS

\* What is missing before the last piece, and what is there, is all of it.
LEMMA MissingIs ==
  ASSUME NEW m, WellFormed(m), NEW have \in SUBSET (0 .. m.numPieces - 1),
         NEW k \in 0 .. m.numPieces - 1
  PROVE  /\ Cardinality({i \in have : i < k}) \in Nat
         /\ Missing(m, have)[k] + m.pieceLength * Cardinality({i \in have : i < k})
                = k * m.pieceLength
<1> DEFINE N == m.numPieces
           P == m.pieceLength
           M == Missing(m, have)
           Below(j) == {i \in have : i < j}
           C(j) == Cardinality(Below(j))
           H == {j \in 0 .. N - 1 : C(j) \in Nat /\ M[j] + P * C(j) = j * P}
<1>1. N \in Nat \ {0} /\ P \in Nat \ {0} /\ have \subseteq Nat
  BY DEF WellFormed
<1>2. /\ \A j \in 0 .. N : M[j] \in Nat
      /\ M[0] = 0
      /\ \A j \in 1 .. N : M[j] = IF j - 1 \in have THEN M[j - 1]
                                  ELSE M[j - 1] + PieceLength(m, j - 1)
  BY MissingTurns
<1>3. \A j \in 0 .. N - 1 : j # N - 1 => PieceLength(m, j) = P
  BY PieceLies
<1>4. \A j \in Int : IsFiniteSet(Below(j)) /\ C(j) \in Nat
  <2>1. IsFiniteSet(0 .. N - 1)
    <3>1. 0 \in Int /\ N - 1 \in Int
      BY <1>1
    <3> HIDE DEF N
    <3>2. QED
      BY <3>1, FS_Interval
  <2>2. ASSUME NEW j \in Int PROVE Below(j) \in SUBSET (0 .. N - 1)
    OBVIOUS
  <2> HIDE DEF Below
  <2>3. QED
    BY <2>1, <2>2, FS_Subset, FS_CardinalityType
<1> HIDE DEF N, P, M
<1>5. 0 \in H
  <2>1. Below(0) = {}
    <3>1. \A i \in Nat : ~(i < 0)
      OBVIOUS
    <3>2. QED
      BY <1>1, <3>1, Zenon
  <2>2. C(0) = 0
    BY <2>1, FS_EmptySet
  <2>3. P * 0 = 0 /\ 0 * P = 0
    BY <1>1
  <2> HIDE DEF Below
  <2>4. QED
    BY <1>1, <1>2, <2>2, <2>3
<1>6. ASSUME NEW j \in 1 .. N - 1, j - 1 \in H PROVE j \in H
  <2>1. /\ j \in 0 .. N - 1 /\ j \in 1 .. N /\ j - 1 \in 0 .. N - 1 /\ j - 1 # N - 1
        /\ j \in Int /\ j - 1 \in Int /\ j - 1 \in 0 .. N
    BY <1>1
  <2>2. C(j - 1) \in Nat /\ M[j - 1] + P * C(j - 1) = (j - 1) * P
    BY <1>6
  <2>3. PieceLength(m, j - 1) = P
    BY <1>3, <2>1
  <2>4. M[j] = IF j - 1 \in have THEN M[j - 1] ELSE M[j - 1] + P
    BY <1>2, <2>1, <2>3
  <2>5. M[j - 1] \in Nat /\ M[j] \in Nat
    BY <1>2, <2>1
  <2>0. \A i \in have : i < j <=> i < j - 1 \/ i = j - 1
    BY <1>1, <2>1
  <2>6. C(j) = IF j - 1 \in have THEN C(j - 1) + 1 ELSE C(j - 1)
    <3>1. CASE j - 1 \in have
      <4>1. Below(j) = Below(j - 1) \cup {j - 1}
        <5>1. j - 1 < j
          BY <2>1
        <5>2. QED
          BY <2>0, <3>1, <5>1, Zenon
      <4>2. j - 1 \notin Below(j - 1) /\ IsFiniteSet(Below(j - 1))
        BY <1>4, <2>1
      <4> HIDE DEF Below
      <4>3. QED
        BY <3>1, <4>1, <4>2, FS_AddElement
    <3>2. CASE j - 1 \notin have
      <4>1. Below(j) = Below(j - 1)
        BY <2>0, <3>2, Zenon
      <4> HIDE DEF Below
      <4>2. QED
        BY <3>2, <4>1
    <3>3. QED
      BY <3>1, <3>2
  <2> HIDE DEF C
  <2>7. (j - 1) * P + P = j * P /\ j * P \in Int
    <3>1. j - 1 \in Int /\ P \in Nat /\ (j - 1) + 1 = j
      BY <1>1, <2>1
    <3>2. ((j - 1) + 1) * P = (j - 1) * P + P
      BY <3>1, OneMore
    <3>3. QED
      BY <1>1, <3>1, <3>2
  <2>8. P * (C(j - 1) + 1) = P * C(j - 1) + P /\ P * C(j - 1) \in Int /\ P \in Int
    BY <1>1, <2>2, OneMore
  <2> DEFINE x == P * C(j - 1)
             y == (j - 1) * P
             z == j * P
  <2>9. C(j) \in Nat
    BY <2>2, <2>6
  <2>10. M[j] + P * C(j) = j * P
    <3>1. y + P = z /\ z \in Int /\ x \in Int /\ M[j - 1] + x = y
      BY <2>2, <2>7, <2>8
    <3>2. CASE j - 1 \in have
      <4>1. P * C(j) = x + P /\ M[j] = M[j - 1]
        BY <2>4, <2>6, <2>8, <3>2
      <4> HIDE DEF x, y, z
      <4>2. M[j] + P * C(j) = z
        BY <1>1, <2>5, <3>1, <4>1
      <4>3. QED
        BY <4>2 DEF z
    <3>3. CASE j - 1 \notin have
      <4>1. P * C(j) = x /\ M[j] = M[j - 1] + P
        BY <2>4, <2>6, <3>3
      <4> HIDE DEF x, y, z
      <4>2. M[j] + P * C(j) = z
        BY <1>1, <2>5, <3>1, <4>1
      <4>3. QED
        BY <4>2 DEF z
    <3>4. QED
      BY <3>2, <3>3
  <2>11. QED
    BY <2>1, <2>9, <2>10
<1> HIDE DEF H
<1>7. N - 1 \in Nat
  BY <1>1
<1>8. 0 .. N - 1 \subseteq H
  BY <1>5, <1>6, <1>7, UpTo
<1>9. k \in H
  BY <1>8 DEF N
<1>10. QED
  BY <1>9 DEF H, C, Below, M, P
------------------------------------------------------------------------------
(* The invariant *)

Opened ==
    /\ meta \in Torrents /\ IsDisk(meta, disk)
    /\ bits \in SUBSET Piece /\ slack \in Nat

StorageInv ==
    /\ stage \in {"open", "damaged"} => Opened
    /\ stage \notin {"open", "damaged"} => bits = {} /\ reply = NoReply
    /\ CompletedIsStored
    /\ ReadsAreExact

\* As much of a piece as a scan looks at is on disk when its bytes are there.
LEMMA HeldIsThere ==
  ASSUME NEW m \in Torrents, NEW d, IsDisk(m, d), NEW i \in 0 .. m.numPieces - 1,
         NEW b \in Matching(m, i), NEW n \in Looked(m, i)
  PROVE  LET first == PieceBegin(m, i)
         IN  /\ Held(m, d, first, n) = SubSeq(b, 1, n)
                <=> There(ContentOf(b, first), m, d, first, n)
             /\ first \in Nat /\ n \in Nat /\ first + n <= PieceEnd(m, i)
             /\ ContentOf(b, first) \in Contents
<1> DEFINE first == PieceBegin(m, i)
           length == PieceLength(m, i)
<1>1. WellFormed(m) /\ b \in Seq(Int) /\ Len(b) = length
  BY StorageAssumption
<1>2. /\ first \in Nat /\ length \in Nat /\ PieceEnd(m, i) = first + length
      /\ PieceEnd(m, i) <= m.totalSize /\ m.totalSize \in Nat
  <2>1. length \in 1 .. m.pieceLength /\ m.pieceLength \in Nat
    BY <1>1, PieceLies
  <2>2. QED
    BY <1>1, <2>1, PieceLies
<1>3. n \in 0 .. length
  BY <1>1, LookedLies
<1> HIDE DEF first, length
<1>4. /\ ContentOf(b, first) \in Contents
      /\ Bytes(ContentOf(b, first), first, n) = SubSeq(b, 1, n)
  BY <1>1, <1>2, <1>3, ContentHas
<1>5. n \in Nat /\ first + n <= PieceEnd(m, i) /\ first + n <= m.totalSize
  BY <1>2, <1>3
<1>6. Held(m, d, first, n) = Bytes(ContentOf(b, first), first, n)
      <=> There(ContentOf(b, first), m, d, first, n)
  BY <1>1, <1>2, <1>4, <1>5, GatheredRight DEF Held
<1>7. QED
  BY <1>2, <1>4, <1>5, <1>6 DEF first

\* Nothing has been asked for.
LEMMA NoReplyIsExact ==
  ASSUME reply = NoReply
  PROVE  ReadsAreExact
<1>1. ~(reply.size > 0)
  BY DEF NoReply
<1>2. QED
  BY <1>1 DEF ReadsAreExact

\* Before a torrent is opened nothing is marked and nothing has been asked for.
LEMMA InitInv == StorageInit => StorageInv
<1> SUFFICES ASSUME StorageInit PROVE StorageInv
  OBVIOUS
<1>1. stage \notin {"open", "damaged"} /\ bits = {} /\ reply = NoReply
  BY DEF StorageInit
<1>2. QED
  BY <1>1, NoReplyIsExact DEF StorageInv, CompletedIsStored

\* What the scan finds is stored.
LEMMA RegisterInv ==
  ASSUME StorageInv, NEW m \in Torrents, RegisterFiles(m)
  PROVE  StorageInv'
<1>1. /\ stage' = "open" /\ meta' = m /\ disk' \in OnDisk(m) /\ bits' = ScanPieces(m, disk')
      /\ slack' \in {0, 1} /\ reply' = NoReply
  BY DEF RegisterFiles, StorageInv
<1>2. IsDisk(m, disk')
  BY <1>1, StorageAssumption
<1>3. ASSUME NEW i \in bits'
      PROVE  /\ i \in Piece'
             /\ \E b \in Matching(m, i), n \in Looked(m, i) :
                    Held(m, disk', PieceBegin(m, i), n) = SubSeq(b, 1, n)
  <2>1. i \in ScanPieces(m, disk')
    BY <1>1
  <2>2. /\ i \in 0 .. m.numPieces - 1
        /\ \E b \in Matching(m, i), n \in Looked(m, i) :
               There(ContentOf(b, PieceBegin(m, i)), m, disk', PieceBegin(m, i), n)
    BY <1>2, <2>1, ScanIsSound
  <2>3. PICK b \in Matching(m, i), n \in Looked(m, i) :
               There(ContentOf(b, PieceBegin(m, i)), m, disk', PieceBegin(m, i), n)
    BY <2>2
  <2>4. Held(m, disk', PieceBegin(m, i), n) = SubSeq(b, 1, n)
    BY <1>2, <2>2, <2>3, HeldIsThere
  <2>5. QED
    BY <1>1, <2>2, <2>4 DEF Piece
<1>4. Opened'
  BY <1>1, <1>2, <1>3 DEF Opened
<1>5. CompletedIsStored'
  BY <1>1, <1>3 DEF CompletedIsStored
<1>6. ReadsAreExact'
  <2>1. ~(reply'.size > 0)
    BY <1>1 DEF NoReply
  <2>2. QED
    BY <2>1 DEF ReadsAreExact
<1>7. QED
  BY <1>1, <1>4, <1>5, <1>6 DEF StorageInv

\* Storing one piece leaves the others as they are.
LEMMA StoreInv ==
  ASSUME StorageInv, NEW i \in Piece, NEW data \in Matching(meta, i), Store(i, data)
  PROVE  StorageInv'
<1> DEFINE first == PieceBegin(meta, i)
           n == PieceLength(meta, i)
           val == ContentOf(data, first)
<1>1. /\ stage = "open" /\ stage' = "open" /\ meta' = meta /\ slack' = slack
      /\ bits' = bits \cup {i} /\ reply' = NoReply
      /\ disk' = Written(meta, disk, first, data)[Len(meta.files)].disk
  BY DEF Store, ProcessWrite
<1>2. WellFormed(meta) /\ IsDisk(meta, disk) /\ bits \subseteq Piece /\ slack \in Nat
      /\ meta \in Torrents
  BY <1>1, StorageAssumption DEF StorageInv, Opened
<1>3. i \in 0 .. meta.numPieces - 1
  BY DEF Piece
<1>4. /\ first \in Nat /\ n \in Nat /\ n \in Looked(meta, i) /\ PieceEnd(meta, i) = first + n
      /\ val \in Contents /\ Bytes(val, first, n) = data
  <2>1. data \in Seq(Int) /\ Len(data) = n
    BY <1>2, <1>3, StorageAssumption
  <2>2. first \in Nat /\ PieceEnd(meta, i) = first + n /\ n \in 1 .. meta.pieceLength
        /\ meta.pieceLength \in Nat
    BY <1>2, <1>3, PieceLies
  <2>3. n \in Looked(meta, i)
    BY DEF Looked
  <2> HIDE DEF first, n
  <2>4. n \in Nat
    BY <2>2
  <2>5. ContentOf(data, first) \in Contents /\ Bytes(ContentOf(data, first), first, n) = data
    BY <2>1, <2>2, ContentHas
  <2>6. QED
    BY <2>2, <2>3, <2>4, <2>5
<1> HIDE DEF n
<1>5. /\ IsDisk(meta, disk') /\ There(val, meta, disk', first, n)
      /\ \A was \in Contents, p \in Nat, q \in Nat :
             (p + q <= first \/ first + n <= p) /\ There(was, meta, disk, p, q)
             => There(was, meta, disk', p, q)
  <2> HIDE DEF val, first
  <2>1. disk' = Written(meta, disk, first, Bytes(val, first, n))[Len(meta.files)].disk
    BY <1>1, <1>4
  <2>2. QED
    BY <1>2, <1>4, <2>1, WriteStores
<1>6. ASSUME NEW j \in bits'
      PROVE  \E b \in Matching(meta, j), k \in Looked(meta, j) :
                 Held(meta, disk', PieceBegin(meta, j), k) = SubSeq(b, 1, k)
  <2>1. j \in 0 .. meta.numPieces - 1
    BY <1>1, <1>2, <1>3 DEF Piece
  <2>2. CASE j = i
    <3>1. Held(meta, disk', first, n) = SubSeq(data, 1, n)
      BY <1>2, <1>3, <1>4, <1>5, HeldIsThere
    <3>2. QED
      BY <1>4, <2>2, <3>1
  <2>3. CASE j # i
    <3> DEFINE p == PieceBegin(meta, j)
    <3>1. j \in bits
      BY <1>1, <2>3
    <3>2. PICK b \in Matching(meta, j), k \in Looked(meta, j) :
                 Held(meta, disk, p, k) = SubSeq(b, 1, k)
      BY <3>1 DEF StorageInv, CompletedIsStored
    <3> DEFINE was == ContentOf(b, p)
    <3>3. /\ There(was, meta, disk, p, k) /\ p \in Nat /\ k \in Nat
          /\ p + k <= PieceEnd(meta, j) /\ was \in Contents
      BY <1>2, <2>1, <3>2, HeldIsThere
    <3>4. p + k <= first \/ first + n <= p
      <4>1. meta.numPieces \in Nat /\ i \in Int /\ j \in Int
        BY <1>2, <1>3, <2>1 DEF WellFormed
      <4>2. j < i => PieceEnd(meta, j) <= first
        BY <1>2, <1>3, <2>1, PiecesApart
      <4>3. i < j => PieceEnd(meta, i) <= p
        BY <1>2, <1>3, <2>1, PiecesApart
      <4>4. j < i \/ i < j
        BY <2>3, <4>1
      <4>5. PieceEnd(meta, j) \in Int
        <5>1. PieceEnd(meta, j) <= meta.totalSize /\ PieceEnd(meta, j) \in Nat
          BY <1>2, <2>1, PieceLies
        <5>2. QED
          BY <5>1
      <4> HIDE DEF first, p
      <4>6. QED
        BY <1>4, <3>3, <4>2, <4>3, <4>4, <4>5
    <3> HIDE DEF was, p, first
    <3>5. There(was, meta, disk', p, k)
      BY <1>5, <3>3, <3>4
    <3>6. Held(meta, disk', p, k) = SubSeq(b, 1, k)
      BY <1>2, <1>5, <2>1, <3>5, HeldIsThere DEF was, p
    <3>7. QED
      BY <3>6 DEF p
  <2>4. QED
    BY <2>2, <2>3
<1>7. Opened'
  BY <1>1, <1>2, <1>5 DEF Opened, Piece
<1>8. CompletedIsStored'
  BY <1>1, <1>6 DEF CompletedIsStored
<1>9. ReadsAreExact'
  <2>1. ~(reply'.size > 0)
    BY <1>1 DEF NoReply
  <2>2. QED
    BY <2>1 DEF ReadsAreExact
<1>10. QED
  BY <1>1, <1>7, <1>8, <1>9 DEF StorageInv

\* A block that is read is what ReadIsSound and ReadIsServed say.
LEMMA ReadBlockInv ==
  ASSUME StorageInv, NEW i \in bits, NEW begin \in 0 .. meta.pieceLength - 1,
         NEW size \in 1 .. meta.pieceLength, NEW huge \in BOOLEAN, ReadBlock(i, begin, size, huge)
  PROVE  StorageInv'
<1> DEFINE from == PieceBegin(meta, i) + begin
           r == ReadFiles(meta, disk, from, size, huge)[Len(meta.files)]
           block == SubSeq(r.block, 1, Smaller(size, Len(r.block)))
<1>1. /\ stage = "open" /\ meta' = meta /\ disk' = disk /\ bits' = bits
      /\ slack' = slack /\ begin + size < PieceLength(meta, i)
  BY DEF ReadBlock
<1>2. /\ WellFormed(meta) /\ IsDisk(meta, disk) /\ bits \subseteq Piece /\ slack \in Nat
      /\ meta \in Torrents /\ CompletedIsStored
  BY <1>1, StorageAssumption DEF StorageInv, Opened
<1>3. i \in 0 .. meta.numPieces - 1
  BY <1>2 DEF Piece
<1>4. /\ PieceBegin(meta, i) \in Nat /\ PieceLength(meta, i) \in Nat
      /\ meta.pieceLength \in Nat /\ meta.totalSize \in Nat
      /\ PieceBegin(meta, i) + PieceLength(meta, i) <= meta.totalSize
  <2>1. /\ PieceBegin(meta, i) \in Nat /\ PieceLength(meta, i) \in 1 .. meta.pieceLength
        /\ meta.pieceLength \in Nat /\ meta.totalSize \in Nat
        /\ PieceEnd(meta, i) = PieceBegin(meta, i) + PieceLength(meta, i)
        /\ PieceEnd(meta, i) <= meta.totalSize
    BY <1>2, <1>3, PieceLies
  <2>2. QED
    BY <2>1
<1>5. begin \in Nat /\ size \in Nat \ {0} /\ from \in Nat /\ from + size <= meta.totalSize
  BY <1>1, <1>4
<1>6. \/ /\ reply' = [index |-> i, begin |-> begin, size |-> size, ok |-> r.ok, block |-> block]
         /\ stage' = "open"
      \/ reply' = NoReply /\ stage' = "damaged"
  <2>1. begin + PieceBegin(meta, i) = from
    BY <1>4, <1>5
  <2> HIDE DEF from
  <2>2. QED
    BY <1>1, <2>1 DEF ReadBlock, ProcessRead
<1> HIDE DEF from, r, block
<1>7. Opened' /\ CompletedIsStored'
  BY <1>1, <1>2 DEF Opened, Piece, CompletedIsStored
<1>8. /\ DOMAIN meta.files = 1 .. Len(meta.files) /\ Len(meta.files) \in Nat
      /\ \A f \in 1 .. Len(meta.files) : /\ meta.files[f].begin = EndOf(meta, f - 1)
                                         /\ End(meta.files[f]) = EndOf(meta, f)
  BY <1>2, FileLies
<1>9. ASSUME r.ok
      PROVE  /\ Len(block) = size /\ block = Held(meta, disk, from, size)
             /\ \E f \in DOMAIN meta.files :
                    meta.files[f].begin <= from /\ from + size <= End(meta.files[f])
  <2>1. r \in Result /\ Serves(meta, disk, from, size, r)
    BY <1>2, <1>5, <1>9, ReadIsSound DEF r
  <2>2. Len(block) = size /\ block = Held(meta, disk, from, size)
    BY <1>2, <1>5, <2>1, ServesGives DEF block
  <2>3. QED
    BY <1>8, <2>1, <2>2 DEF Serves
<1>10. ASSUME Whole(meta, disk), NEW f \in {Len(meta.files) - 1, Len(meta.files)} \cap DOMAIN meta.files,
              meta.files[f].begin <= from, from + size <= End(meta.files[f]),
              2 * (End(meta.files[f]) - from) < IntSpace,
              f > 1 => from > meta.files[f].begin,
              f < Len(meta.files) => from + size < End(meta.files[f])
       PROVE  r.ok
  <2>1. f \in 1 .. Len(meta.files) /\ f \in {Len(meta.files) - 1, Len(meta.files)}
    BY <1>8
  <2>2. /\ EndOf(meta, f - 1) <= from /\ from + size <= EndOf(meta, f)
        /\ 2 * (EndOf(meta, f) - from) < IntSpace
        /\ f > 1 => from > EndOf(meta, f - 1)
        /\ f < Len(meta.files) => from + size < EndOf(meta, f)
    BY <1>8, <1>10, <2>1
  <2>3. QED
    BY <1>2, <1>5, <1>10, <2>1, <2>2, ReadIsServed DEF r
<1>11. CASE reply' = NoReply /\ stage' = "damaged"
  <2>1. ~(reply'.size > 0)
    BY <1>11 DEF NoReply
  <2>2. ReadsAreExact'
    BY <2>1 DEF ReadsAreExact
  <2>3. QED
    BY <1>7, <1>11, <2>2 DEF StorageInv
<1>12. CASE /\ reply' = [index |-> i, begin |-> begin, size |-> size, ok |-> r.ok, block |-> block]
            /\ stage' = "open"
  <2>1. /\ reply'.index = i /\ reply'.begin = begin /\ reply'.size = size /\ reply'.ok = r.ok
        /\ reply'.block = block
    BY <1>12
  <2>2. PieceBegin(meta, i) + begin = from
    BY DEF from
  <2>3. ReadsAreExact'
    BY <1>1, <1>9, <1>10, <2>1, <2>2, Zenon DEF ReadsAreExact, Whole
  <2>4. QED
    BY <1>7, <1>12, <2>3 DEF StorageInv
<1>13. QED
  BY <1>6, <1>11, <1>12

\* Every step keeps the invariant.
LEMMA NextInv == StorageInv /\ [StorageNext]_storageVars => StorageInv'
<1> SUFFICES ASSUME StorageInv, [StorageNext]_storageVars PROVE StorageInv'
  OBVIOUS
<1>1. ASSUME NEW m \in Torrents, RegisterFiles(m) PROVE StorageInv'
  BY <1>1, RegisterInv
<1>2. CASE Refuse
  <2>1. /\ stage \notin {"open", "damaged"} /\ stage' \notin {"open", "damaged"}
        /\ bits' = bits /\ reply' = reply
    BY <1>2 DEF Refuse
  <2>2. bits' = {} /\ reply' = NoReply
    BY <2>1 DEF StorageInv
  <2>3. ~(reply'.size > 0)
    BY <2>2 DEF NoReply
  <2>4. QED
    BY <2>1, <2>2, <2>3 DEF StorageInv, CompletedIsStored, ReadsAreExact
<1>3. ASSUME NEW i \in Piece, NEW data \in Matching(meta, i), Store(i, data) PROVE StorageInv'
  BY <1>3, StoreInv
<1>4. ASSUME NEW i \in bits, NEW begin \in 0 .. meta.pieceLength - 1,
             NEW size \in 1 .. meta.pieceLength, NEW huge \in BOOLEAN,
             ReadBlock(i, begin, size, huge)
      PROVE  StorageInv'
  BY <1>4, ReadBlockInv
<1>5. CASE UNCHANGED storageVars
  BY <1>5 DEF storageVars, StorageInv, Opened, Piece, CompletedIsStored, ReadsAreExact, Whole
<1>6. QED
  BY <1>1, <1>2, <1>3, <1>4, <1>5 DEF StorageNext, Work

\* Nothing is marked before a torrent is opened; from then on what it is does not change,
\* what is marked is stored and what is read is right (registerFiles, the worker's thread).
THEOREM StorageInvariant == StorageSpec => []StorageInv
  BY InitInv, NextInv, PTL DEF StorageSpec

\* Every piece marked complete is on disk, in however many files, as far as a scan looks
\* at it, with bytes that match its hash, and stays there whatever is stored after it
\* (scan_file, process_write).
THEOREM CompletedStaysStored == StorageSpec => []CompletedIsStored
<1>1. StorageInv => CompletedIsStored
  BY DEF StorageInv
<1>2. QED
  BY <1>1, StorageInvariant, PTL

\* A block that is served is what the disk holds where it was asked for, out of one
\* file; one within the last two files is served, when less is left of the file than an
\* int can count (process_read).
THEOREM ReadsStayExact == StorageSpec => []ReadsAreExact
<1>1. StorageInv => ReadsAreExact
  BY DEF StorageInv
<1>2. QED
  BY <1>1, StorageInvariant, PTL

\* isFinished is right of an even number of pieces; what trackers are told is left is
\* never less than is missing, nor more than that and the last piece (bitset::count,
\* compute_downloaded).
THEOREM CountsStayRight == StorageSpec => []CountsAreRight
<1> DEFINE N == meta.numPieces
           P == meta.pieceLength
<1>1. ASSUME StorageInv, stage = "open", N % 2 = 0
      PROVE  Finished <=> bits = Piece
  <2>1. WellFormed(meta) /\ bits \in SUBSET (0 .. N - 1) /\ slack \in Nat /\ N \in Nat \ {0}
    BY <1>1, StorageAssumption DEF StorageInv, Opened, Piece, WellFormed
  <2>2. BitCount(bits, N, slack) = Cardinality(bits)
    BY <1>1, <2>1, CountIsExact
  <2>3. IsFiniteSet(0 .. N - 1) /\ Cardinality(0 .. N - 1) = N
    <3>1. 0 \in Int /\ N - 1 \in Int /\ ~(0 > N - 1) /\ (N - 1) - 0 + 1 = N
      BY <2>1
    <3> HIDE DEF N
    <3>2. QED
      BY <3>1, FS_Interval
  <2>4. Cardinality(bits) = N => bits = 0 .. N - 1
    BY <2>1, <2>3, FS_Subset
  <2>5. QED
    BY <2>2, <2>3, <2>4 DEF Finished, Piece
<1>2. ASSUME StorageInv, stage = "open"
      PROVE  Remaining - Missing(meta, bits)[N] \in 0 .. PieceLength(meta, N - 1)
  <2> DEFINE M == Missing(meta, bits)
             C == Cardinality({i \in bits : i < N - 1})
             last == PieceLength(meta, N - 1)
  <2>1. WellFormed(meta) /\ bits \in SUBSET (0 .. N - 1) /\ N \in Nat \ {0} /\ P \in Nat \ {0}
    BY <1>2, StorageAssumption DEF StorageInv, Opened, Piece, WellFormed
  <2>2. N - 1 \in 0 .. N - 1 /\ N \in 1 .. N /\ N - 1 \in 0 .. N /\ (N - 1) + 1 \notin bits
    BY <2>1
  <2>3. /\ meta.totalSize = PieceBegin(meta, N - 1) + last /\ last \in Nat
        /\ PieceBegin(meta, N - 1) \in Nat
    <3>1. /\ PieceBegin(meta, N - 1) \in Nat /\ last \in 1 .. P
          /\ PieceEnd(meta, N - 1) = PieceBegin(meta, N - 1) + last
          /\ PieceEnd(meta, N - 1) = meta.totalSize
      BY <2>1, <2>2, PieceLies
    <3>2. QED
      BY <2>1, <3>1
  <2>4. M[N - 1] \in Nat /\ M[N] = IF N - 1 \in bits THEN M[N - 1] ELSE M[N - 1] + last
    BY <2>1, <2>2, MissingTurns
  <2>5. C \in Nat /\ M[N - 1] + P * C = (N - 1) * P
    BY <2>1, <2>2, MissingIs
  <2>6. P * C \in Int
    BY <2>1, <2>5, OneMore
  <2>7. PieceBegin(meta, N - 1) = (N - 1) * P
    BY DEF PieceBegin
  <2>8. Remaining = meta.totalSize - (P * C + 0)
    BY <2>2 DEF Remaining, ComputeDownloaded
  <2> DEFINE x == P * C
             y == (N - 1) * P
             rest == meta.totalSize
             left == M[N - 1]
  <2>9. /\ rest = y + last /\ left + x = y /\ x \in Int /\ y \in Nat /\ left \in Nat
        /\ last \in Nat /\ Remaining = rest - (x + 0) /\ (M[N] = left \/ M[N] = left + last)
    BY <2>3, <2>4, <2>5, <2>6, <2>7, <2>8
  <2> HIDE DEF x, y, rest, left, last, M, C, N, P
  <2>10. Remaining - M[N] \in 0 .. last
    BY <2>9
  <2>11. QED
    BY <2>10 DEF M, last
<1>3. StorageInv => CountsAreRight
  BY <1>1, <1>2 DEF CountsAreRight
<1>4. QED
  BY <1>3, StorageInvariant, PTL

\* When no file is short the scan finds every piece whose bytes on disk match its hash,
\* except one that ends where a file does (scan_file).
THEOREM ScanAlwaysFinds == StorageSpec => ScanFindsWhatIsThere
<1> DEFINE Finds ==
        stage' = "open" /\ stage # "open" /\ Whole(meta', disk')
        => \A i \in 0 .. meta'.numPieces - 1 :
               \/ i \in bits'
               \/ Stored(meta', disk', i) \notin Matching(meta', i)
               \/ \E f \in DOMAIN meta'.files : PieceEnd(meta', i) = End(meta'.files[f])
<1>1. [StorageNext]_storageVars => [Finds]_storageVars
  <2> SUFFICES ASSUME [StorageNext]_storageVars, stage' = "open", stage # "open",
                      Whole(meta', disk'), NEW i \in 0 .. meta'.numPieces - 1,
                      Stored(meta', disk', i) \in Matching(meta', i),
                      \A f \in DOMAIN meta'.files : PieceEnd(meta', i) # End(meta'.files[f])
               PROVE  i \in bits'
    OBVIOUS
  <2>1. PICK m \in Torrents : RegisterFiles(m)
    BY DEF StorageNext, Work, Refuse, Store, ReadBlock, storageVars
  <2>2. meta' = m /\ disk' \in OnDisk(m) /\ bits' = ScanPieces(m, disk')
    BY <2>1 DEF RegisterFiles
  <2>3. WellFormed(m) /\ IsDisk(m, disk')
    BY <2>2, StorageAssumption
  <2>4. i \in ScanPieces(m, disk')
    BY <2>2, <2>3, ScanIsComplete
  <2>5. QED
    BY <2>2, <2>4
<1>2. QED
  BY <1>1, PTL DEF StorageSpec, ScanFindsWhatIsThere
================================================================================
